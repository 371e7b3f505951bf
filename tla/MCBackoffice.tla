---------------------------- MODULE MCBackoffice ----------------------------
EXTENDS Backoffice

MCClaims == [f \in Forms |-> {CHOOSE l \in Locations : TRUE}]
MCBounds == [p \in Pages |-> [events |-> CASE p = "logins" -> 3 [] p = "orders" -> 2 [] OTHER -> 0,
                              posts  |-> IF p = "logins" THEN 2 ELSE 1]]
=============================================================================
