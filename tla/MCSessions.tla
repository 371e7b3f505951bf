----------------------------- MODULE MCSessions -----------------------------
(* The auth service at a small size: the table holds the bootstrap         *)
(* administrator at start, two threads serve, and MaxWork bounds the       *)
(* tokens, links and account operations together.                          *)
EXTENDS Sessions, TLC

CONSTANTS r1, r2, e1, e2, p1, p2, l1, none

MCFirstTables ==
    {<<[id |-> 1, email |-> e1, pw |-> p1, admin |-> TRUE, locs |-> {},
        link |-> NoLink, late |-> FALSE]>>}

Threads == Permutations(Requests)
=============================================================================
