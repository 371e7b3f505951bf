--------------------------- MODULE MCRfpDecisions ---------------------------
(* RfpDecisions with named departments and requests, for TLC. *)
EXTENDS RfpDecisions, TLC

CONSTANTS marketing, operaciones, r1, r2

\* Requests differ only in name, and no step of a decision treats a department
\* apart from another.
DecisionSymmetry == Permutations(Requests) \cup Permutations(Departments)
=============================================================================
