-------------------------------- MODULE Rows --------------------------------
(***************************************************************************)
(* Tables as sequences of rows: what a WHERE keeps and what a SUM adds up. *)
(* Both take values, a set of rows and a sequence of amounts, and not a    *)
(* predicate as SelectSeq does: facts about them can then be stated for    *)
(* every set and every sequence.                                           *)
(***************************************************************************)
EXTENDS Integers, Sequences

\* The rows that are in keep, in their order.
Where(rows, keep) ==
    LET upto[n \in 0..Len(rows)] ==
            IF n = 0 THEN <<>>
            ELSE IF rows[n] \in keep THEN Append(upto[n - 1], rows[n])
                                     ELSE upto[n - 1]
    IN  upto[Len(rows)]

SumOf(amounts) ==
    LET upto[n \in 0..Len(amounts)] == IF n = 0 THEN 0 ELSE upto[n - 1] + amounts[n]
    IN  upto[Len(amounts)]
=============================================================================
