-------------------------- MODULE TicketLifecycle --------------------------
(***************************************************************************)
(* What the RFP service promises about one ticket, seen from outside: the  *)
(* status only moves along RFP_ALLOWED_TRANSITIONS, the final document is  *)
(* first published while the ticket waits for approval, and the ticket is  *)
(* done only when its document is there.  The worker and the decision      *)
(* handlers are shown to implement it.                                     *)
(***************************************************************************)
EXTENDS RfpStatus

VARIABLES
  status,     \* ticket.status, or Absent
  published   \* TRUE when the ticket has a row in final_document

vars == <<status, published>>

TypeOK ==
  /\ status \in RFP_STATUSES \cup {Absent}
  /\ published \in BOOLEAN

Init ==
  /\ status = Absent
  /\ published = FALSE

\* The upload inserts the row; nothing else initialises a status.
Create ==
  /\ status = Absent
  /\ status' = "analyzing"
  /\ UNCHANGED published

\* Every other status write is a transition the table allows.
Advance ==
  /\ \E target \in RFP_STATUSES :
       /\ validate_transition(status, target)
       /\ target = "done" => published
       /\ status' = target
  /\ UNCHANGED published

Publish ==
  /\ status = "waiting_for_approval"
  /\ published' = TRUE
  /\ UNCHANGED status

Next == Create \/ Advance \/ Publish

Spec == Init /\ [][Next]_vars

\* A published document belongs to a ticket that reached approval: no ticket
\* that is discarded, or still being drafted, ever has one.
PublishedOnlyInApproval == published => status \in Approving

\* A completed ticket has its document.
DoneIsPublished == status = "done" => published
=============================================================================
