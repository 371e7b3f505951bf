----------------------------- MODULE RfpStatus -----------------------------
(***************************************************************************)
(* The status table of an RFP ticket and the check every status write goes *)
(* through.  No state: the tables of lifecycle.py as constants.            *)
(***************************************************************************)
EXTENDS Integers, FiniteSets

\* "absent" is not a status of the code: it stands for "no ticket row yet".
Absent == "absent"

RFP_STATUSES ==
  {"analyzing", "discarded", "intake_complete", "drafting",
   "under_evaluation", "waiting_for_approval", "done"}

RFP_ALLOWED_TRANSITIONS ==
  [s \in RFP_STATUSES |->
     CASE s = "analyzing"            -> {"discarded", "intake_complete"}
       [] s = "intake_complete"      -> {"drafting"}
       [] s = "drafting"             -> {"under_evaluation"}
       [] s = "under_evaluation"     -> {"waiting_for_approval"}
       [] s = "waiting_for_approval" -> {"done"}
       [] OTHER                      -> {}]

validate_transition(current, target) ==
  /\ current \in RFP_STATUSES
  /\ target \in RFP_STATUSES
  /\ current # target
  /\ target \in RFP_ALLOWED_TRANSITIONS[current]

\* The statuses a ticket can have once its approval has started.
Approving == {"waiting_for_approval", "done"}
=============================================================================
