------------------------------ MODULE RfpStore ------------------------------
(***************************************************************************)
(* The persistent state of one RFP ticket and the reads and writes the     *)
(* repository offers on it.  It lives in two stores with no transaction    *)
(* across them: the Postgres tables (ticket, rfp_metadata,                 *)
(* department_section, final_document) and the LangGraph checkpoints in    *)
(* SQLite.  The worker (RfpWorker) and the request handlers (RfpDecisions) *)
(* both act on this state; each commits one row at a time.                 *)
(*                                                                         *)
(* Texts are abstracted to natural numbers: what matters of a draft is     *)
(* which one it is.                                                        *)
(***************************************************************************)
EXTENDS RfpStatus

CONSTANTS
  Departments,     \* the department ids an RFP can be routed to
  Marketing,       \* the department that every RFP has
  ITERATION_LIMIT  \* how often a section may be reworked

ASSUME StoreAssumption ==
  /\ Marketing \in Departments
  /\ ITERATION_LIMIT \in Nat

VARIABLES
  status,   \* ticket.status
  needed,   \* rfp_metadata.departments_needed; {} when the row is missing
  rows,     \* department_section: department id -> row, for the rows there are
  threads,  \* checkpoint of thread rfp-{ticket}:{dept}
  ceo,      \* checkpoint of thread rfp-{ticket}:ceo
  doc       \* the row of final_document

storeVars == <<status, needed, rows, threads, ceo, doc>>

-----------------------------------------------------------------------------
(* Drafts *)

NullDraft  == 0                  \* draft_content is NULL
BlankDraft == 1                  \* draft_content is ""
FirstDraft == 2                  \* what the response graph wrote
RegenDraft(id) == id + 1         \* what the regen before interrupt id wrote

(* department_section.evaluation_results, as far as the flow reads it *)

Decision == {"none", "approved", "rejected"}

Arbitration ==
  [present : BOOLEAN,            \* the "arbitration" key is there
   required : BOOLEAN,           \* ceo_approval_required
   decision : Decision,          \* ceo_decision
   interrupt_id : Nat]           \* ceo_interrupt_id, 0 for none

NoArbitration ==
  [present |-> FALSE, required |-> FALSE, decision |-> "none", interrupt_id |-> 0]

Eval ==
  [review : BOOLEAN,             \* needs_human_review
   forced : BOOLEAN,             \* forced_request_changes
   arbitration : Arbitration,
   interrupt_id : Nat,           \* 0 when missing or None
   graph_outcome : {"none", "approved", "exhausted"}]

EmptyEval ==
  [review |-> FALSE, forced |-> FALSE, arbitration |-> NoArbitration,
   interrupt_id |-> 0, graph_outcome |-> "none"]

Row ==
  [draft : Nat,
   approval : {"pending", "approved", "rejected"},
   eval : Eval]

\* save_department_sections inserts rows with no draft and no evaluation.
NewRow == [draft |-> NullDraft, approval |-> "pending", eval |-> EmptyEval]

(* Checkpoints.  `issued` counts the interrupt ids the thread ever raised: *)
(* LangGraph derives an id from the checkpoint that raises it, so no two   *)
(* pauses of a thread share one.                                           *)

Thread ==
  [next : {"new", "approve", "regen", "end"},
   id : Nat, issued : Nat, draft : Nat,
   rework : 0 .. ITERATION_LIMIT,
   outcome : {"none", "approved", "exhausted"}]

NewThread ==
  [next |-> "new", id |-> 0, issued |-> 0, draft |-> NullDraft,
   rework |-> 0, outcome |-> "none"]

CeoThread ==
  [next : {"new", "pause", "end"}, id : Nat, issued : Nat, decision : Decision]

NewCeoThread == [next |-> "new", id |-> 0, issued |-> 0, decision |-> "none"]

(* final_document: `version` counts the upserts (generated_at moves each   *)
(* time), `stamped` are the sections printed as "approved by ... at ...".  *)

NoDoc ==
  [version |-> 0, drafts |-> [d \in Departments |-> NullDraft],
   stamped |-> {}, ceo_line |-> FALSE]

Published == doc.version > 0

-----------------------------------------------------------------------------
(* Repository *)

\* update_ticket_status: read, validate, write.  It raises when not allowed.
CanUpdateStatus(target) == validate_transition(status, target)

\* update_department_section: replaces the draft and the whole evaluation.
Replaced(row, draft, eval) == [row EXCEPT !.draft = draft, !.eval = eval]

\* _arbitration_from_sections: the arbitration of the first row that has one.
\* The query has no ORDER BY, so any such row can be the first.
ArbitrationOf(sections) ==
  LET having == {d \in DOMAIN sections : sections[d].eval.arbitration.present}
  IN  IF having = {} THEN {NoArbitration}
      ELSE {sections[d].eval.arbitration : d \in having}

\* dept_is_terminal: approved, or rejected after the rework budget ran out.
dept_is_terminal(row) ==
  \/ row.approval = "approved"
  \/ row.approval = "rejected" /\ row.eval.graph_outcome = "exhausted"

\* Mutant: one section that came to an end is enough.
any_active_dept_terminal(sections, depts) ==
  \E d \in depts : d \in DOMAIN sections /\ dept_is_terminal(sections[d])

all_active_depts_terminal(sections, depts) ==
  \A d \in depts : d \in DOMAIN sections /\ dept_is_terminal(sections[d])

-----------------------------------------------------------------------------
(* Checkpointer *)

\* graph.invoke with a fresh input: the graph starts over at approve and
\* pauses there.  A thread that exists already loses its rework count.
StartedThread(thread, draft) ==
  [next |-> "approve", id |-> thread.issued + 1, issued |-> thread.issued + 1,
   draft |-> draft, rework |-> 0, outcome |-> "none"]

StartedCeoThread ==
  [next |-> "pause", id |-> ceo.issued + 1, issued |-> ceo.issued + 1,
   decision |-> "none"]

-----------------------------------------------------------------------------

StoreInit ==
  /\ status = Absent
  /\ needed = {}
  /\ rows = [d \in {} |-> NewRow]
  /\ threads = [d \in Departments |-> NewThread]
  /\ ceo = NewCeoThread
  /\ doc = NoDoc

StoreTypeOK ==
  /\ status \in RFP_STATUSES \cup {Absent}
  /\ needed \in SUBSET Departments
  /\ DOMAIN rows \in SUBSET Departments
  /\ rows \in [DOMAIN rows -> Row]
  /\ threads \in [Departments -> Thread]
  /\ ceo \in CeoThread
  /\ doc \in [version : Nat, drafts : [Departments -> Nat],
              stamped : SUBSET Departments, ceo_line : BOOLEAN]
=============================================================================
