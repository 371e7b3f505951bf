----------------------------- MODULE RfpWorker -----------------------------
(***************************************************************************)
(* The asynchronous half of the RFP service: the routes that create a      *)
(* ticket and enqueue its three Celery tasks, the broker queue, and the    *)
(* one rfp-worker (--pool=solo) that runs them.  One action per database   *)
(* or checkpoint commit, so that a crash can fall between any two.         *)
(*                                                                         *)
(* The worker acks late: a message leaves the broker when its task has     *)
(* returned, and a crash before that puts it back (WorkerCrash).           *)
(***************************************************************************)
EXTENDS RfpStore

CONSTANTS
  MaxQueue,     \* bound: undelivered messages of one task
  MaxCrashes,   \* bound: crashes of the worker
  MaxFaults     \* bound: failed calls to the broker or to the stores

ASSUME WorkerAssumption ==
  MaxQueue \in Nat /\ MaxCrashes \in Nat /\ MaxFaults \in Nat

VARIABLES
  queue,    \* undelivered messages of each task
  worker,   \* the worker process: the task it runs and its local variables
  crashes,  \* crashes so far
  faults    \* failed calls so far

workerVars == <<queue, worker, crashes, faults>>
vars == <<storeVars, workerVars>>

Tasks == {"process_rfp", "process_rfp_response", "process_rfp_approval"}

\* Where each task begins, and the other points between two commits.
Entry ==
  [t \in Tasks |->
     CASE t = "process_rfp"          -> "run_intake"
       [] t = "process_rfp_response" -> "to_drafting"
       [] OTHER                      -> "check_status"]

Pc ==
  {"idle", "ack",
   "run_intake", "save_metadata", "save_sections", "to_intake_complete",
   "to_drafting", "run_response", "save_drafts", "to_under_evaluation",
   "recover",
   "check_status", "arbitrate", "stamp", "start_threads", "save_interrupt",
   "flag"}

Worker ==
  [task : Tasks, pc : Pc,
   deps : SUBSET Departments,    \* departments_needed, as the task read it
   todo : SUBSET Departments,    \* departments its current loop has left
   cur : Departments,            \* the department of the loop's iteration
   required : BOOLEAN,           \* arbitration: ceo_approval_required
   forced : SUBSET Departments]  \* arbitration: forced_departments

IdleWorker ==
  [task |-> "process_rfp", pc |-> "idle", deps |-> {}, todo |-> {},
   cur |-> Marketing, required |-> FALSE, forced |-> {}]

Goto(pc) == worker' = [worker EXCEPT !.pc = pc]

\* Enter the loop at pc over the departments the task knows.
Loop(pc) == worker' = [worker EXCEPT !.pc = pc, !.todo = worker.deps]

-----------------------------------------------------------------------------
(* Routes *)

Enqueue(task) ==
  /\ queue[task] < MaxQueue
  /\ queue' = [queue EXCEPT ![task] = @ + 1]

\* post_ticket: the row is committed, then the task is enqueued.
post_ticket ==
  /\ status = Absent
  /\ status' = "analyzing"
  /\ Enqueue("process_rfp")
  /\ UNCHANGED <<needed, rows, threads, ceo, doc, worker, crashes, faults>>

\* post_ticket whose enqueue fails, the row being there already.  Uploading
\* the same file again finds that row and does not enqueue: it changes nothing.
post_ticket_enqueue_fails ==
  /\ status = Absent
  /\ faults < MaxFaults
  /\ status' = "analyzing"
  /\ faults' = faults + 1
  /\ UNCHANGED <<needed, rows, threads, ceo, doc, queue, worker, crashes>>

\* post_ticket_response leaves the status alone: it can be repeated until the
\* worker picks the message up.
post_ticket_response ==
  /\ status = "intake_complete"
  /\ Enqueue("process_rfp_response")
  /\ UNCHANGED <<storeVars, worker, crashes, faults>>

post_ticket_approval ==
  /\ status = "under_evaluation"
  /\ Enqueue("process_rfp_approval")
  /\ UNCHANGED <<storeVars, worker, crashes, faults>>

-----------------------------------------------------------------------------
(* The worker process *)

Deliver(task) ==
  /\ worker.pc = "idle"
  /\ queue[task] > 0
  /\ queue' = [queue EXCEPT ![task] = @ - 1]
  /\ worker' = [IdleWorker EXCEPT !.task = task, !.pc = Entry[task]]
  /\ UNCHANGED <<storeVars, crashes, faults>>

\* The task has returned or raised; either way the message is acknowledged.
Ack ==
  /\ worker.pc = "ack"
  /\ worker' = IdleWorker
  /\ UNCHANGED <<storeVars, queue, crashes, faults>>

\* A statement fails in process_rfp or process_rfp_response.  In the first the
\* exception leaves the task.  In the second the session refuses every later
\* statement until it is rolled back, which the crash path does not do: its
\* own writes fail too, and it swallows that.
StoreFails ==
  /\ worker.pc \in {"run_intake", "save_metadata", "save_sections",
                    "to_intake_complete", "to_drafting", "run_response",
                    "save_drafts", "to_under_evaluation", "recover"}
  /\ faults < MaxFaults
  /\ faults' = faults + 1
  /\ Goto("ack")
  /\ UNCHANGED <<storeVars, queue, crashes>>

\* The process dies before the ack: what was committed stays, the locals are
\* gone, and the broker delivers the message again.
WorkerCrash ==
  /\ worker.pc # "idle"
  /\ crashes < MaxCrashes
  /\ crashes' = crashes + 1
  /\ queue' = [queue EXCEPT ![worker.task] = @ + 1]
  /\ worker' = IdleWorker
  /\ UNCHANGED <<storeVars, faults>>

-----------------------------------------------------------------------------
(* process_rfp *)

\* run_intake crashes or finds the document invalid: the ticket is discarded.
\* A refused transition raises out of the task.
IntakeDiscards ==
  /\ worker.pc = "run_intake"
  /\ status' = IF CanUpdateStatus("discarded") THEN "discarded" ELSE status
  /\ Goto("ack")
  /\ UNCHANGED <<needed, rows, threads, ceo, doc, queue, crashes, faults>>

\* run_intake accepts: the extraction picks the departments, marketing always
\* among them.  Another run on the same file may pick others.
IntakeAccepts ==
  /\ worker.pc = "run_intake"
  /\ \E depts \in SUBSET Departments :
       /\ Marketing \in depts
       /\ worker' = [worker EXCEPT !.pc = "save_metadata", !.deps = depts]
  /\ UNCHANGED <<storeVars, queue, crashes, faults>>

\* save_rfp_metadata is an upsert.
SaveMetadata ==
  /\ worker.pc = "save_metadata"
  /\ needed' = worker.deps
  /\ Goto("save_sections")
  /\ UNCHANGED <<status, rows, threads, ceo, doc, queue, crashes, faults>>

\* save_department_sections inserts all rows in one commit.
SaveSections ==
  /\ worker.pc = "save_sections"
  /\ worker.deps \cap DOMAIN rows = {}
  /\ rows' = [d \in DOMAIN rows \cup worker.deps |->
                IF d \in DOMAIN rows THEN rows[d] ELSE NewRow]
  /\ Goto("to_intake_complete")
  /\ UNCHANGED <<status, needed, threads, ceo, doc, queue, crashes, faults>>

\* A row exists already: the unique constraint raises out of the task.
SaveSectionsConflict ==
  /\ worker.pc = "save_sections"
  /\ worker.deps \cap DOMAIN rows # {}
  /\ Goto("ack")
  /\ UNCHANGED <<storeVars, queue, crashes, faults>>

\* Mutant: the status write is missing.
IntakeForgetsStatus ==
  /\ worker.pc = "to_intake_complete"
  /\ Goto("ack")
  /\ UNCHANGED <<storeVars, queue, crashes, faults>>

IntakeCompletes ==
  /\ worker.pc = "to_intake_complete"
  /\ status' = IF CanUpdateStatus("intake_complete")
               THEN "intake_complete" ELSE status
  /\ Goto("ack")
  /\ UNCHANGED <<needed, rows, threads, ceo, doc, queue, crashes, faults>>

-----------------------------------------------------------------------------
(* process_rfp_response *)

StartDrafting ==
  /\ worker.pc = "to_drafting"
  /\ CanUpdateStatus("drafting")
  /\ status' = "drafting"
  /\ Goto("run_response")
  /\ UNCHANGED <<needed, rows, threads, ceo, doc, queue, crashes, faults>>

\* Mutant: departments_needed is read before the transition is checked.
DraftingRefusedLate ==
  /\ worker.pc = "to_drafting"
  /\ ~CanUpdateStatus("drafting")
  /\ worker' = [worker EXCEPT !.pc = "recover", !.deps = needed, !.todo = needed]
  /\ UNCHANGED <<storeVars, queue, crashes, faults>>

\* The transition is refused, before departments_needed was read: the crash
\* path has no department to flag.
DraftingRefused ==
  /\ worker.pc = "to_drafting"
  /\ ~CanUpdateStatus("drafting")
  /\ Loop("recover")
  /\ UNCHANGED <<storeVars, queue, crashes, faults>>

\* Metadata is read and the response graph drafts every needed section.
RunResponse ==
  /\ worker.pc = "run_response"
  /\ worker' = [worker EXCEPT !.pc = IF needed = {} THEN "recover" ELSE "save_drafts",
                              !.deps = needed, !.todo = needed]
  /\ UNCHANGED <<storeVars, queue, crashes, faults>>

\* update_department_section with what the generator and the evaluators made;
\* review is set when the generate/evaluate loop ran out of iterations.
SaveDraft(d) ==
  /\ worker.pc = "save_drafts"
  /\ d \in worker.todo
  /\ d \in DOMAIN rows
  /\ \E review \in BOOLEAN :
       rows' = [rows EXCEPT ![d] =
                  Replaced(@, FirstDraft, [EmptyEval EXCEPT !.review = review])]
  /\ worker' = [worker EXCEPT !.todo = @ \ {d}]
  /\ UNCHANGED <<status, needed, threads, ceo, doc, queue, crashes, faults>>

\* Mutant: the loop misses its last department.
DraftsSavedButOne ==
  /\ worker.pc = "save_drafts"
  /\ Cardinality(worker.todo) <= 1
  /\ Goto("to_under_evaluation")
  /\ UNCHANGED <<storeVars, queue, crashes, faults>>

DraftsSaved ==
  /\ worker.pc = "save_drafts"
  /\ worker.todo = {}
  /\ Goto("to_under_evaluation")
  /\ UNCHANGED <<storeVars, queue, crashes, faults>>

\* A needed department has no row to update: the exception enters the crash
\* path.
SectionMissing ==
  /\ worker.pc = "save_drafts"
  /\ \E d \in worker.todo : d \notin DOMAIN rows
  /\ Loop("recover")
  /\ UNCHANGED <<storeVars, queue, crashes, faults>>

\* The response graph raises: the departments are known by then.
ResponseGraphFails ==
  /\ worker.pc = "run_response"
  /\ faults < MaxFaults
  /\ faults' = faults + 1
  /\ worker' = [worker EXCEPT !.pc = "recover", !.deps = needed, !.todo = needed]
  /\ UNCHANGED <<storeVars, queue, crashes>>

ResponseCompletes ==
  /\ worker.pc = "to_under_evaluation"
  /\ CanUpdateStatus("under_evaluation")
  /\ status' = "under_evaluation"
  /\ Goto("ack")
  /\ UNCHANGED <<needed, rows, threads, ceo, doc, queue, crashes, faults>>

\* The crash path, one department at a time; a missing row is skipped.
RecoverSection(d) ==
  /\ worker.pc = "recover"
  /\ d \in worker.todo
  /\ rows' = IF d \in DOMAIN rows
             THEN [rows EXCEPT ![d] =
                     Replaced(@, BlankDraft, [EmptyEval EXCEPT !.review = TRUE])]
             ELSE rows
  /\ worker' = [worker EXCEPT !.todo = @ \ {d}]
  /\ UNCHANGED <<status, needed, threads, ceo, doc, queue, crashes, faults>>

\* Mutant: the status is written without update_ticket_status.
RecoverStatusUnchecked ==
  /\ worker.pc = "recover"
  /\ worker.todo = {}
  /\ status' = "under_evaluation"
  /\ Goto("ack")
  /\ UNCHANGED <<needed, rows, threads, ceo, doc, queue, crashes, faults>>

\* Mutant: the crash path flags the sections and returns.
RecoverNoStatus ==
  /\ worker.pc = "recover"
  /\ worker.todo = {}
  /\ Goto("ack")
  /\ UNCHANGED <<storeVars, queue, crashes, faults>>

\* "then always advance to under_evaluation", errors swallowed.
RecoverStatus ==
  /\ worker.pc = "recover"
  /\ worker.todo = {}
  /\ status' = IF CanUpdateStatus("under_evaluation")
               THEN "under_evaluation" ELSE status
  /\ Goto("ack")
  /\ UNCHANGED <<needed, rows, threads, ceo, doc, queue, crashes, faults>>

-----------------------------------------------------------------------------
(* process_rfp_approval *)

\* The status check and the reads.  Without the status or the metadata the
\* task raises before it knows a department.
CheckApprovalStatus ==
  /\ worker.pc = "check_status"
  /\ worker' = IF status = "under_evaluation" /\ needed # {}
               THEN [worker EXCEPT !.pc = "arbitrate", !.deps = needed]
               ELSE [worker EXCEPT !.pc = "flag"]
  /\ UNCHANGED <<storeVars, queue, crashes, faults>>

\* extract_all_sections and run_arbitration: the numbers in the drafts decide
\* whether the CEO must approve and which sections must be reworked.
Arbitrate ==
  /\ worker.pc = "arbitrate"
  /\ worker.deps \subseteq DOMAIN rows
  /\ \E required \in BOOLEAN, forced \in SUBSET worker.deps :
       worker' = [worker EXCEPT !.pc = "stamp", !.todo = worker.deps,
                                !.required = required, !.forced = forced]
  /\ UNCHANGED <<storeVars, queue, crashes, faults>>

\* A needed department has no row: the merge of its numbers raises.
NumbersUnmergeable ==
  /\ worker.pc = "arbitrate"
  /\ ~(worker.deps \subseteq DOMAIN rows)
  /\ Goto("flag")
  /\ UNCHANGED <<storeVars, queue, crashes, faults>>

\* merge_evaluation_results of the arbitration stamps.
StampSection(d) ==
  /\ worker.pc = "stamp"
  /\ d \in worker.todo
  /\ rows' = [rows EXCEPT
       ![d].eval.arbitration = [NoArbitration EXCEPT !.present = TRUE,
                                                     !.required = worker.required],
       ![d].eval.forced = @ \/ d \in worker.forced]
  /\ worker' = [worker EXCEPT !.todo = @ \ {d}]
  /\ UNCHANGED <<status, needed, threads, ceo, doc, queue, crashes, faults>>

FlipToWaiting ==
  /\ worker.pc = "stamp"
  /\ worker.todo = {}
  /\ CanUpdateStatus("waiting_for_approval")
  /\ status' = "waiting_for_approval"
  /\ Loop("start_threads")
  /\ UNCHANGED <<needed, rows, threads, ceo, doc, queue, crashes, faults>>

\* Mutant: the section handed to the graph has no draft.
StartThreadEmpty(d) ==
  /\ worker.pc = "start_threads"
  /\ d \in worker.todo
  /\ threads' = [threads EXCEPT ![d] = StartedThread(@, NullDraft)]
  /\ worker' = [worker EXCEPT !.pc = "save_interrupt", !.cur = d]
  /\ UNCHANGED <<status, needed, rows, ceo, doc, queue, crashes, faults>>

\* graph.invoke of the initial state: the checkpoint pauses in approve.
StartThread(d) ==
  /\ worker.pc = "start_threads"
  /\ d \in worker.todo
  /\ threads' = [threads EXCEPT ![d] = StartedThread(@, rows[d].draft)]
  /\ worker' = [worker EXCEPT !.pc = "save_interrupt", !.cur = d]
  /\ UNCHANGED <<status, needed, rows, ceo, doc, queue, crashes, faults>>

\* Mutant: the interrupt id is not merged into the row.
ForgetInterrupt ==
  /\ worker.pc = "save_interrupt"
  /\ worker' = [worker EXCEPT !.pc = "start_threads", !.todo = @ \ {worker.cur}]
  /\ UNCHANGED <<storeVars, queue, crashes, faults>>

SaveInterrupt ==
  /\ worker.pc = "save_interrupt"
  /\ rows' = [rows EXCEPT ![worker.cur].eval.interrupt_id = threads[worker.cur].id]
  /\ worker' = [worker EXCEPT !.pc = "start_threads", !.todo = @ \ {worker.cur}]
  /\ UNCHANGED <<status, needed, threads, ceo, doc, queue, crashes, faults>>

ApprovalStarted ==
  /\ worker.pc = "start_threads"
  /\ worker.todo = {}
  /\ Goto("ack")
  /\ UNCHANGED <<storeVars, queue, crashes, faults>>

\* A store or the graph fails somewhere in the try block.
ApprovalFails ==
  /\ worker.pc \in {"arbitrate", "stamp", "start_threads", "save_interrupt"}
  /\ faults < MaxFaults
  /\ faults' = faults + 1
  /\ Goto("flag")
  /\ UNCHANGED <<storeVars, queue, crashes>>

\* Best-effort flags on the departments the task knows; it returns without
\* touching the status.  Whichever of the writes fail are skipped.
FlagForReview ==
  /\ worker.pc = "flag"
  /\ \E flagged \in SUBSET (worker.deps \cap DOMAIN rows) :
       rows' = [d \in DOMAIN rows |->
                  IF d \in flagged THEN [rows[d] EXCEPT !.eval.review = TRUE]
                                   ELSE rows[d]]
  /\ Goto("ack")
  /\ UNCHANGED <<status, needed, threads, ceo, doc, queue, crashes, faults>>

-----------------------------------------------------------------------------

Init ==
  /\ StoreInit
  /\ queue = [t \in Tasks |-> 0]
  /\ worker = IdleWorker
  /\ crashes = 0
  /\ faults = 0

Routes ==
  \/ post_ticket
  \/ post_ticket_enqueue_fails
  \/ post_ticket_response
  \/ post_ticket_approval

IntakeStep ==
  \/ IntakeDiscards
  \/ IntakeAccepts
  \/ SaveMetadata
  \/ SaveSections
  \/ SaveSectionsConflict
  \/ IntakeCompletes

ResponseStep ==
  \/ StartDrafting
  \/ DraftingRefused
  \/ RunResponse
  \/ \E d \in Departments : SaveDraft(d) \/ RecoverSection(d)
  \/ SectionMissing
  \/ DraftsSaved
  \/ ResponseCompletes
  \/ RecoverStatus

ApprovalStep ==
  \/ CheckApprovalStatus
  \/ Arbitrate
  \/ NumbersUnmergeable
  \/ \E d \in Departments : StampSection(d) \/ StartThread(d)
  \/ FlipToWaiting
  \/ SaveInterrupt
  \/ ApprovalStarted
  \/ FlagForReview

\* What the worker does when nothing fails.
WorkerStep ==
  \/ \E t \in Tasks : Deliver(t)
  \/ Ack
  \/ IntakeStep
  \/ ResponseStep
  \/ ApprovalStep

WorkerFailure == ResponseGraphFails \/ ApprovalFails \/ StoreFails \/ WorkerCrash

Next == Routes \/ WorkerStep \/ WorkerFailure

Spec == Init /\ [][Next]_vars

\* The worker process is restarted when it dies and takes messages as long as
\* there are any; users and failures owe nothing.
Fairness == WF_vars(WorkerStep)

FairSpec == Spec /\ Fairness

-----------------------------------------------------------------------------
(* Properties *)

TypeOK ==
  /\ StoreTypeOK
  /\ queue \in [Tasks -> Nat]
  /\ worker \in Worker
  /\ crashes \in 0 .. MaxCrashes
  /\ faults \in 0 .. MaxFaults

\* The tasks and routes implement the lifecycle of one ticket.  In particular
\* no repeated, redelivered or failing task moves the status off the table.
Lifecycle == INSTANCE TicketLifecycle WITH published <- Published
ImplementsLifecycle == Lifecycle!Spec

\* A ticket that is offered for approval has, for every department its
\* metadata names, a section that was drafted or is flagged for human review
\* (process_rfp_response: drafts, or "needs_human_review on known departments"),
\* unless the worker process died: the redelivered task is refused before it
\* reads the departments, so its crash path flags none and moves the ticket on.
DraftedOrFlagged ==
  (status \in {"under_evaluation", "waiting_for_approval"} /\ crashes = 0) =>
    \A d \in needed : /\ d \in DOMAIN rows
                      /\ rows[d].draft # NullDraft \/ rows[d].eval.review

\* Once the approval has started no worker step changes what the approvers
\* decide on: the drafts, the arbitration, and the interrupts they resume.  A
\* response or approval task posted twice, or delivered again, is harmless.
ApprovalUntouched ==
  status \in Approving =>
    \A d \in DOMAIN rows :
      /\ rows'[d].draft = rows[d].draft
      /\ rows'[d].eval.arbitration = rows[d].eval.arbitration
      /\ \/ rows[d].eval.interrupt_id = 0
         \/ rows'[d].eval.interrupt_id = rows[d].eval.interrupt_id

ApprovalFrozen == [][ApprovalUntouched]_vars

\* The interrupt id stored in Postgres is the one the SQLite checkpoint waits
\* for, and the draft in the row is the draft that checkpoint would approve:
\* the two stores agree although no transaction covers both.
InterruptsAreLive ==
  \A d \in DOMAIN rows : rows[d].eval.interrupt_id # 0 =>
    /\ threads[d].next = "approve"
    /\ threads[d].id = rows[d].eval.interrupt_id
    /\ threads[d].draft = rows[d].draft
    /\ status \in Approving

\* An accepted upload leaves "analyzing" (process_rfp: "never leave ticket at
\* analyzing"), unless the worker process died: a crash after the insert of the
\* sections leaves a ticket that no redelivery moves on.
AnalyzingEnds ==
  status = "analyzing" ~> (status \in {"discarded", "intake_complete"} \/ crashes > 0)

\* A ticket never stays at "drafting" (process_rfp_response, crash path).
DraftingEnds == status = "drafting" ~> status = "under_evaluation"

\* A ticket that waits for approval gets an interrupt for every department, so
\* that every department can decide (process_rfp_approval: "never leave stuck"),
\* unless the worker process died: the redelivered task refuses a flipped ticket.
ApprovalsOpen ==
  status = "waiting_for_approval" ~>
    \/ \A d \in needed \cap DOMAIN rows : rows[d].eval.interrupt_id # 0
    \/ crashes > 0
=============================================================================
