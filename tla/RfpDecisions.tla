---------------------------- MODULE RfpDecisions ----------------------------
(***************************************************************************)
(* The synchronous half of the RFP service: the requests by which the      *)
(* departments and the CEO decide.  Each request runs in a thread of the   *)
(* API process, so that several run at once, on stores that have no common *)
(* transaction; it reads rows, resumes a LangGraph thread and commits one  *)
(* row at a time.  One action per commit or checkpoint access.             *)
(*                                                                         *)
(* What a request has read stays as it is until its next commit: the       *)
(* session keeps loaded rows in its identity map, a later SELECT does not  *)
(* refresh them, and a commit expires them.  req[r].seen is that snapshot. *)
(* The reads between two commits of a request are one step: the status and *)
(* the rows when it is accepted, the refresh of the row a commit wrote and *)
(* the SELECT that comes after it.                                         *)
(***************************************************************************)
EXTENDS RfpStore

CONSTANTS
  Requests,     \* requests that can be under way at the same time
  MaxDecisions, \* bound: decisions that are accepted
  MaxDeaths     \* bound: requests that die half-way

ASSUME DecisionsAssumption == MaxDecisions \in Nat /\ MaxDeaths \in Nat

VARIABLES
  req,        \* the requests under way and their local variables
  decisions,  \* decisions accepted so far
  deaths      \* requests that died so far

bounds == <<decisions, deaths>>
vars == <<storeVars, req, bounds>>

ReqPc ==
  {"idle",
   "load_thread", "resume", "regen", "save_regen",
   "save_approval", "save_outcome", "finalize",
   "start_ceo", "save_ceo_interrupt",
   "load_ceo", "resume_ceo", "save_ceo_decision", "synthesize",
   "save_document", "complete"}

Actions == {"approve", "change"}   \* "change": reject or request_changes

NoDept == "none"

\* The rows as a session has loaded them; a commit leaves none loaded.
NotLoaded == [row |-> "not loaded"]
Snapshot == [Departments -> Row \cup {NotLoaded}]
Expired == [d \in Departments |-> NotLoaded]
Loaded(depts) ==
  [d \in Departments |-> IF d \in depts \cap DOMAIN rows THEN rows[d] ELSE NotLoaded]

Request ==
  [pc : ReqPc, dept : Departments \cup {NoDept}, action : Actions,
   interrupt_id : Nat,      \* the id the request resumes, or has to store
   thread : Thread,         \* checkpoint of the department as the graph loaded it
   ceo : CeoThread,         \* checkpoint of the CEO thread, likewise
   decision : Decision,     \* ceo_decision of the result
   ceo_line : BOOLEAN,      \* the document carries the CEO line
   todo : SUBSET Departments,
   seen : Snapshot]         \* the section rows as the session has them

IdleRequest ==
  [pc |-> "idle", dept |-> NoDept, action |-> "approve", interrupt_id |-> 0,
   thread |-> NewThread, ceo |-> NewCeoThread, decision |-> "none",
   ceo_line |-> FALSE, todo |-> {}, seen |-> Expired]

Finish(r) == req' = [req EXCEPT ![r] = IdleRequest]

At(r, pc) == req[r].pc = pc

\* A commit writes the columns whose value is not the one that was loaded.
Column(current, loaded, value) == IF value = loaded THEN current ELSE value

\* The first read after a commit loads the rows again, at a moment of its own.
ReadRows(r) ==
  /\ req[r].pc \in {"save_outcome", "save_ceo_interrupt", "save_ceo_decision"}
  /\ req[r].seen = Expired
  /\ req' = [req EXCEPT ![r].seen = Loaded(Departments)]
  /\ UNCHANGED <<storeVars, bounds>>

\* Mutant: the status of the ticket is not checked.
AcceptAlways(r) ==
  /\ At(r, "idle")
  /\ decisions < MaxDecisions
  /\ decisions' = decisions + 1

\* A decision arrives while the ticket waits for approval.
Accept(r) ==
  /\ At(r, "idle")
  /\ status = "waiting_for_approval"
  /\ decisions < MaxDecisions
  /\ decisions' = decisions + 1

-----------------------------------------------------------------------------
(* apply_section_decision *)

\* The checks: the department is on the ticket and its row has an interrupt.  Everything else is answered 404 or 409.
DecideSection(r, d, action) ==
  /\ Accept(r)
  /\ d \in needed
  /\ d \in DOMAIN rows
  /\ rows[d].eval.interrupt_id # 0
  /\ req' = [req EXCEPT ![r] =
               [IdleRequest EXCEPT !.pc = "load_thread", !.dept = d,
                                   !.action = action,
                                   !.seen = Loaded({d}),
                                   !.interrupt_id = rows[d].eval.interrupt_id]]
  /\ UNCHANGED <<storeVars, deaths>>

\* graph.invoke(Command(resume)) begins by loading the latest checkpoint.
LoadThread(r) ==
  /\ At(r, "load_thread")
  /\ req' = [req EXCEPT ![r].pc = "resume", ![r].thread = threads[req[r].dept]]
  /\ UNCHANGED <<storeVars, bounds>>

\* A checkpoint written from the loaded one becomes the latest of the thread,
\* whatever was written in between.
WriteThread(r, thread) ==
  threads' = [threads EXCEPT ![req[r].dept] =
                [thread EXCEPT !.issued = threads[req[r].dept].issued]]

\* The interrupt is the pending one: approve_node returns with the action.
Resumes(r) ==
  /\ At(r, "resume")
  /\ req[r].thread.next = "approve"
  /\ req[r].thread.id = req[r].interrupt_id

\* outcome = "approved", or "exhausted" when the rework budget is used up.
ResumeEnds(r) ==
  /\ Resumes(r)
  /\ \/ req[r].action = "approve"
     \/ req[r].thread.rework >= ITERATION_LIMIT
  /\ LET outcome == IF req[r].action = "approve" THEN "approved" ELSE "exhausted"
         ended   == [req[r].thread EXCEPT !.next = "end", !.outcome = outcome]
     IN  /\ WriteThread(r, ended)
         /\ req' = [req EXCEPT ![r].pc = "save_approval", ![r].thread = ended]
  /\ UNCHANGED <<status, needed, rows, ceo, doc, bounds>>

\* Mutant: one rework too many.
ResumeReworksOnceMore(r) ==
  /\ Resumes(r)
  /\ req[r].action = "change"
  /\ req[r].thread.rework <= ITERATION_LIMIT
  /\ WriteThread(r, [req[r].thread EXCEPT !.next = "regen"])
  /\ req' = [req EXCEPT ![r].pc = "regen"]
  /\ UNCHANGED <<status, needed, rows, ceo, doc, bounds>>

\* needs_regen: the checkpoint after approve_node has regen next.
ResumeReworks(r) ==
  /\ Resumes(r)
  /\ req[r].action = "change"
  /\ req[r].thread.rework < ITERATION_LIMIT
  /\ WriteThread(r, [req[r].thread EXCEPT !.next = "regen"])
  /\ req' = [req EXCEPT ![r].pc = "regen"]
  /\ UNCHANGED <<status, needed, rows, ceo, doc, bounds>>

\* The thread was left between approve and regen: the regen runs now, and the
\* action of this request is lost on it.
ResumeContinues(r) ==
  /\ At(r, "resume")
  /\ req[r].thread.next = "regen"
  /\ req' = [req EXCEPT ![r].pc = "regen"]
  /\ UNCHANGED <<storeVars, bounds>>

\* The thread is paused at another interrupt: the node pauses again, and the
\* driver takes that for a regenerated section.
ResumeMismatches(r) ==
  /\ At(r, "resume")
  /\ req[r].thread.next = "approve"
  /\ req[r].thread.id # req[r].interrupt_id
  /\ req' = [req EXCEPT ![r].pc = "save_regen",
                        ![r].interrupt_id = req[r].thread.id]
  /\ UNCHANGED <<storeVars, bounds>>

\* The thread has ended: its outcome is returned again.
ResumeReturns(r) ==
  /\ At(r, "resume")
  /\ req[r].thread.next = "end"
  /\ req' = [req EXCEPT ![r].pc = "save_approval"]
  /\ UNCHANGED <<storeVars, bounds>>

\* regen_node, then approve pauses at a new interrupt.  When the generator
\* fails, or returns nothing, the draft stays what it was.
Regen(r) ==
  /\ At(r, "regen")
  /\ LET id == threads[req[r].dept].issued + 1
     IN  \E draft \in {req[r].thread.draft, RegenDraft(id)} :
           LET paused == [next |-> "approve", id |-> id, issued |-> id,
                          draft |-> draft, rework |-> req[r].thread.rework + 1,
                          outcome |-> "none"]
           IN  /\ threads' = [threads EXCEPT ![req[r].dept] = paused]
               /\ req' = [req EXCEPT ![r].pc = "save_regen", ![r].thread = paused,
                                     ![r].interrupt_id = id]
  /\ UNCHANGED <<status, needed, rows, ceo, doc, bounds>>

\* Mutant: only the new interrupt is stored, not the draft it is for.
SaveRegenInterrupt(r) ==
  /\ At(r, "save_regen")
  /\ rows' = [rows EXCEPT ![req[r].dept].eval.interrupt_id = req[r].interrupt_id]
  /\ Finish(r)
  /\ UNCHANGED <<status, needed, threads, ceo, doc, bounds>>

\* _persist_regen_section: one commit of the draft and of the evaluation that
\* was read before the regen, with the new interrupt.
SaveRegen(r) ==
  /\ At(r, "save_regen")
  /\ LET d == req[r].dept
     IN  rows' = [rows EXCEPT ![d] =
                    Replaced(@, Column(@.draft, req[r].seen[d].draft,
                                       req[r].thread.draft),
                             [req[r].seen[d].eval EXCEPT
                                !.interrupt_id = req[r].interrupt_id])]
  /\ Finish(r)
  /\ UNCHANGED <<status, needed, threads, ceo, doc, bounds>>

\* Mutant: the interrupt is cleared with the approval, before graph_outcome.
SaveApprovalAndClear(r) ==
  /\ At(r, "save_approval")
  /\ LET d == req[r].dept
     IN  rows' = [rows EXCEPT
                    ![d].approval = IF req[r].thread.outcome = "approved"
                                    THEN "approved" ELSE "rejected",
                    ![d].eval.interrupt_id = 0]
  /\ req' = [req EXCEPT ![r].pc = "save_outcome", ![r].seen = Expired]
  /\ UNCHANGED <<status, needed, threads, ceo, doc, bounds>>

\* update_department_section_approval.
SaveApproval(r) ==
  /\ At(r, "save_approval")
  /\ LET d == req[r].dept
     IN  rows' = [rows EXCEPT ![d].approval =
                    Column(@, req[r].seen[d].approval,
                           IF req[r].thread.outcome = "approved"
                           THEN "approved" ELSE "rejected")]
  /\ req' = [req EXCEPT ![r].pc = "save_outcome", ![r].seen = Expired]
  /\ UNCHANGED <<status, needed, threads, ceo, doc, bounds>>

\* Mutant: a section that was exhausted does not try to finalize the ticket.
SaveOutcomeApprovedOnly(r) ==
  /\ At(r, "save_outcome")
  /\ req[r].seen # Expired
  /\ LET d == req[r].dept
     IN  rows' = [rows EXCEPT ![d].eval =
                    [req[r].seen[d].eval EXCEPT
                       !.interrupt_id = 0,
                       !.graph_outcome = req[r].thread.outcome]]
  /\ req' = [req EXCEPT ![r] =
               IF req[r].thread.outcome = "approved"
               THEN [IdleRequest EXCEPT !.pc = "finalize"] ELSE IdleRequest]
  /\ UNCHANGED <<status, needed, threads, ceo, doc, bounds>>

\* merge_evaluation_results of interrupt_id = None and graph_outcome.
SaveOutcome(r) ==
  /\ At(r, "save_outcome")
  /\ req[r].seen # Expired
  /\ LET d == req[r].dept
     IN  rows' = [rows EXCEPT ![d].eval =
                    [req[r].seen[d].eval EXCEPT
                       !.interrupt_id = 0,
                       !.graph_outcome = req[r].thread.outcome]]
  /\ req' = [req EXCEPT ![r] = [IdleRequest EXCEPT !.pc = "finalize"]]
  /\ UNCHANGED <<status, needed, threads, ceo, doc, bounds>>

-----------------------------------------------------------------------------
(* maybe_finalize_ticket and synthesize_and_complete *)

\* Mutant: the ticket is completed before the document is saved.
CompleteFirst(r, arbitration) ==
  IF arbitration.decision = "rejected"
  THEN Finish(r)
  ELSE req' = [req EXCEPT ![r] = [IdleRequest EXCEPT !.pc = "complete"]]

\* synthesize_final_document from the rows read; None when the CEO rejected,
\* which ends the request with an error.
Synthesize(r, arbitration) ==
  IF arbitration.decision = "rejected"
  THEN Finish(r)
  ELSE req' = [req EXCEPT
         ![r].pc = "save_document", ![r].seen = Loaded(Departments),
         ![r].ceo_line = arbitration.required /\ arbitration.decision = "approved"]

\* Mutant: only a rejection of the CEO holds the document back.
FinalizeUnlessRejected(r) ==
  /\ At(r, "finalize")
  /\ \E arbitration \in ArbitrationOf(rows) :
       IF ~all_active_depts_terminal(rows, needed)
       THEN Finish(r)
       ELSE Synthesize(r, arbitration)
  /\ UNCHANGED <<storeVars, bounds>>

Finalize(r) ==
  /\ At(r, "finalize")
  /\ \E arbitration \in ArbitrationOf(rows) :
       IF ~all_active_depts_terminal(rows, needed)
       THEN Finish(r)
       ELSE IF ~arbitration.required \/ arbitration.decision = "approved"
       THEN Synthesize(r, arbitration)
       ELSE IF arbitration.decision = "rejected" \/ arbitration.interrupt_id # 0
       THEN Finish(r)
       ELSE req' = [req EXCEPT ![r].pc = "start_ceo", ![r].seen = Loaded(Departments)]
  /\ UNCHANGED <<storeVars, bounds>>

\* The CEO thread is started, or started over.
StartCeo(r) ==
  /\ At(r, "start_ceo")
  /\ ceo' = StartedCeoThread
  /\ req' = [req EXCEPT ![r].pc = "save_ceo_interrupt", ![r].todo = needed,
                        ![r].interrupt_id = StartedCeoThread.id]
  /\ UNCHANGED <<status, needed, rows, threads, doc, bounds>>

\* Mutant: the patch of the decision is lost.
PatchInterrupt(r, d, interrupt_id, decision) ==
  /\ req[r].seen # Expired
  /\ d \in req[r].todo
  /\ rows' = [rows EXCEPT ![d].eval.arbitration.interrupt_id = interrupt_id]

\* One iteration of _persist_arbitration_patch: the whole evaluation of d is
\* written, as the session has it, with the patched arbitration.  A needed
\* department without a row is skipped.
PatchRow(r, d, interrupt_id, decision) ==
  /\ req[r].seen # Expired
  /\ d \in req[r].todo
  /\ LET loaded  == req[r].seen[d].eval
         patched == [loaded EXCEPT
                       !.arbitration.present = TRUE,
                       !.arbitration.interrupt_id = interrupt_id,
                       !.arbitration.decision =
                         IF decision = "none" THEN @ ELSE decision]
     IN  rows' = IF req[r].seen[d] = NotLoaded THEN rows
                 ELSE [rows EXCEPT ![d].eval = Column(@, loaded, patched)]

SaveCeoInterrupt(r, d) ==
  /\ At(r, "save_ceo_interrupt")
  /\ PatchRow(r, d, req[r].interrupt_id, "none")
  /\ req' = IF req[r].todo = {d} THEN [req EXCEPT ![r] = IdleRequest]
            ELSE [req EXCEPT ![r].todo = @ \ {d}, ![r].seen = Expired]
  /\ UNCHANGED <<status, needed, threads, ceo, doc, bounds>>

SaveDocument(r) ==
  /\ At(r, "save_document")
  /\ LET printed == {d \in needed : req[r].seen[d] # NotLoaded}
     IN  doc' = [version  |-> doc.version + 1,
                 drafts   |-> [d \in Departments |->
                                 IF d \in printed THEN req[r].seen[d].draft
                                                  ELSE NullDraft],
                 stamped  |-> {d \in printed : req[r].seen[d].approval # "pending"},
                 ceo_line |-> req[r].ceo_line]
  /\ req' = [req EXCEPT ![r] = [IdleRequest EXCEPT !.pc = "complete"]]
  /\ UNCHANGED <<status, needed, rows, threads, ceo, bounds>>

\* update_ticket_status(done); a refusal is the 409 of this request.
Complete(r) ==
  /\ At(r, "complete")
  /\ status' = IF CanUpdateStatus("done") THEN "done" ELSE status
  /\ Finish(r)
  /\ UNCHANGED <<needed, rows, threads, ceo, doc, bounds>>

-----------------------------------------------------------------------------
(* apply_ceo_decision *)

DecideCeo(r, action) ==
  /\ Accept(r)
  /\ \E arbitration \in ArbitrationOf(rows) :
       /\ arbitration.required
       /\ arbitration.interrupt_id # 0
       /\ req' = [req EXCEPT ![r] =
                    [IdleRequest EXCEPT !.pc = "load_ceo", !.action = action,
                                        !.seen = Loaded(Departments),
                                        !.interrupt_id = arbitration.interrupt_id]]
  /\ UNCHANGED <<storeVars, deaths>>

LoadCeo(r) ==
  /\ At(r, "load_ceo")
  /\ req' = [req EXCEPT ![r].pc = "resume_ceo", ![r].ceo = ceo]
  /\ UNCHANGED <<storeVars, bounds>>

\* The result of the resume decides: anything but "approved" counts as a
\* rejection, a thread that pauses again at another interrupt included.
CeoResult(r) ==
  LET thread == req[r].ceo
  IN  IF thread.next = "end" THEN thread.decision
      ELSE IF thread.id = req[r].interrupt_id /\ req[r].action = "approve"
      THEN "approved" ELSE "rejected"

ResumeCeo(r) ==
  /\ At(r, "resume_ceo")
  /\ ceo' = IF req[r].ceo.next = "pause" /\ req[r].ceo.id = req[r].interrupt_id
            THEN [req[r].ceo EXCEPT !.next = "end", !.decision = CeoResult(r),
                                    !.issued = ceo.issued]
            ELSE ceo
  /\ req' = [req EXCEPT ![r].pc = "save_ceo_decision", ![r].todo = needed,
                        ![r].ceo = NewCeoThread, ![r].decision = CeoResult(r)]
  /\ UNCHANGED <<status, needed, rows, threads, doc, bounds>>

SaveCeoDecision(r, d) ==
  /\ At(r, "save_ceo_decision")
  /\ PatchRow(r, d, 0, req[r].decision)
  /\ req' = IF req[r].todo # {d}
            THEN [req EXCEPT ![r].todo = @ \ {d}, ![r].seen = Expired]
            ELSE IF req[r].decision = "approved"
            THEN [req EXCEPT ![r] = [IdleRequest EXCEPT !.pc = "synthesize"]]
            ELSE [req EXCEPT ![r] = IdleRequest]
  /\ UNCHANGED <<status, needed, threads, ceo, doc, bounds>>

SynthesizeAfterCeo(r) ==
  /\ At(r, "synthesize")
  /\ \E arbitration \in ArbitrationOf(rows) : Synthesize(r, arbitration)
  /\ UNCHANGED <<storeVars, bounds>>

-----------------------------------------------------------------------------

\* The request ends between two of its steps: the API process is restarted, or
\* a store raises and the route answers 500.  What it committed stays.
RequestDies(r) ==
  /\ ~At(r, "idle")
  /\ deaths < MaxDeaths
  /\ deaths' = deaths + 1
  /\ Finish(r)
  /\ UNCHANGED <<storeVars, decisions>>

\* process_rfp_approval has flipped the ticket and started every thread.
StartedApproval ==
  /\ status = "waiting_for_approval"
  /\ needed = Departments
  /\ \E required \in BOOLEAN, forced \in SUBSET Departments :
       rows = [d \in Departments |->
                 [draft |-> FirstDraft, approval |-> "pending",
                  eval |-> [EmptyEval EXCEPT
                              !.forced = d \in forced, !.interrupt_id = 1,
                              !.arbitration = [NoArbitration EXCEPT
                                 !.present = TRUE, !.required = required]]]]
  /\ threads = [d \in Departments |-> StartedThread(NewThread, FirstDraft)]
  /\ ceo = NewCeoThread
  /\ doc = NoDoc

DecisionsInit ==
  /\ req = [r \in Requests |-> IdleRequest]
  /\ decisions = 0
  /\ deaths = 0

Init == StartedApproval /\ DecisionsInit

Decide(r) ==
  \E action \in Actions :
    \/ \E d \in Departments : DecideSection(r, d, action)
    \/ DecideCeo(r, action)

\* The rest of a request once it has been accepted.
Proceed(r) ==
  \/ ReadRows(r)
  \/ LoadThread(r)
  \/ ResumeEnds(r)
  \/ ResumeReworks(r)
  \/ ResumeContinues(r)
  \/ ResumeMismatches(r)
  \/ ResumeReturns(r)
  \/ Regen(r)
  \/ SaveRegen(r)
  \/ SaveApproval(r)
  \/ SaveOutcome(r)
  \/ Finalize(r)
  \/ StartCeo(r)
  \/ \E d \in Departments : SaveCeoInterrupt(r, d) \/ SaveCeoDecision(r, d)
  \/ SaveDocument(r)
  \/ Complete(r)
  \/ LoadCeo(r)
  \/ ResumeCeo(r)
  \/ SynthesizeAfterCeo(r)

Next == \E r \in Requests : Decide(r) \/ Proceed(r) \/ RequestDies(r)

Spec == Init /\ [][Next]_vars

\* A request that was accepted runs to its end; nobody has to decide.
FairSpec == Spec /\ \A r \in Requests : WF_vars(Proceed(r))

-----------------------------------------------------------------------------
(* Properties *)

TypeOK ==
  /\ StoreTypeOK
  /\ req \in [Requests -> Request]
  /\ decisions \in 0 .. MaxDecisions
  /\ deaths \in 0 .. MaxDeaths

\* Deciding moves the ticket only from waiting_for_approval to done, and only
\* with its document saved, however the requests overlap.
Lifecycle == INSTANCE TicketLifecycle WITH published <- Published
ImplementsLifecycle == [][Lifecycle!Next]_<<status, Published>>

\* However the last decisions of the sections overlap, a document is made of
\* sections that have come to an end, and the ticket is done only with one.
DoneIsComplete ==
  /\ doc.version > 0 => doc.stamped = needed
  /\ status = "done" => doc.version > 0

\* An interrupt id names one draft: whenever a row holds the id its thread is
\* paused at, the row holds the draft the approval of that id would approve,
\* also after a request died between writing the thread and writing the row.
InterruptNamesDraft ==
  \A d \in DOMAIN rows :
    (threads[d].next = "approve" /\ threads[d].id = rows[d].eval.interrupt_id)
      => threads[d].draft = rows[d].draft

Quiet == \A r \in Requests : At(r, "idle")

\* A request that dies strands no section: with none under way, a section that
\* has not come to an end has an interrupt, so that it can be decided again.
UndecidedCanDecide ==
  Quiet /\ status = "waiting_for_approval" =>
    \A d \in needed \cap DOMAIN rows :
      dept_is_terminal(rows[d]) \/ rows[d].eval.interrupt_id # 0

\* A thread raises at most one interrupt per rework, and so asks the generator
\* for at most ITERATION_LIMIT drafts, requests that die half-way included.
ReworkIsBounded == \A d \in Departments : threads[d].issued <= ITERATION_LIMIT + 1

CeoRequired == \E d \in DOMAIN rows : rows[d].eval.arbitration.required
CeoApproved == \E d \in DOMAIN rows : rows[d].eval.arbitration.decision = "approved"

\* No document is saved before the CEO's approval is recorded, when the
\* arbitration asks for it, and none is recorded that the CEO did not give
\* (CONTEXT-rfp.md, ceo-threshold: "block final synthesis until CEO approves").
CeoGatesDocument ==
  [][/\ doc' # doc /\ CeoRequired => CeoApproved
     /\ CeoApproved' => CeoApproved \/ ceo.decision = "approved"]_vars

\* The document of a contract above the threshold carries the line that says
\* the CEO approved it (CONTEXT-rfp.md 2.4).
CeoLinePrinted ==
  \A d \in DOMAIN rows :
    doc.version > 0 /\ rows[d].eval.arbitration.required => doc.ceo_line

\* A document prints "the approved draft_content" (CONTEXT-rfp.md 2.4): of an
\* approved section, the draft its owner approved.
PublishedAsApproved ==
  doc.version > 0 =>
    \A d \in needed :
      threads[d].outcome = "approved" /\ rows[d].approval = "approved"
        => doc.drafts[d] = threads[d].draft

\* "The completed document cannot be changed" (services/rfp/README.md).
DoneDocumentFrozen == [][status = "done" => doc' = doc]_vars

\* Every section has come to an end and none is left to decide.
AllDecided ==
  /\ all_active_depts_terminal(rows, needed)
  /\ \A d \in needed : rows[d].eval.interrupt_id = 0

\* "When all active depts are terminal", the CEO is asked if that is required,
\* "otherwise" the document is made and the ticket done (services/rfp/README.md).
FinalizationHappens ==
  AllDecided ~>
    \/ status = "done"
    \/ \E a \in ArbitrationOf(rows) :
         a.required /\ (a.interrupt_id # 0 \/ a.decision = "rejected")
=============================================================================
