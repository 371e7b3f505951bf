------------------------- MODULE RfpDecisionsProofs -------------------------
(***************************************************************************)
(* Proofs about RfpDecisions, for every set of departments and requests:   *)
(* however the decisions overlap and wherever they die, the model keeps    *)
(* its types, a document is made of sections that came to an end, and the  *)
(* ticket follows its lifecycle and is done only with its document; and    *)
(* what more is true of requests that come one after the other.            *)
(***************************************************************************)
EXTENDS RfpDecisions, TLAPS

-----------------------------------------------------------------------------
(* The inductive invariant *)

\* Every section the ticket needs was approved or rejected at least once.
AllHeard == \A d \in needed : rows[d].approval # "pending"

\* The snapshots a request goes by are there, and it reworks within the budget.
RequestOK(q) ==
  /\ q.pc \in {"load_thread", "resume", "regen", "save_regen", "save_approval",
               "save_outcome"}
       => q.dept \in Departments
  /\ q.pc \in {"load_thread", "resume", "regen", "save_regen", "save_approval"}
       => q.seen[q.dept] # NotLoaded
  /\ q.pc = "save_outcome" => q.seen = Expired \/ q.seen[q.dept] # NotLoaded
  /\ q.thread.next = "regen" \/ q.pc = "regen" => q.thread.rework < ITERATION_LIMIT

\* The CEO is asked only by a request that found every section heard, which
\* holds from then on: for each step of the CEO's decision, and for each
\* snapshot that has the CEO's interrupt.  What a document prints was heard.
RequestHeard(q, heard, depts, published) ==
  /\ \A d \in Departments :
       q.seen[d] # NotLoaded /\ q.seen[d].eval.arbitration.interrupt_id # 0 => heard
  /\ q.pc \in {"start_ceo", "save_ceo_interrupt", "load_ceo", "resume_ceo",
               "save_ceo_decision", "synthesize"} => heard
  /\ q.pc = "save_document" =>
       \A d \in depts : q.seen[d] # NotLoaded /\ q.seen[d].approval # "pending"
  /\ q.pc = "complete" => published

RequestsOK ==
  /\ req \in [Requests -> Request]
  /\ \A r \in Requests :
       RequestOK(req[r]) /\ RequestHeard(req[r], AllHeard, needed, Published)

\* A thread that still has to regenerate has budget left for it.
ThreadsOK ==
  \A d \in Departments :
    threads[d].next = "regen" => threads[d].rework < ITERATION_LIMIT

RowsHeard ==
  \A d \in Departments : rows[d].eval.arbitration.interrupt_id # 0 => AllHeard

StoreOK ==
  /\ StoreTypeOK
  /\ DOMAIN rows = Departments
  /\ status \in Approving
  /\ ThreadsOK
  /\ RowsHeard
  /\ DoneIsComplete

BoundsOK == decisions \in 0 .. MaxDecisions /\ deaths \in 0 .. MaxDeaths

IInv == StoreOK /\ BoundsOK /\ RequestsOK

-----------------------------------------------------------------------------
(* Snapshots, and the records requests are made of *)

\* The mark of a row that is not loaded is not a row.
LEMMA NotLoadedIsNoRow == NotLoaded \notin Row
<1> SUFFICES ASSUME NotLoaded \in Row PROVE FALSE
  OBVIOUS
<1>1. DOMAIN NotLoaded = {"row"}
  BY DEF NotLoaded
<1>2. "draft" \in DOMAIN NotLoaded
  BY DEF Row
<1> QED
  BY <1>1, <1>2

\* What Loaded returns: the rows asked for, as they are.
LEMMA LoadedRows ==
  ASSUME StoreOK, NEW depts \in SUBSET Departments
  PROVE  /\ Loaded(depts) \in Snapshot
         /\ \A d \in depts : Loaded(depts)[d] = rows[d] /\ rows[d] # NotLoaded
         /\ \A d \in Departments \ depts : Loaded(depts)[d] = NotLoaded
<1>1. rows \in [Departments -> Row]
  BY DEF StoreOK, StoreTypeOK
<1> QED
  BY <1>1, NotLoadedIsNoRow DEF Loaded, Snapshot, StoreOK

\* A commit leaves no row loaded.
LEMMA ExpiredLoadsNothing ==
  Expired \in Snapshot /\ \A d \in Departments : Expired[d] = NotLoaded
BY DEF Expired, Snapshot

\* The request that is not under way is one of the type.
LEMMA IdleRequestType ==
  IdleRequest \in Request /\ IdleRequest.pc = "idle" /\ IdleRequest.seen = Expired
<1>1. NewThread \in Thread
  BY StoreAssumption DEF NewThread, Thread, NullDraft
<1>2. NewCeoThread \in CeoThread
  BY DEF NewCeoThread, CeoThread, Decision
<1> QED
  BY <1>1, <1>2, ExpiredLoadsNothing
  DEF IdleRequest, Request, ReqPc, Actions, Decision

\* A request that begins anew, with nothing loaded, satisfies its invariant
\* wherever that needs nothing from the store.
LEMMA FreshRequest ==
  ASSUME NEW pc \in {"idle", "finalize", "complete", "synthesize"},
         NEW heard, NEW depts, NEW published,
         pc = "complete" => published, pc = "synthesize" => heard
  PROVE  /\ [IdleRequest EXCEPT !.pc = pc] \in Request
         /\ RequestOK([IdleRequest EXCEPT !.pc = pc])
         /\ RequestHeard([IdleRequest EXCEPT !.pc = pc], heard, depts, published)
<1> DEFINE q == [IdleRequest EXCEPT !.pc = pc]
<1>1. q \in Request /\ q.pc = pc /\ q.seen = Expired /\ q.thread.next = "new"
  BY IdleRequestType DEF Request, ReqPc, IdleRequest, NewThread
<1> QED
  BY <1>1, ExpiredLoadsNothing DEF RequestOK, RequestHeard

-----------------------------------------------------------------------------
(* What a step has to keep *)

\* The other requests keep their invariant: sections that were heard stay so,
\* and a document stays published.
LEMMA RequestsKept ==
  ASSUME RequestsOK, NEW r \in Requests, NEW q \in Request,
         req' = [req EXCEPT ![r] = q],
         needed' = needed, AllHeard => AllHeard', Published => Published',
         RequestOK(q), RequestHeard(q, AllHeard', needed, Published')
  PROVE  RequestsOK'
<1>1. req' \in [Requests -> Request]
  BY DEF RequestsOK
<1>2. ASSUME NEW s \in Requests
      PROVE  /\ RequestOK(req'[s])
             /\ RequestHeard(req'[s], AllHeard', needed', Published')
  <2>1. CASE s = r
    <3>1. req'[s] = q
      BY <2>1 DEF RequestsOK
    <3> QED
      BY <3>1
  <2>2. CASE s # r
    <3>1. req'[s] = req[s]
      BY <2>2 DEF RequestsOK
    <3>2. RequestOK(req[s]) /\ RequestHeard(req[s], AllHeard, needed, Published)
      BY DEF RequestsOK
    <3>3. RequestHeard(req[s], AllHeard', needed, Published')
      BY <3>2 DEF RequestHeard
    <3> QED
      BY <3>1, <3>2, <3>3
  <2> QED
    BY <2>1, <2>2
<1> QED
  BY <1>1, <1>2 DEF RequestsOK

\* A step that leaves the store alone.
LEMMA StoreSame ==
  ASSUME StoreOK, UNCHANGED storeVars
  PROVE  StoreOK' /\ needed' = needed /\ AllHeard' = AllHeard /\ Published' = Published
BY DEF StoreOK, storeVars, StoreTypeOK, ThreadsOK, RowsHeard, DoneIsComplete, AllHeard,
       Published, Thread, Row, Eval, Arbitration, CeoThread

\* A step that writes only checkpoints.
LEMMA CheckpointsWritten ==
  ASSUME StoreOK, UNCHANGED <<status, needed, rows, doc>>,
         threads' \in [Departments -> Thread], ceo' \in CeoThread, ThreadsOK'
  PROVE  StoreOK' /\ needed' = needed /\ AllHeard' = AllHeard /\ Published' = Published
BY DEF StoreOK, StoreTypeOK, RowsHeard, DoneIsComplete, AllHeard, Published, Thread,
       Row, Eval, Arbitration, CeoThread

\* A step that writes one row: approvals are not withdrawn, and the CEO's
\* interrupt appears only when every section was heard.
LEMMA RowSaved ==
  ASSUME StoreOK, UNCHANGED <<status, needed, threads, ceo, doc>>,
         NEW d \in Departments, NEW row \in Row, rows' = [rows EXCEPT ![d] = row],
         row.approval = "pending" => rows[d].approval = "pending",
         row.eval.arbitration.interrupt_id # 0 => AllHeard
  PROVE  StoreOK' /\ needed' = needed /\ (AllHeard => AllHeard') /\ Published' = Published
<1>1. rows \in [Departments -> Row] /\ needed \in SUBSET Departments
  BY DEF StoreOK, StoreTypeOK
<1>2. rows' \in [Departments -> Row] /\ DOMAIN rows' = Departments
  BY <1>1
<1>3. rows'[d] = row /\ \A e \in Departments \ {d} : rows'[e] = rows[e]
  BY <1>1
<1>4. AllHeard => AllHeard'
  BY <1>1, <1>3 DEF AllHeard
<1>5. RowsHeard'
  BY <1>3, <1>4 DEF RowsHeard, StoreOK
<1>6. StoreTypeOK'
  BY <1>2 DEF StoreOK, StoreTypeOK
<1>7. ThreadsOK' /\ DoneIsComplete' /\ Published' = Published
  BY DEF StoreOK, ThreadsOK, DoneIsComplete, Published
<1> QED
  BY <1>2, <1>4, <1>5, <1>6, <1>7 DEF StoreOK

-----------------------------------------------------------------------------
(* Steps that only read the store *)

\* What the invariant says of one request.
LEMMA RequestTyped ==
  ASSUME IInv, NEW r \in Requests
  PROVE  /\ req[r] \in Request
         /\ RequestOK(req[r]) /\ RequestHeard(req[r], AllHeard, needed, Published)
         /\ req[r].seen \in Snapshot
BY DEF IInv, RequestsOK, Request

\* A snapshot of rows read now brings no interrupt of the CEO that was not there.
LEMMA LoadedHeard ==
  ASSUME StoreOK, NEW depts \in SUBSET Departments, NEW d \in Departments,
         Loaded(depts)[d] # NotLoaded,
         Loaded(depts)[d].eval.arbitration.interrupt_id # 0
  PROVE  AllHeard
<1>1. Loaded(depts)[d] = rows[d]
  BY LoadedRows
<1> QED
  BY <1>1 DEF StoreOK, RowsHeard

\* An arbitration read from the rows has an interrupt only if all were heard.
LEMMA ArbitrationHeard ==
  ASSUME StoreOK, NEW arbitration \in ArbitrationOf(rows),
         arbitration.interrupt_id # 0
  PROVE  AllHeard
<1>1. PICK d \in DOMAIN rows : arbitration = rows[d].eval.arbitration
  BY DEF ArbitrationOf, NoArbitration
<1> QED
  BY <1>1 DEF StoreOK, RowsHeard

\* Every section that came to an end was heard.
LEMMA TerminalHeard == all_active_depts_terminal(rows, needed) => AllHeard
BY DEF all_active_depts_terminal, dept_is_terminal, AllHeard

\* A request that goes on with the store as it is.
LEMMA ReadStep ==
  ASSUME IInv, NEW r \in Requests, NEW q \in Request,
         req' = [req EXCEPT ![r] = q], UNCHANGED storeVars,
         RequestOK(q), RequestHeard(q, AllHeard, needed, Published)
  PROVE  StoreOK' /\ RequestsOK'
<1>1. StoreOK' /\ needed' = needed /\ AllHeard' = AllHeard /\ Published' = Published
  BY StoreSame DEF IInv
<1>2. RequestsOK /\ RequestHeard(q, AllHeard', needed, Published')
  BY <1>1 DEF IInv
<1>3. RequestsOK'
  BY <1>1, <1>2, RequestsKept
<1> QED
  BY <1>1, <1>3

\* A request that ends is idle.
LEMMA FinishStep ==
  ASSUME IInv, NEW r \in Requests, Finish(r), UNCHANGED storeVars
  PROVE  StoreOK' /\ RequestsOK'
<1>1. RequestOK(IdleRequest) /\ RequestHeard(IdleRequest, AllHeard, needed, Published)
  BY ExpiredLoadsNothing, IdleRequestType
  DEF RequestOK, RequestHeard, IdleRequest, NewThread
<1> QED
  BY <1>1, IdleRequestType, ReadStep DEF Finish

\* Loading a checkpoint takes over the budget of the thread.
LEMMA LoadThreadStep ==
  ASSUME IInv, NEW r \in Requests, LoadThread(r)
  PROVE  StoreOK' /\ RequestsOK'
<1> DEFINE q == [req[r] EXCEPT !.pc = "resume", !.thread = threads[req[r].dept]]
<1>1. req' = [req EXCEPT ![r] = q] /\ UNCHANGED storeVars
  BY DEF LoadThread, IInv, RequestsOK
<1>0. threads[req[r].dept] \in Thread
  BY RequestTyped DEF LoadThread, At, RequestOK, IInv, StoreOK, StoreTypeOK
<1>2. q \in Request
  BY RequestTyped, <1>0 DEF Request, ReqPc
<1>3. RequestOK(q)
  BY RequestTyped DEF RequestOK, LoadThread, At, IInv, StoreOK, ThreadsOK, Request
<1>4. RequestHeard(q, AllHeard, needed, Published)
  BY RequestTyped DEF RequestHeard, LoadThread, At, Request
<1> QED
  BY <1>1, <1>2, <1>3, <1>4, ReadStep

\* A thread that was left before its regen has budget for it.
LEMMA ResumeContinuesStep ==
  ASSUME IInv, NEW r \in Requests, ResumeContinues(r)
  PROVE  StoreOK' /\ RequestsOK'
<1> DEFINE q == [req[r] EXCEPT !.pc = "regen"]
<1>1. req' = [req EXCEPT ![r] = q] /\ UNCHANGED storeVars
  BY DEF ResumeContinues, IInv, RequestsOK
<1>2. q \in Request
  BY RequestTyped DEF Request, ReqPc
<1>3. RequestOK(q)
  BY RequestTyped DEF RequestOK, ResumeContinues, At, IInv, StoreOK, ThreadsOK, Request
<1>4. RequestHeard(q, AllHeard, needed, Published)
  BY RequestTyped DEF RequestHeard, ResumeContinues, At, Request
<1> QED
  BY <1>1, <1>2, <1>3, <1>4, ReadStep

\* Another interrupt takes the place of the one the request had.
LEMMA ResumeMismatchesStep ==
  ASSUME IInv, NEW r \in Requests, ResumeMismatches(r)
  PROVE  StoreOK' /\ RequestsOK'
<1> DEFINE q == [req[r] EXCEPT !.pc = "save_regen", !.interrupt_id = req[r].thread.id]
<1>1. req' = [req EXCEPT ![r] = q] /\ UNCHANGED storeVars
  BY DEF ResumeMismatches, IInv, RequestsOK
<1>0. req[r].thread.id \in Nat
  BY RequestTyped DEF Request, Thread
<1>2. q \in Request
  BY RequestTyped, <1>0 DEF Request, ReqPc
<1>3. RequestOK(q)
  BY RequestTyped DEF RequestOK, ResumeMismatches, At, IInv, StoreOK, ThreadsOK, Request
<1>4. RequestHeard(q, AllHeard, needed, Published)
  BY RequestTyped DEF RequestHeard, ResumeMismatches, At, Request
<1> QED
  BY <1>1, <1>2, <1>3, <1>4, ReadStep

\* A thread that has ended brings the request to storing the approval.
LEMMA ResumeReturnsStep ==
  ASSUME IInv, NEW r \in Requests, ResumeReturns(r)
  PROVE  StoreOK' /\ RequestsOK'
<1> DEFINE q == [req[r] EXCEPT !.pc = "save_approval"]
<1>1. req' = [req EXCEPT ![r] = q] /\ UNCHANGED storeVars
  BY DEF ResumeReturns, IInv, RequestsOK
<1>2. q \in Request
  BY RequestTyped DEF Request, ReqPc
<1>3. RequestOK(q)
  BY RequestTyped DEF RequestOK, ResumeReturns, At, IInv, StoreOK, ThreadsOK, Request
<1>4. RequestHeard(q, AllHeard, needed, Published)
  BY RequestTyped DEF RequestHeard, ResumeReturns, At, Request
<1> QED
  BY <1>1, <1>2, <1>3, <1>4, ReadStep

\* The checkpoint of the CEO is read as it is.
LEMMA LoadCeoStep ==
  ASSUME IInv, NEW r \in Requests, LoadCeo(r)
  PROVE  StoreOK' /\ RequestsOK'
<1> DEFINE q == [req[r] EXCEPT !.pc = "resume_ceo", !.ceo = ceo]
<1>1. req' = [req EXCEPT ![r] = q] /\ UNCHANGED storeVars
  BY DEF LoadCeo, IInv, RequestsOK
<1>0. ceo \in CeoThread
  BY DEF IInv, StoreOK, StoreTypeOK
<1>2. q \in Request
  BY RequestTyped, <1>0 DEF Request, ReqPc
<1>3. RequestOK(q)
  BY RequestTyped DEF RequestOK, LoadCeo, At, IInv, StoreOK, ThreadsOK, Request
<1>4. RequestHeard(q, AllHeard, needed, Published)
  BY RequestTyped DEF RequestHeard, LoadCeo, At, Request
<1> QED
  BY <1>1, <1>2, <1>3, <1>4, ReadStep

\* The first read after a commit loads every row.
LEMMA ReadRowsStep ==
  ASSUME IInv, NEW r \in Requests, ReadRows(r)
  PROVE  StoreOK' /\ RequestsOK'
<1> DEFINE q == [req[r] EXCEPT !.seen = Loaded(Departments)]
<1>1. req' = [req EXCEPT ![r] = q] /\ UNCHANGED storeVars
  BY DEF ReadRows, IInv, RequestsOK
<1>2. /\ Loaded(Departments) \in Snapshot
      /\ \A d \in Departments : Loaded(Departments)[d] # NotLoaded
  BY LoadedRows DEF IInv
<1>3. q \in Request /\ q.pc = req[r].pc /\ q.seen = Loaded(Departments)
  BY RequestTyped, <1>2 DEF Request
<1>4. RequestOK(q)
  BY RequestTyped, <1>2 DEF RequestOK, ReadRows, Request
<1>5. RequestHeard(q, AllHeard, needed, Published)
  BY RequestTyped, <1>3, LoadedHeard DEF RequestHeard, ReadRows, IInv
<1> QED
  BY <1>1, <1>3, <1>4, <1>5, ReadStep

\* A decision on a section begins with its row loaded.
LEMMA DecideSectionStep ==
  ASSUME IInv, NEW r \in Requests, NEW d \in Departments, NEW action \in Actions,
         DecideSection(r, d, action)
  PROVE  StoreOK' /\ RequestsOK'
<1> DEFINE q == [IdleRequest EXCEPT !.pc = "load_thread", !.dept = d,
                                    !.action = action, !.seen = Loaded({d}),
                                    !.interrupt_id = rows[d].eval.interrupt_id]
<1>1. req' = [req EXCEPT ![r] = q] /\ UNCHANGED storeVars
  BY DEF DecideSection, Accept, storeVars
<1>2. /\ Loaded({d}) \in Snapshot
      /\ Loaded({d})[d] # NotLoaded
  BY LoadedRows DEF IInv
<1>3. rows[d].eval.interrupt_id \in Nat
  BY DEF IInv, StoreOK, StoreTypeOK, Row, Eval
<1>4. /\ q \in Request /\ q.pc = "load_thread" /\ q.seen = Loaded({d})
      /\ q.dept = d /\ q.thread.next = "new"
  BY IdleRequestType, <1>2, <1>3 DEF Request, ReqPc, IdleRequest, NewThread
<1>5. RequestOK(q)
  BY <1>2, <1>4 DEF RequestOK
<1>6. RequestHeard(q, AllHeard, needed, Published)
  BY <1>4, LoadedHeard DEF RequestHeard, IInv
<1> QED
  BY <1>1, <1>4, <1>5, <1>6, ReadStep

\* A decision of the CEO begins only with an interrupt, so all were heard.
LEMMA DecideCeoStep ==
  ASSUME IInv, NEW r \in Requests, NEW action \in Actions, DecideCeo(r, action)
  PROVE  StoreOK' /\ RequestsOK'
<1>1. PICK arbitration \in ArbitrationOf(rows) :
        /\ arbitration.interrupt_id # 0
        /\ req' = [req EXCEPT ![r] =
                     [IdleRequest EXCEPT !.pc = "load_ceo", !.action = action,
                                         !.seen = Loaded(Departments),
                                         !.interrupt_id = arbitration.interrupt_id]]
  BY DEF DecideCeo
<1> DEFINE q == [IdleRequest EXCEPT !.pc = "load_ceo", !.action = action,
                                    !.seen = Loaded(Departments),
                                    !.interrupt_id = arbitration.interrupt_id]
<1>2. UNCHANGED storeVars
  BY DEF DecideCeo
<1>3. Loaded(Departments) \in Snapshot
  BY LoadedRows DEF IInv
<1>4. arbitration.interrupt_id \in Nat
  BY DEF ArbitrationOf, NoArbitration, IInv, StoreOK, StoreTypeOK, Row, Eval, Arbitration
<1>5. AllHeard
  BY <1>1, ArbitrationHeard DEF IInv
<1>6. q \in Request /\ q.pc = "load_ceo" /\ q.thread.next = "new"
  BY IdleRequestType, <1>3, <1>4 DEF Request, ReqPc, IdleRequest, NewThread
<1>7. RequestOK(q) /\ RequestHeard(q, AllHeard, needed, Published)
  BY <1>5, <1>6 DEF RequestOK, RequestHeard
<1> QED
  BY <1>1, <1>2, <1>6, <1>7, ReadStep

\* Synthesis is reached only when every section was heard.
LEMMA SynthesizeStep ==
  ASSUME IInv, NEW r \in Requests, NEW arbitration, arbitration \in ArbitrationOf(rows),
         Synthesize(r, arbitration), UNCHANGED storeVars, AllHeard,
         req[r].pc \in {"finalize", "synthesize"}
  PROVE  StoreOK' /\ RequestsOK'
<1>1. CASE arbitration.decision = "rejected"
  BY <1>1, FinishStep DEF Synthesize
<1>2. CASE arbitration.decision # "rejected"
  <2> DEFINE line == arbitration.required /\ arbitration.decision = "approved"
             q == [req[r] EXCEPT !.pc = "save_document",
                                 !.seen = Loaded(Departments), !.ceo_line = line]
  <2>1. req' = [req EXCEPT ![r] = q]
    BY <1>2 DEF Synthesize, IInv, RequestsOK
  <2>2. /\ Loaded(Departments) \in Snapshot
        /\ \A d \in Departments : /\ Loaded(Departments)[d] # NotLoaded
                                  /\ Loaded(Departments)[d] = rows[d]
    BY LoadedRows DEF IInv
  <2>3. line \in BOOLEAN
    OBVIOUS
  <2>4. /\ q \in Request /\ q.pc = "save_document" /\ q.seen = Loaded(Departments)
        /\ q.thread = req[r].thread
    BY RequestTyped, <2>2, <2>3 DEF Request, ReqPc
  <2>5. RequestOK(q)
    BY RequestTyped, <2>4 DEF RequestOK
  <2>6. needed \subseteq Departments
    BY DEF IInv, StoreOK, StoreTypeOK
  <2>7. RequestHeard(q, AllHeard, needed, Published)
    BY <2>2, <2>4, <2>6 DEF RequestHeard, AllHeard
  <2> QED
    BY <2>1, <2>4, <2>5, <2>7, ReadStep
<1> QED
  BY <1>1, <1>2

\* Finalizing goes on only when every section came to an end.
LEMMA FinalizeStep ==
  ASSUME IInv, NEW r \in Requests, Finalize(r)
  PROVE  StoreOK' /\ RequestsOK'
<1>1. UNCHANGED storeVars /\ req[r].pc = "finalize"
  BY DEF Finalize, At
<1>2. CASE Finish(r)
  BY <1>1, <1>2, FinishStep
<1>3. ASSUME NEW arbitration \in ArbitrationOf(rows), Synthesize(r, arbitration),
             all_active_depts_terminal(rows, needed)
      PROVE  StoreOK' /\ RequestsOK'
  BY <1>1, <1>3, TerminalHeard, SynthesizeStep
<1>4. CASE /\ all_active_depts_terminal(rows, needed)
           /\ req' = [req EXCEPT ![r].pc = "start_ceo",
                                 ![r].seen = Loaded(Departments)]
  <2> DEFINE q == [req[r] EXCEPT !.pc = "start_ceo", !.seen = Loaded(Departments)]
  <2>1. req' = [req EXCEPT ![r] = q]
    BY <1>4 DEF IInv, RequestsOK
  <2>2. Loaded(Departments) \in Snapshot
    BY LoadedRows DEF IInv
  <2>3. /\ q \in Request /\ q.pc = "start_ceo" /\ q.thread = req[r].thread
    BY RequestTyped, <2>2 DEF Request, ReqPc
  <2>4. RequestOK(q)
    BY RequestTyped, <2>3 DEF RequestOK
  <2>5. RequestHeard(q, AllHeard, needed, Published)
    BY <1>4, <2>3, TerminalHeard DEF RequestHeard
  <2> QED
    BY <1>1, <2>1, <2>3, <2>4, <2>5, ReadStep
<1> QED
  BY <1>2, <1>3, <1>4 DEF Finalize

\* After the approval of the CEO the sections are still heard.
LEMMA SynthesizeAfterCeoStep ==
  ASSUME IInv, NEW r \in Requests, SynthesizeAfterCeo(r)
  PROVE  StoreOK' /\ RequestsOK'
<1>1. /\ UNCHANGED storeVars /\ req[r].pc = "synthesize"
      /\ \E arbitration \in ArbitrationOf(rows) : Synthesize(r, arbitration)
  BY DEF SynthesizeAfterCeo, At
<1>2. AllHeard
  BY <1>1, RequestTyped DEF RequestHeard
<1> QED
  BY <1>1, <1>2, SynthesizeStep

-----------------------------------------------------------------------------
(* Steps that write a checkpoint *)

\* A request that goes on after such a step.
LEMMA CheckpointStep ==
  ASSUME IInv, NEW r \in Requests, NEW q \in Request,
         req' = [req EXCEPT ![r] = q], UNCHANGED <<status, needed, rows, doc>>,
         threads' \in [Departments -> Thread], ceo' \in CeoThread, ThreadsOK',
         RequestOK(q), RequestHeard(q, AllHeard, needed, Published)
  PROVE  StoreOK' /\ RequestsOK'
<1>1. StoreOK' /\ needed' = needed /\ AllHeard' = AllHeard /\ Published' = Published
  BY CheckpointsWritten DEF IInv
<1>2. RequestsOK /\ RequestHeard(q, AllHeard', needed, Published')
  BY <1>1 DEF IInv
<1>3. RequestsOK'
  BY <1>1, <1>2, RequestsKept
<1> QED
  BY <1>1, <1>3

\* WriteThread writes the thread it is given, but for the ids issued.
LEMMA WriteThreadTyped ==
  ASSUME IInv, NEW r \in Requests, req[r].dept \in Departments,
         NEW thread \in Thread, WriteThread(r, thread),
         thread.next = "regen" => thread.rework < ITERATION_LIMIT
  PROVE  threads' \in [Departments -> Thread] /\ ThreadsOK'
<1> DEFINE d == req[r].dept
           w == [thread EXCEPT !.issued = threads[d].issued]
<1>1. threads \in [Departments -> Thread] /\ ThreadsOK
  BY DEF IInv, StoreOK, StoreTypeOK
<1>2. threads[d].issued \in Nat
  BY <1>1 DEF Thread
<1>3. w \in Thread /\ w.next = thread.next /\ w.rework = thread.rework
  BY <1>2 DEF Thread
<1>4. threads' = [threads EXCEPT ![d] = w]
  BY DEF WriteThread
<1>5. /\ threads' \in [Departments -> Thread]
      /\ threads'[d] = w
      /\ \A e \in Departments \ {d} : threads'[e] = threads[e]
  BY <1>1, <1>3, <1>4
<1> QED
  BY <1>1, <1>3, <1>5 DEF ThreadsOK

\* Ending a thread leaves nothing to regenerate.
LEMMA ResumeEndsStep ==
  ASSUME IInv, NEW r \in Requests, ResumeEnds(r)
  PROVE  StoreOK' /\ RequestsOK'
<1> DEFINE outcome == IF req[r].action = "approve" THEN "approved" ELSE "exhausted"
           ended == [req[r].thread EXCEPT !.next = "end", !.outcome = outcome]
           q == [req[r] EXCEPT !.pc = "save_approval", !.thread = ended]
<1>1. /\ req' = [req EXCEPT ![r] = q]
      /\ UNCHANGED <<status, needed, rows, ceo, doc>>
      /\ WriteThread(r, ended)
      /\ req[r].pc = "resume"
  BY DEF ResumeEnds, Resumes, At, IInv, RequestsOK
<1>2. req[r].thread \in Thread /\ req[r].dept \in Departments
  BY <1>1, RequestTyped DEF Request, RequestOK
<1>3. ended \in Thread /\ ended.next = "end"
  BY <1>2 DEF Thread
<1>4. threads' \in [Departments -> Thread] /\ ThreadsOK'
  BY <1>1, <1>2, <1>3, WriteThreadTyped
<1>5. ceo' \in CeoThread
  BY <1>1 DEF IInv, StoreOK, StoreTypeOK
<1>6. /\ q \in Request /\ q.pc = "save_approval" /\ q.thread = ended
      /\ q.dept = req[r].dept /\ q.seen = req[r].seen
  BY RequestTyped, <1>3 DEF Request, ReqPc
<1>7. RequestOK(q)
  BY <1>1, <1>3, <1>6, RequestTyped DEF RequestOK
<1>8. RequestHeard(q, AllHeard, needed, Published)
  BY <1>6, RequestTyped DEF RequestHeard
<1> QED
  BY <1>1, <1>4, <1>5, <1>6, <1>7, <1>8, CheckpointStep

\* A rework is asked for only within the budget.
LEMMA ResumeReworksStep ==
  ASSUME IInv, NEW r \in Requests, ResumeReworks(r)
  PROVE  StoreOK' /\ RequestsOK'
<1> DEFINE left == [req[r].thread EXCEPT !.next = "regen"]
           q == [req[r] EXCEPT !.pc = "regen"]
<1>1. /\ req' = [req EXCEPT ![r] = q]
      /\ UNCHANGED <<status, needed, rows, ceo, doc>>
      /\ WriteThread(r, left)
      /\ req[r].pc = "resume"
      /\ req[r].thread.rework < ITERATION_LIMIT
  BY DEF ResumeReworks, Resumes, At, IInv, RequestsOK
<1>2. req[r].thread \in Thread /\ req[r].dept \in Departments
  BY <1>1, RequestTyped DEF Request, RequestOK
<1>3. left \in Thread /\ left.rework < ITERATION_LIMIT
  BY <1>1, <1>2 DEF Thread
<1>4. threads' \in [Departments -> Thread] /\ ThreadsOK'
  BY <1>1, <1>2, <1>3, WriteThreadTyped
<1>5. ceo' \in CeoThread
  BY <1>1 DEF IInv, StoreOK, StoreTypeOK
<1>6. /\ q \in Request /\ q.pc = "regen" /\ q.thread = req[r].thread
      /\ q.dept = req[r].dept /\ q.seen = req[r].seen
  BY RequestTyped DEF Request, ReqPc
<1>7. RequestOK(q)
  BY <1>1, <1>6, RequestTyped DEF RequestOK
<1>8. RequestHeard(q, AllHeard, needed, Published)
  BY <1>6, RequestTyped DEF RequestHeard
<1> QED
  BY <1>1, <1>4, <1>5, <1>6, <1>7, <1>8, CheckpointStep

\* A regen uses up one rework of the budget, and the thread pauses.
LEMMA RegenStep ==
  ASSUME IInv, NEW r \in Requests, Regen(r)
  PROVE  StoreOK' /\ RequestsOK'
<1> DEFINE dept == req[r].dept
           id == threads[dept].issued + 1
           Paused(draft) == [next |-> "approve", id |-> id, issued |-> id,
                             draft |-> draft, rework |-> req[r].thread.rework + 1,
                             outcome |-> "none"]
<1>1. PICK draft \in {req[r].thread.draft, RegenDraft(id)} :
        /\ threads' = [threads EXCEPT ![dept] = Paused(draft)]
        /\ req' = [req EXCEPT ![r].pc = "save_regen", ![r].thread = Paused(draft),
                              ![r].interrupt_id = id]
  BY DEF Regen
<1> DEFINE q == [req[r] EXCEPT !.pc = "save_regen", !.thread = Paused(draft),
                               !.interrupt_id = id]
<1>2. /\ UNCHANGED <<status, needed, rows, ceo, doc>>
      /\ req[r].pc = "regen"
      /\ req' = [req EXCEPT ![r] = q]
  BY <1>1 DEF Regen, At, IInv, RequestsOK
<1>3. /\ req[r].thread \in Thread /\ dept \in Departments
      /\ req[r].thread.rework < ITERATION_LIMIT
      /\ threads \in [Departments -> Thread]
  BY <1>2, RequestTyped DEF Request, RequestOK, IInv, StoreOK, StoreTypeOK
<1>4. id \in Nat /\ draft \in Nat
  BY <1>1, <1>3 DEF Thread, RegenDraft
<1>5. Paused(draft) \in Thread
  BY <1>3, <1>4, StoreAssumption DEF Thread
<1>6. threads' \in [Departments -> Thread] /\ ThreadsOK'
  BY <1>1, <1>3, <1>5 DEF ThreadsOK, IInv, StoreOK
<1>7. ceo' \in CeoThread
  BY <1>2 DEF IInv, StoreOK, StoreTypeOK
<1>8. /\ q \in Request /\ q.pc = "save_regen" /\ q.thread = Paused(draft)
      /\ q.dept = req[r].dept /\ q.seen = req[r].seen
  BY RequestTyped, <1>4, <1>5 DEF Request, ReqPc
<1>9. RequestOK(q)
  BY <1>2, <1>8, RequestTyped DEF RequestOK
<1>10. RequestHeard(q, AllHeard, needed, Published)
  BY <1>8, RequestTyped DEF RequestHeard
<1> QED
  BY <1>2, <1>6, <1>7, <1>8, <1>9, <1>10, CheckpointStep

\* Starting the CEO thread, also over, leaves the sections heard.
LEMMA StartCeoStep ==
  ASSUME IInv, NEW r \in Requests, StartCeo(r)
  PROVE  StoreOK' /\ RequestsOK'
<1> DEFINE q == [req[r] EXCEPT !.pc = "save_ceo_interrupt", !.todo = needed,
                               !.interrupt_id = StartedCeoThread.id]
<1>1. /\ req' = [req EXCEPT ![r] = q]
      /\ UNCHANGED <<status, needed, rows, threads, doc>>
      /\ ceo' = StartedCeoThread
      /\ req[r].pc = "start_ceo"
  BY DEF StartCeo, At, IInv, RequestsOK
<1>2. /\ ceo \in CeoThread /\ needed \in SUBSET Departments
      /\ threads' \in [Departments -> Thread] /\ ThreadsOK'
  BY <1>1 DEF IInv, StoreOK, StoreTypeOK, ThreadsOK
<1>3. StartedCeoThread \in CeoThread /\ StartedCeoThread.id \in Nat
  BY <1>2 DEF StartedCeoThread, CeoThread, Decision
<1>4. /\ q \in Request /\ q.pc = "save_ceo_interrupt" /\ q.thread = req[r].thread
      /\ q.seen = req[r].seen
  BY RequestTyped, <1>2, <1>3 DEF Request, ReqPc
<1>5. RequestOK(q)
  BY <1>1, <1>4, RequestTyped DEF RequestOK
<1>6. RequestHeard(q, AllHeard, needed, Published)
  BY <1>1, <1>4, RequestTyped DEF RequestHeard
<1> QED
  BY <1>1, <1>2, <1>3, <1>4, <1>5, <1>6, CheckpointStep

\* Whatever the resume returns is a decision.
LEMMA ResumeCeoStep ==
  ASSUME IInv, NEW r \in Requests, ResumeCeo(r)
  PROVE  StoreOK' /\ RequestsOK'
<1> DEFINE q == [req[r] EXCEPT !.pc = "save_ceo_decision", !.todo = needed,
                               !.ceo = NewCeoThread, !.decision = CeoResult(r)]
<1>1. /\ req' = [req EXCEPT ![r] = q]
      /\ UNCHANGED <<status, needed, rows, threads, doc>>
      /\ req[r].pc = "resume_ceo"
  BY DEF ResumeCeo, At, IInv, RequestsOK
<1>2. /\ ceo \in CeoThread /\ needed \in SUBSET Departments
      /\ threads' \in [Departments -> Thread] /\ ThreadsOK'
  BY <1>1 DEF IInv, StoreOK, StoreTypeOK, ThreadsOK
<1>3. req[r].ceo \in CeoThread /\ CeoResult(r) \in Decision
  BY RequestTyped DEF Request, CeoResult, CeoThread, Decision
<1>4. ceo' \in CeoThread
  BY <1>2, <1>3 DEF ResumeCeo, CeoThread
<1>5. NewCeoThread \in CeoThread
  BY DEF NewCeoThread, CeoThread, Decision
<1>6. /\ q \in Request /\ q.pc = "save_ceo_decision" /\ q.thread = req[r].thread
      /\ q.seen = req[r].seen
  BY RequestTyped, <1>2, <1>3, <1>5 DEF Request, ReqPc
<1>7. RequestOK(q)
  BY <1>1, <1>6, RequestTyped DEF RequestOK
<1>8. RequestHeard(q, AllHeard, needed, Published)
  BY <1>1, <1>6, RequestTyped DEF RequestHeard
<1> QED
  BY <1>1, <1>2, <1>4, <1>6, <1>7, <1>8, CheckpointStep

-----------------------------------------------------------------------------
(* Steps that write a row *)

\* A request that goes on after such a step.
LEMMA RowStep ==
  ASSUME IInv, NEW r \in Requests, NEW q \in Request,
         req' = [req EXCEPT ![r] = q],
         UNCHANGED <<status, needed, threads, ceo, doc>>,
         NEW d \in Departments, NEW row \in Row, rows' = [rows EXCEPT ![d] = row],
         row.approval = "pending" => rows[d].approval = "pending",
         row.eval.arbitration.interrupt_id # 0 => AllHeard,
         RequestOK(q), RequestHeard(q, AllHeard, needed, Published)
  PROVE  StoreOK' /\ RequestsOK'
<1>1. StoreOK' /\ needed' = needed /\ (AllHeard => AllHeard') /\ Published' = Published
  BY RowSaved DEF IInv
<1>2. RequestsOK /\ RequestHeard(q, AllHeard', needed, Published')
  BY <1>1 DEF IInv, RequestHeard
<1>3. RequestsOK'
  BY <1>1, <1>2, RequestsKept
<1> QED
  BY <1>1, <1>3

\* An idle request keeps its invariant whatever the store holds.
LEMMA IdleOK ==
  RequestOK(IdleRequest) /\ RequestHeard(IdleRequest, AllHeard, needed, Published)
BY ExpiredLoadsNothing, IdleRequestType
DEF RequestOK, RequestHeard, IdleRequest, NewThread

\* A regenerated draft is stored with an evaluation that was loaded before.
LEMMA SaveRegenStep ==
  ASSUME IInv, NEW r \in Requests, SaveRegen(r)
  PROVE  StoreOK' /\ RequestsOK'
<1> DEFINE d == req[r].dept
           loaded == req[r].seen[d]
           draft == Column(rows[d].draft, loaded.draft, req[r].thread.draft)
           eval == [loaded.eval EXCEPT !.interrupt_id = req[r].interrupt_id]
           row == Replaced(rows[d], draft, eval)
<1>1. /\ req' = [req EXCEPT ![r] = IdleRequest]
      /\ UNCHANGED <<status, needed, threads, ceo, doc>>
      /\ req[r].pc = "save_regen"
  BY DEF SaveRegen, Finish, At
<1>2. d \in Departments /\ loaded \in Row /\ req[r].thread \in Thread
  BY <1>1, RequestTyped DEF RequestOK, Request, Snapshot
<1>3. rows[d] \in Row /\ rows \in [Departments -> Row]
  BY <1>2 DEF IInv, StoreOK, StoreTypeOK
<1>4. rows' = [rows EXCEPT ![d] = row]
  BY <1>3 DEF SaveRegen
<1>5. draft \in Nat
  BY <1>2, <1>3 DEF Column, Row, Thread
<1>6. eval \in Eval /\ eval.arbitration = loaded.eval.arbitration
  BY <1>2, RequestTyped DEF Row, Eval, Request
<1>7. row \in Row /\ row.approval = rows[d].approval /\ row.eval = eval
  BY <1>3, <1>5, <1>6 DEF Replaced, Row
<1>8. row.eval.arbitration.interrupt_id # 0 => AllHeard
  <2>1. loaded # NotLoaded
    BY <1>2, NotLoadedIsNoRow
  <2>2. RequestHeard(req[r], AllHeard, needed, Published)
    BY RequestTyped
  <2>3. loaded.eval.arbitration.interrupt_id # 0 => AllHeard
    BY <1>2, <2>1, <2>2 DEF RequestHeard
  <2>4. row.eval.arbitration = loaded.eval.arbitration
    BY <1>6, <1>7
  <2> QED
    BY <2>3, <2>4
<1> QED
  BY <1>1, <1>2, <1>4, <1>7, <1>8, IdleOK, IdleRequestType, RowStep

\* An approval is never taken back to pending.
LEMMA SaveApprovalStep ==
  ASSUME IInv, NEW r \in Requests, SaveApproval(r)
  PROVE  StoreOK' /\ RequestsOK'
<1> DEFINE d == req[r].dept
           value == IF req[r].thread.outcome = "approved"
                    THEN "approved" ELSE "rejected"
           approval == Column(rows[d].approval, req[r].seen[d].approval, value)
           row == [rows[d] EXCEPT !.approval = approval]
           q == [req[r] EXCEPT !.pc = "save_outcome", !.seen = Expired]
<1>1. /\ req' = [req EXCEPT ![r] = q]
      /\ UNCHANGED <<status, needed, threads, ceo, doc>>
      /\ req[r].pc = "save_approval"
  BY DEF SaveApproval, At, IInv, RequestsOK
<1>2. d \in Departments
  BY <1>1, RequestTyped DEF RequestOK
<1>3. rows[d] \in Row /\ rows \in [Departments -> Row]
  BY <1>2 DEF IInv, StoreOK, StoreTypeOK
<1>4. rows' = [rows EXCEPT ![d] = row]
  BY <1>3 DEF SaveApproval
<1>5. /\ approval \in {"pending", "approved", "rejected"}
      /\ approval = "pending" => rows[d].approval = "pending"
  BY <1>3 DEF Column, Row
<1>6. row \in Row /\ row.approval = approval /\ row.eval = rows[d].eval
  BY <1>3, <1>5 DEF Row
<1>7. row.eval.arbitration.interrupt_id # 0 => AllHeard
  BY <1>2, <1>6 DEF IInv, StoreOK, RowsHeard
<1>8. /\ q \in Request /\ q.pc = "save_outcome" /\ q.thread = req[r].thread
      /\ q.dept = d /\ q.seen = Expired
  BY RequestTyped, ExpiredLoadsNothing DEF Request, ReqPc
<1>9. RequestOK(q) /\ RequestHeard(q, AllHeard, needed, Published)
  BY <1>2, <1>8, RequestTyped, ExpiredLoadsNothing DEF RequestOK, RequestHeard
<1> QED
  BY <1>1, <1>2, <1>4, <1>5, <1>6, <1>7, <1>8, <1>9, RowStep

\* The outcome is stored with an evaluation loaded after the last commit.
LEMMA SaveOutcomeStep ==
  ASSUME IInv, NEW r \in Requests, SaveOutcome(r)
  PROVE  StoreOK' /\ RequestsOK'
<1> DEFINE d == req[r].dept
           loaded == req[r].seen[d]
           eval == [loaded.eval EXCEPT !.interrupt_id = 0,
                                       !.graph_outcome = req[r].thread.outcome]
           row == [rows[d] EXCEPT !.eval = eval]
           q == [IdleRequest EXCEPT !.pc = "finalize"]
<1>1. /\ req' = [req EXCEPT ![r] = q]
      /\ UNCHANGED <<status, needed, threads, ceo, doc>>
      /\ req[r].pc = "save_outcome"
      /\ req[r].seen # Expired
  BY DEF SaveOutcome, At
<1>2. d \in Departments /\ loaded \in Row /\ req[r].thread \in Thread
  BY <1>1, RequestTyped DEF RequestOK, Request, Snapshot
<1>3. rows[d] \in Row /\ rows \in [Departments -> Row]
  BY <1>2 DEF IInv, StoreOK, StoreTypeOK
<1>4. rows' = [rows EXCEPT ![d] = row]
  BY <1>3 DEF SaveOutcome
<1>5. eval \in Eval /\ eval.arbitration = loaded.eval.arbitration
  BY <1>2 DEF Row, Eval, Thread
<1>6. row \in Row /\ row.approval = rows[d].approval /\ row.eval = eval
  BY <1>3, <1>5 DEF Row
<1>7. row.eval.arbitration.interrupt_id # 0 => AllHeard
  <2>1. loaded # NotLoaded
    BY <1>2, NotLoadedIsNoRow
  <2>2. RequestHeard(req[r], AllHeard, needed, Published)
    BY RequestTyped
  <2>3. loaded.eval.arbitration.interrupt_id # 0 => AllHeard
    BY <1>2, <2>1, <2>2 DEF RequestHeard
  <2>4. row.eval.arbitration = loaded.eval.arbitration
    BY <1>5, <1>6
  <2> QED
    BY <2>3, <2>4
<1>8. q \in Request /\ RequestOK(q) /\ RequestHeard(q, AllHeard, needed, Published)
  BY FreshRequest
<1> QED
  BY <1>1, <1>2, <1>4, <1>6, <1>7, <1>8, RowStep

\* One iteration of the arbitration patch, with the request going on as q.
LEMMA PatchRowStep ==
  ASSUME IInv, NEW r \in Requests, NEW q \in Request,
         NEW d \in Departments, NEW interrupt_id \in Nat, NEW decision \in Decision,
         PatchRow(r, d, interrupt_id, decision), AllHeard,
         req' = [req EXCEPT ![r] = q],
         UNCHANGED <<status, needed, threads, ceo, doc>>,
         RequestOK(q), RequestHeard(q, AllHeard, needed, Published)
  PROVE  StoreOK' /\ RequestsOK'
<1> DEFINE loaded == req[r].seen[d].eval
           patched == [loaded EXCEPT
                         !.arbitration.present = TRUE,
                         !.arbitration.interrupt_id = interrupt_id,
                         !.arbitration.decision =
                           IF decision = "none" THEN @ ELSE decision]
           eval == Column(rows[d].eval, loaded, patched)
           row == [rows[d] EXCEPT !.eval = eval]
<1>1. rows[d] \in Row /\ rows \in [Departments -> Row]
  BY DEF IInv, StoreOK, StoreTypeOK
<1>2. CASE req[r].seen[d] = NotLoaded
  <2>1. UNCHANGED storeVars
    BY <1>2 DEF PatchRow, storeVars
  <2> QED
    BY <2>1, ReadStep
<1>3. CASE req[r].seen[d] # NotLoaded
  <2>1. rows' = [rows EXCEPT ![d] = row]
    BY <1>1, <1>3 DEF PatchRow
  <2>2. req[r].seen[d] \in Row
    BY <1>3, RequestTyped DEF Request, Snapshot
  <2>3. loaded \in Eval /\ loaded.arbitration \in Arbitration
    BY <2>2 DEF Row, Eval
  <2>4. patched \in Eval
    BY <2>3 DEF Eval, Arbitration, Decision
  <2>5. eval \in Eval
    BY <1>1, <2>4 DEF Column, Row
  <2>6. row \in Row /\ row.approval = rows[d].approval
    BY <1>1, <2>5 DEF Row
  <2> QED
    BY <2>1, <2>6, RowStep
<1> QED
  BY <1>2, <1>3

\* The interrupt of the CEO is stored row by row.
LEMMA SaveCeoInterruptStep ==
  ASSUME IInv, NEW r \in Requests, NEW d \in Departments, SaveCeoInterrupt(r, d)
  PROVE  StoreOK' /\ RequestsOK'
<1> DEFINE q == IF req[r].todo = {d} THEN IdleRequest
                ELSE [req[r] EXCEPT !.todo = @ \ {d}, !.seen = Expired]
<1>1. /\ PatchRow(r, d, req[r].interrupt_id, "none")
      /\ UNCHANGED <<status, needed, threads, ceo, doc>>
      /\ req[r].pc = "save_ceo_interrupt"
      /\ req' = [req EXCEPT ![r] = q]
  BY DEF SaveCeoInterrupt, At, IInv, RequestsOK
<1>2. AllHeard /\ req[r].interrupt_id \in Nat /\ "none" \in Decision
  BY <1>1, RequestTyped DEF RequestHeard, Request, Decision
<1>3. q \in Request /\ RequestOK(q) /\ RequestHeard(q, AllHeard, needed, Published)
  <2>1. CASE req[r].todo = {d}
    BY <2>1, IdleOK, IdleRequestType
  <2>2. CASE req[r].todo # {d}
    <3>1. /\ q \in Request /\ q.pc = "save_ceo_interrupt" /\ q.thread = req[r].thread
          /\ q.seen = Expired
      BY <1>1, <2>2, RequestTyped, ExpiredLoadsNothing DEF Request
    <3> QED
      BY <1>2, <3>1, RequestTyped, ExpiredLoadsNothing DEF RequestOK, RequestHeard
  <2> QED
    BY <2>1, <2>2
<1> QED
  BY <1>1, <1>2, <1>3, PatchRowStep

\* The decision of the CEO is stored row by row, then synthesis begins.
LEMMA SaveCeoDecisionStep ==
  ASSUME IInv, NEW r \in Requests, NEW d \in Departments, SaveCeoDecision(r, d)
  PROVE  StoreOK' /\ RequestsOK'
<1> DEFINE q == IF req[r].todo # {d}
                THEN [req[r] EXCEPT !.todo = @ \ {d}, !.seen = Expired]
                ELSE IF req[r].decision = "approved"
                THEN [IdleRequest EXCEPT !.pc = "synthesize"]
                ELSE IdleRequest
<1>1. /\ PatchRow(r, d, 0, req[r].decision)
      /\ UNCHANGED <<status, needed, threads, ceo, doc>>
      /\ req[r].pc = "save_ceo_decision"
      /\ req' = [req EXCEPT ![r] = q]
  BY DEF SaveCeoDecision, At, IInv, RequestsOK
<1>2. AllHeard /\ 0 \in Nat /\ req[r].decision \in Decision
  BY <1>1, RequestTyped DEF RequestHeard, Request
<1>3. q \in Request /\ RequestOK(q) /\ RequestHeard(q, AllHeard, needed, Published)
  <2>1. CASE req[r].todo # {d}
    <3>1. /\ q \in Request /\ q.pc = "save_ceo_decision" /\ q.thread = req[r].thread
          /\ q.seen = Expired
      BY <1>1, <2>1, RequestTyped, ExpiredLoadsNothing DEF Request
    <3> QED
      BY <1>2, <3>1, RequestTyped, ExpiredLoadsNothing DEF RequestOK, RequestHeard
  <2>2. CASE req[r].todo = {d} /\ req[r].decision = "approved"
    BY <1>2, <2>2, FreshRequest
  <2>3. CASE req[r].todo = {d} /\ req[r].decision # "approved"
    BY <2>3, IdleOK, IdleRequestType
  <2> QED
    BY <2>1, <2>2, <2>3
<1> QED
  BY <1>1, <1>2, <1>3, PatchRowStep

-----------------------------------------------------------------------------
(* Steps that write the document and the status *)

\* The document prints every section the ticket needs, all of them heard.
LEMMA SaveDocumentStep ==
  ASSUME IInv, NEW r \in Requests, SaveDocument(r)
  PROVE  StoreOK' /\ RequestsOK' /\ Published' /\ status' = status
<1> DEFINE q == [IdleRequest EXCEPT !.pc = "complete"]
           printed == {d \in needed : req[r].seen[d] # NotLoaded}
           drafts == [d \in Departments |->
                        IF d \in printed THEN req[r].seen[d].draft ELSE NullDraft]
           stamped == {d \in printed : req[r].seen[d].approval # "pending"}
<1>1. /\ req' = [req EXCEPT ![r] = q]
      /\ UNCHANGED <<status, needed, rows, threads, ceo>>
      /\ req[r].pc = "save_document"
      /\ doc' = [version |-> doc.version + 1, drafts |-> drafts,
                 stamped |-> stamped, ceo_line |-> req[r].ceo_line]
  BY DEF SaveDocument, At
<1>2. needed \subseteq Departments /\ doc.version \in Nat /\ req[r].ceo_line \in BOOLEAN
  BY RequestTyped DEF IInv, StoreOK, StoreTypeOK, Request
<1>3. drafts \in [Departments -> Nat]
  <2> SUFFICES ASSUME NEW d \in Departments PROVE drafts[d] \in Nat
    OBVIOUS
  <2>1. req[r].seen[d] # NotLoaded => req[r].seen[d] \in Row
    BY RequestTyped DEF Snapshot
  <2> QED
    BY <2>1 DEF Row, NullDraft
<1>4. stamped = needed
  BY <1>1, RequestTyped DEF RequestHeard
<1>5. /\ doc' \in [version : Nat, drafts : [Departments -> Nat],
                   stamped : SUBSET Departments, ceo_line : BOOLEAN]
      /\ doc'.version > 0 /\ doc'.stamped = needed
  BY <1>1, <1>2, <1>3, <1>4
<1>6. StoreTypeOK'
  BY <1>1, <1>5 DEF IInv, StoreOK, StoreTypeOK
<1>7. Published' /\ DoneIsComplete' /\ AllHeard' = AllHeard
  BY <1>1, <1>5 DEF Published, DoneIsComplete, AllHeard
<1>8. RowsHeard' /\ ThreadsOK' /\ status' \in Approving /\ DOMAIN rows' = Departments
  BY <1>1, <1>7 DEF IInv, StoreOK, RowsHeard, ThreadsOK
<1>9. RequestsOK'
  <2>1. q \in Request /\ RequestOK(q) /\ RequestHeard(q, AllHeard', needed, Published')
    BY <1>7, FreshRequest
  <2> QED
    BY <1>1, <1>7, <2>1, RequestsKept DEF IInv
<1> QED
  BY <1>1, <1>6, <1>7, <1>8, <1>9 DEF StoreOK

\* The ticket is completed with the document there.
LEMMA CompleteStep ==
  ASSUME IInv, NEW r \in Requests, Complete(r)
  PROVE  /\ StoreOK' /\ RequestsOK'
         /\ Published /\ doc' = doc
         /\ status' = status \/ (CanUpdateStatus("done") /\ status' = "done")
<1>1. /\ req' = [req EXCEPT ![r] = IdleRequest]
      /\ UNCHANGED <<needed, rows, threads, ceo, doc>>
      /\ req[r].pc = "complete"
      /\ status' = status \/ (CanUpdateStatus("done") /\ status' = "done")
  BY DEF Complete, Finish, At
<1>2. Published
  BY <1>1, RequestTyped DEF RequestHeard
<1>3. status' \in Approving /\ Published' = Published /\ AllHeard' = AllHeard
  BY <1>1 DEF IInv, StoreOK, Approving, Published, AllHeard
<1>4. StoreTypeOK'
  BY <1>1, <1>3 DEF IInv, StoreOK, StoreTypeOK, Approving, RFP_STATUSES
<1>5. DoneIsComplete' /\ RowsHeard' /\ ThreadsOK' /\ DOMAIN rows' = Departments
  BY <1>1, <1>2, <1>3
  DEF IInv, StoreOK, DoneIsComplete, Published, RowsHeard, ThreadsOK
<1>6. RequestsOK'
  <2>1. RequestHeard(IdleRequest, AllHeard', needed, Published')
    BY <1>3, IdleOK
  <2> QED
    BY <1>1, <1>3, <2>1, IdleOK, IdleRequestType, RequestsKept DEF IInv
<1> QED
  BY <1>1, <1>2, <1>3, <1>4, <1>5, <1>6 DEF StoreOK

-----------------------------------------------------------------------------
(* Every step *)

\* A request that dies leaves what it committed.
LEMMA RequestDiesStep ==
  ASSUME IInv, NEW r \in Requests, RequestDies(r)
  PROVE  StoreOK' /\ RequestsOK'
BY FinishStep DEF RequestDies

\* Each step of a request under way.
LEMMA ProceedStep ==
  ASSUME IInv, NEW r \in Requests, Proceed(r)
  PROVE  StoreOK' /\ RequestsOK'
<1>1. CASE ReadRows(r)
  BY <1>1, ReadRowsStep
<1>2. CASE LoadThread(r)
  BY <1>2, LoadThreadStep
<1>3. CASE ResumeEnds(r)
  BY <1>3, ResumeEndsStep
<1>4. CASE ResumeReworks(r)
  BY <1>4, ResumeReworksStep
<1>5. CASE ResumeContinues(r)
  BY <1>5, ResumeContinuesStep
<1>6. CASE ResumeMismatches(r)
  BY <1>6, ResumeMismatchesStep
<1>7. CASE ResumeReturns(r)
  BY <1>7, ResumeReturnsStep
<1>8. CASE Regen(r)
  BY <1>8, RegenStep
<1>9. CASE SaveRegen(r)
  BY <1>9, SaveRegenStep
<1>10. CASE SaveApproval(r)
  BY <1>10, SaveApprovalStep
<1>11. CASE SaveOutcome(r)
  BY <1>11, SaveOutcomeStep
<1>12. CASE Finalize(r)
  BY <1>12, FinalizeStep
<1>13. CASE StartCeo(r)
  BY <1>13, StartCeoStep
<1>14. CASE LoadCeo(r)
  BY <1>14, LoadCeoStep
<1>15. CASE ResumeCeo(r)
  BY <1>15, ResumeCeoStep
<1>16. CASE SynthesizeAfterCeo(r)
  BY <1>16, SynthesizeAfterCeoStep
<1>17. CASE SaveDocument(r)
  BY <1>17, SaveDocumentStep
<1>18. CASE Complete(r)
  BY <1>18, CompleteStep
<1>19. ASSUME NEW d \in Departments, SaveCeoInterrupt(r, d) PROVE StoreOK' /\ RequestsOK'
  BY <1>19, SaveCeoInterruptStep
<1>20. ASSUME NEW d \in Departments, SaveCeoDecision(r, d) PROVE StoreOK' /\ RequestsOK'
  BY <1>20, SaveCeoDecisionStep
<1> QED
  BY <1>1, <1>2, <1>3, <1>4, <1>5, <1>6, <1>7, <1>8, <1>9, <1>10, <1>11, <1>12,
     <1>13, <1>14, <1>15, <1>16, <1>17, <1>18, <1>19, <1>20
  DEF Proceed

\* Each way a request begins.
LEMMA DecideStep ==
  ASSUME IInv, NEW r \in Requests, Decide(r)
  PROVE  StoreOK' /\ RequestsOK'
BY DecideSectionStep, DecideCeoStep DEF Decide

\* The bounds are counted up only by the steps they bound.
LEMMA BoundsStep == IInv /\ Next => BoundsOK'
<1> SUFFICES ASSUME IInv, NEW r \in Requests, Decide(r) \/ Proceed(r) \/ RequestDies(r)
             PROVE  BoundsOK'
  BY DEF Next
<1>1. CASE Decide(r)
  <2>1. Accept(r) /\ deaths' = deaths
    BY <1>1 DEF Decide, DecideSection, DecideCeo
  <2>2. decisions \in 0 .. MaxDecisions /\ deaths \in 0 .. MaxDeaths
    BY DEF IInv, BoundsOK
  <2>3. decisions' = decisions + 1 /\ decisions < MaxDecisions
    BY <2>1 DEF Accept
  <2> QED
    BY <2>1, <2>2, <2>3, DecisionsAssumption DEF BoundsOK
<1>2. CASE RequestDies(r)
  BY <1>2, DecisionsAssumption DEF RequestDies, IInv, BoundsOK
<1>3. CASE Proceed(r)
  <2>1. UNCHANGED bounds
    BY <1>3
    DEF Proceed, ReadRows, LoadThread, ResumeEnds, ResumeReworks, ResumeContinues,
        ResumeMismatches, ResumeReturns, Regen, SaveRegen, SaveApproval, SaveOutcome,
        Finalize, StartCeo, SaveCeoInterrupt, SaveCeoDecision, SaveDocument, Complete,
        LoadCeo, ResumeCeo, SynthesizeAfterCeo
  <2> QED
    BY <2>1 DEF bounds, IInv, BoundsOK
<1> QED
  BY <1>1, <1>2, <1>3

\* A stuttering step.
LEMMA StutterStep == IInv /\ UNCHANGED vars => IInv'
<1> SUFFICES ASSUME IInv, UNCHANGED vars PROVE IInv'
  OBVIOUS
<1>1. UNCHANGED storeVars /\ req' = req /\ UNCHANGED bounds
  BY DEF vars
<1>2. StoreOK' /\ needed' = needed /\ AllHeard' = AllHeard /\ Published' = Published
  BY <1>1, StoreSame DEF IInv
<1>3. RequestsOK'
  BY <1>1, <1>2 DEF IInv, RequestsOK
<1> QED
  BY <1>1, <1>2, <1>3 DEF IInv, bounds, BoundsOK

\* The invariant is inductive.
LEMMA InvariantStep == IInv /\ [Next]_vars => IInv'
<1>1. IInv /\ Next => StoreOK' /\ RequestsOK'
  BY DecideStep, ProceedStep, RequestDiesStep DEF Next
<1> QED
  BY <1>1, BoundsStep, StutterStep DEF IInv

\* A ticket whose approval process_rfp_approval has just started.
LEMMA InitIInv == Init => IInv
<1> SUFFICES ASSUME Init PROVE IInv
  OBVIOUS
<1>1. PICK required \in BOOLEAN, forced \in SUBSET Departments :
        rows = [d \in Departments |->
                  [draft |-> FirstDraft, approval |-> "pending",
                   eval |-> [EmptyEval EXCEPT
                               !.forced = d \in forced, !.interrupt_id = 1,
                               !.arbitration = [NoArbitration EXCEPT
                                  !.present = TRUE, !.required = required]]]]
  BY DEF Init, StartedApproval
<1>2. rows \in [Departments -> Row]
  <2> SUFFICES ASSUME NEW d \in Departments PROVE rows[d] \in Row
    BY <1>1
  <2> DEFINE arbitration == [NoArbitration EXCEPT !.present = TRUE,
                                                  !.required = required]
             eval == [EmptyEval EXCEPT !.forced = d \in forced, !.interrupt_id = 1,
                                       !.arbitration = arbitration]
  <2>1. arbitration \in Arbitration
    BY DEF NoArbitration, Arbitration, Decision
  <2>2. (d \in forced) \in BOOLEAN
    OBVIOUS
  <2>3. eval \in Eval
    BY <2>1, <2>2 DEF Eval, EmptyEval
  <2>4. rows[d] = [draft |-> FirstDraft, approval |-> "pending", eval |-> eval]
    BY <1>1
  <2> HIDE DEF eval
  <2> QED
    BY <2>3, <2>4 DEF Row, FirstDraft
<1>3. DOMAIN rows = Departments
  BY <1>1
<1>4. RowsHeard
  <2>1. \A d \in Departments : rows[d].eval.arbitration.interrupt_id = 0
    BY <1>1 DEF EmptyEval, NoArbitration
  <2> QED
    BY <2>1 DEF RowsHeard
<1>5. threads \in [Departments -> Thread] /\ ThreadsOK
  <2>1. threads = [d \in Departments |-> StartedThread(NewThread, FirstDraft)]
    BY DEF Init, StartedApproval
  <2>2. /\ StartedThread(NewThread, FirstDraft) \in Thread
        /\ StartedThread(NewThread, FirstDraft).next = "approve"
    BY StoreAssumption DEF StartedThread, NewThread, Thread, FirstDraft
  <2>3. threads \in [Departments -> Thread]
    BY <2>1, <2>2
  <2>4. \A d \in Departments : threads[d].next = "approve"
    BY <2>1, <2>2
  <2> QED
    BY <2>3, <2>4 DEF ThreadsOK
<1>6. ceo \in CeoThread
  BY DEF Init, StartedApproval, NewCeoThread, CeoThread, Decision
<1>7. /\ doc \in [version : Nat, drafts : [Departments -> Nat],
                  stamped : SUBSET Departments, ceo_line : BOOLEAN]
      /\ doc.version = 0
  BY DEF Init, StartedApproval, NoDoc, NullDraft
<1>8. status = "waiting_for_approval" /\ needed = Departments
  BY DEF Init, StartedApproval
<1>9. StoreOK
  BY <1>2, <1>3, <1>4, <1>5, <1>6, <1>7, <1>8
  DEF StoreOK, StoreTypeOK, RFP_STATUSES, Approving, DoneIsComplete
<1>10. BoundsOK
  BY DecisionsAssumption DEF Init, DecisionsInit, BoundsOK
<1>11. RequestsOK
  BY IdleOK, IdleRequestType DEF Init, DecisionsInit, RequestsOK
<1> QED
  BY <1>9, <1>10, <1>11 DEF IInv

\* Every behaviour of the decisions keeps the inductive invariant.
THEOREM Invariance == Spec => []IInv
<1> QED
  BY InitIInv, InvariantStep, PTL DEF Spec

\* The stores and the requests keep their types, whatever overlaps: no snapshot,
\* draft or interrupt a request goes by is missing when it is written back.
THEOREM TypeCorrect == Spec => []TypeOK
<1>1. IInv => TypeOK
  BY DEF IInv, StoreOK, BoundsOK, RequestsOK, TypeOK
<1> QED
  BY <1>1, Invariance, PTL

\* However the last decisions overlap, a document is made of sections that came
\* to an end, and a ticket that is done has its document.
THEOREM DoneStaysComplete == Spec => []DoneIsComplete
<1>1. IInv => DoneIsComplete
  BY DEF IInv, StoreOK
<1> QED
  BY <1>1, Invariance, PTL

-----------------------------------------------------------------------------
(* Refinement *)

\* Of the status and the document, most steps touch neither.
LEMMA QuietStep ==
  ASSUME NEW r \in Requests,
         Decide(r) \/ Proceed(r) \/ RequestDies(r),
         ~SaveDocument(r), ~Complete(r)
  PROVE  UNCHANGED <<status, doc>>
BY DEF Decide, Proceed, RequestDies, storeVars, DecideSection, DecideCeo, ReadRows,
       LoadThread, ResumeEnds, ResumeReworks, ResumeContinues, ResumeMismatches,
       ResumeReturns, Regen, SaveRegen, SaveApproval, SaveOutcome, Finalize, StartCeo,
       SaveCeoInterrupt, SaveCeoDecision, LoadCeo, ResumeCeo, SynthesizeAfterCeo

\* Every step is one of the lifecycle of the ticket, or stutters.
LEMMA LifecycleStep ==
  IInv /\ [Next]_vars => [Lifecycle!Next]_<<status, Published>>
<1> SUFFICES ASSUME IInv, [Next]_vars PROVE [Lifecycle!Next]_<<status, Published>>
  OBVIOUS
<1>1. CASE UNCHANGED vars
  BY <1>1 DEF vars, storeVars, Published
<1>2. ASSUME NEW r \in Requests, SaveDocument(r)
      PROVE  [Lifecycle!Next]_<<status, Published>>
  <2>1. Published' /\ status' = status
    BY <1>2, SaveDocumentStep
  <2>2. /\ Published' \in BOOLEAN /\ Published \in BOOLEAN
        /\ Published \/ status = "waiting_for_approval"
    BY DEF IInv, StoreOK, DoneIsComplete, Published, Approving
  <2>3. CASE Published
    BY <2>1, <2>2, <2>3
  <2>4. CASE ~Published
    <3>1. Lifecycle!Publish
      BY <2>1, <2>2, <2>4 DEF Lifecycle!Publish
    <3> QED
      BY <3>1 DEF Lifecycle!Next
  <2> QED
    BY <2>3, <2>4
<1>3. ASSUME NEW r \in Requests, Complete(r)
      PROVE  [Lifecycle!Next]_<<status, Published>>
  <2>1. /\ Published /\ Published' = Published
        /\ status' = status \/ (CanUpdateStatus("done") /\ status' = "done")
    BY <1>3, CompleteStep DEF Published
  <2>2. CASE status' = status
    BY <2>1, <2>2
  <2>3. CASE CanUpdateStatus("done") /\ status' = "done"
    <3>1. Lifecycle!validate_transition(status, "done") /\ "done" \in Lifecycle!RFP_STATUSES
      BY <2>3
      DEF CanUpdateStatus, validate_transition, Lifecycle!validate_transition,
          RFP_STATUSES, Lifecycle!RFP_STATUSES, RFP_ALLOWED_TRANSITIONS,
          Lifecycle!RFP_ALLOWED_TRANSITIONS
    <3>2. Lifecycle!Advance
      BY <2>1, <2>3, <3>1 DEF Lifecycle!Advance
    <3> QED
      BY <3>2 DEF Lifecycle!Next
  <2> QED
    BY <2>1, <2>2, <2>3
<1>4. ASSUME NEW r \in Requests,
             Decide(r) \/ Proceed(r) \/ RequestDies(r),
             ~SaveDocument(r), ~Complete(r)
      PROVE  [Lifecycle!Next]_<<status, Published>>
  <2>1. status' = status /\ Published' = Published
    BY <1>4, QuietStep DEF Published
  <2> QED
    BY <2>1
<1> QED
  BY <1>1, <1>2, <1>3, <1>4 DEF Next

\* Deciding follows the lifecycle of the ticket: it completes one that waits for
\* approval, and only with its document saved.
THEOREM DecisionsImplementLifecycle == Spec => ImplementsLifecycle
<1> QED
  BY Invariance, LifecycleStep, PTL DEF Spec, ImplementsLifecycle

-----------------------------------------------------------------------------
(* What follows from the lifecycle alone, for whatever implements it.      *)

\* The statuses the table leads to, and from where.
LEMMA Transitions ==
  ASSUME NEW current, NEW target, validate_transition(current, target)
  PROVE  /\ current \in RFP_STATUSES /\ target \in RFP_STATUSES
         /\ current \notin {"discarded", "done"}
         /\ current = "waiting_for_approval" <=> target = "done"
<1>1. current \in RFP_STATUSES /\ target \in RFP_STATUSES
  BY DEF validate_transition
<1>2. target \in RFP_ALLOWED_TRANSITIONS[current]
  BY DEF validate_transition
<1>3. \/ current = "analyzing" /\ target \in {"discarded", "intake_complete"}
      \/ current = "intake_complete" /\ target = "drafting"
      \/ current = "drafting" /\ target = "under_evaluation"
      \/ current = "under_evaluation" /\ target = "waiting_for_approval"
      \/ current = "waiting_for_approval" /\ target = "done"
  BY <1>1, <1>2 DEF RFP_STATUSES, RFP_ALLOWED_TRANSITIONS
<1> QED
  BY <1>1, <1>3

LifecycleInv ==
  Lifecycle!TypeOK /\ Lifecycle!PublishedOnlyInApproval /\ Lifecycle!DoneIsPublished

LEMMA LifecycleKept ==
  LifecycleInv /\ [Lifecycle!Next]_<<status, Published>> => LifecycleInv'
<1> SUFFICES ASSUME LifecycleInv, [Lifecycle!Next]_<<status, Published>>
             PROVE  LifecycleInv'
  OBVIOUS
<1> USE DEF LifecycleInv, Lifecycle!TypeOK, Lifecycle!PublishedOnlyInApproval,
            Lifecycle!DoneIsPublished, Lifecycle!Approving, Approving
<1>1. CASE Lifecycle!Create
  BY <1>1 DEF Lifecycle!Create, Lifecycle!RFP_STATUSES, Lifecycle!Absent
<1>2. CASE Lifecycle!Advance
  BY <1>2, Transitions
  DEF Lifecycle!Advance, Lifecycle!validate_transition, validate_transition,
      Lifecycle!RFP_STATUSES, RFP_STATUSES, Lifecycle!RFP_ALLOWED_TRANSITIONS,
      RFP_ALLOWED_TRANSITIONS
<1>3. CASE Lifecycle!Publish
  BY <1>3 DEF Lifecycle!Publish
<1>4. CASE UNCHANGED <<status, Published>>
  BY <1>4
<1> QED
  BY <1>1, <1>2, <1>3, <1>4 DEF Lifecycle!Next

\* A ticket has a final document only once it waits for approval, and it is
\* done only when it has one: no sequence of status writes the table allows
\* takes a published ticket back, or completes one without its document.
THEOREM DocumentFollowsLifecycle ==
  Spec => [](Lifecycle!PublishedOnlyInApproval /\ Lifecycle!DoneIsPublished)
<1>1. Init => LifecycleInv
  <2> SUFFICES ASSUME Init PROVE LifecycleInv
    OBVIOUS
  <2>1. status = "waiting_for_approval" /\ doc = NoDoc
    BY DEF Init, StartedApproval
  <2>2. Published = FALSE
    BY <2>1 DEF Published, NoDoc
  <2> QED
    BY <2>1, <2>2
    DEF LifecycleInv, Lifecycle!TypeOK, Lifecycle!RFP_STATUSES, Lifecycle!Approving,
        Lifecycle!PublishedOnlyInApproval, Lifecycle!DoneIsPublished
<1>2. LifecycleInv => Lifecycle!PublishedOnlyInApproval /\ Lifecycle!DoneIsPublished
  BY DEF LifecycleInv
<1> QED
  BY <1>1, <1>2, LifecycleKept, DecisionsImplementLifecycle, PTL DEF Spec, ImplementsLifecycle

-----------------------------------------------------------------------------
(***************************************************************************)
(* Requests that come one after the other, any of which may die half-way:  *)
(* what the row, the checkpoint and the document of a section have in      *)
(* common, which is what overlapping requests can break.  Alone is that    *)
(* condition, on a behaviour; the requests, the departments and the bounds *)
(* are as many as one likes.                                               *)
(***************************************************************************)

\* One request at a time.
Alone ==
  \A r, s \in Requests : ~At(r, "idle") /\ ~At(s, "idle") => r = s

-----------------------------------------------------------------------------
(* The inductive invariant *)

\* A checkpoint counts its interrupts, and pauses at the last one.
ThreadFits(t) ==
  /\ t.next # "new"
  /\ t.issued = t.rework + 1
  /\ t.next = "approve" => t.id = t.issued
  /\ t.next = "end" <=> t.outcome # "none"

\* A row and its checkpoint.
RowFits(row, t) ==
  /\ row.eval.interrupt_id <= t.issued
  /\ t.next = "approve" /\ t.id = row.eval.interrupt_id => t.draft = row.draft
  /\ t.next = "end" => t.draft = row.draft
  /\ row.approval # "pending" => t.next = "end"
  /\ row.eval.interrupt_id # 0 \/ dept_is_terminal(row)
  /\ row.eval.arbitration.present

\* What a document was made of stays as it was printed.
DocFits ==
  doc.version > 0 =>
    /\ CeoRequired => doc.ceo_line
    /\ \A d \in Departments :
         doc.drafts[d] = rows[d].draft /\ threads[d].next = "end"

\* Every row says alike whether the CEO is asked, and a document is the one
\* these rows make.
StoreFits ==
  /\ needed = Departments
  /\ \A d \in Departments : ThreadFits(threads[d]) /\ RowFits(rows[d], threads[d])
  /\ \A d, e \in Departments :
       rows[d].eval.arbitration.required = rows[e].eval.arbitration.required
  /\ ceo.next = "new" => ceo.id = 0
  /\ DocFits

Deciding == {"load_thread", "resume", "regen", "save_regen", "save_approval", "save_outcome"}
AskingCeo == {"start_ceo", "save_ceo_interrupt", "load_ceo", "resume_ceo", "save_ceo_decision"}

\* The outcome of a thread as update_department_section_approval records it.
Recorded(t) == IF t.outcome = "approved" THEN "approved" ELSE "rejected"

\* A request on a section goes by the row and the checkpoint there are.
DecidesOn(q, row, t) ==
  /\ row.eval.interrupt_id # 0
  /\ q.pc \in {"load_thread", "resume"} => q.interrupt_id = row.eval.interrupt_id
  /\ q.pc \in {"resume", "save_regen", "save_approval", "save_outcome"} => q.thread = t
  /\ q.pc = "regen" =>
       t.next = "regen" /\ q.thread.draft = t.draft /\ q.thread.rework = t.rework
  /\ q.pc = "save_regen" => t.next = "approve" /\ q.interrupt_id = t.id
  /\ q.pc \in {"save_approval", "save_outcome"} => t.next = "end"
  /\ q.pc = "save_outcome" => row.approval = Recorded(t)

\* A request of the CEO goes by the rows and the checkpoint there are, and has
\* patched the rows it has no longer to do.
AsksCeo(q, sections, boss) ==
  /\ q.pc \in AskingCeo =>
       q.seen = Expired \/ \A d \in Departments : q.seen[d] = sections[d]
  /\ q.pc \in {"load_ceo", "resume_ceo"} => q.interrupt_id # 0
  /\ q.pc = "resume_ceo" => q.ceo = boss
  /\ q.pc = "save_ceo_decision" /\ q.decision = "approved" =>
       /\ boss.decision = "approved"
       /\ \A d \in Departments \ q.todo :
            sections[d].eval.arbitration.decision = "approved"

\* A document is made of sections that were heard, and when the CEO is asked,
\* only after the approval, which it then prints.
Prints(q, sections) ==
  /\ q.pc = "synthesize" =>
       \A d \in Departments : sections[d].eval.arbitration.decision = "approved"
  /\ q.pc = "save_document" =>
       /\ \A d \in Departments : sections[d].approval # "pending"
       /\ (\E d \in Departments : sections[d].eval.arbitration.required)
            => /\ \E d \in Departments : sections[d].eval.arbitration.decision = "approved"
               /\ q.ceo_line

\* What a request under way has read is what is there.
RequestFits(q, state, sections, checkpoints, boss) ==
  q.pc # "idle" =>
    /\ state # "done"
    /\ \A d \in Departments : q.seen[d] \in {NotLoaded, sections[d]}
    /\ q.pc \in Deciding => DecidesOn(q, sections[q.dept], checkpoints[q.dept])
    /\ AsksCeo(q, sections, boss)
    /\ Prints(q, sections)

RequestsFit == \A r \in Requests : RequestFits(req[r], status, rows, threads, ceo)

SInv == StoreFits /\ RequestsFit

-----------------------------------------------------------------------------
(* What a step has to keep *)

\* No other request is under way.
OthersIdle(r) == \A s \in Requests \ {r} : At(s, "idle")

\* The types the store has, in the shape the steps need them.
LEMMA StoreTyped ==
  ASSUME IInv
  PROVE  /\ rows \in [Departments -> Row] /\ DOMAIN rows = Departments
         /\ threads \in [Departments -> Thread] /\ ceo \in CeoThread
         /\ doc.version \in Nat /\ req \in [Requests -> Request]
BY DEF IInv, StoreOK, StoreTypeOK, RequestsOK

\* A step of the only request under way keeps the invariant when it keeps what
\* relates the stores, and what this request has read.
LEMMA Fits ==
  ASSUME IInv, NEW r \in Requests, OthersIdle(r), NEW q,
         req' = [req EXCEPT ![r] = q], StoreFits',
         RequestFits(q, status', rows', threads', ceo')
  PROVE  SInv'
<1>1. ASSUME NEW s \in Requests
      PROVE  RequestFits(req'[s], status', rows', threads', ceo')
  <2>1. CASE s = r
    BY <2>1, StoreTyped
  <2>2. CASE s # r
    <3>1. req'[s] = req[s] /\ req[s].pc = "idle"
      BY <2>2, StoreTyped DEF OthersIdle, At
    <3> QED
      BY <3>1 DEF RequestFits
  <2> QED
    BY <2>1, <2>2
<1> QED
  BY <1>1 DEF SInv, RequestsFit

\* A step that leaves the store alone.
LEMMA StoreFitsSame ==
  ASSUME StoreFits, UNCHANGED storeVars
  PROVE  StoreFits'
BY DEF StoreFits, DocFits, CeoRequired, storeVars, ThreadFits, RowFits, dept_is_terminal

\* A request that only reads.
LEMMA ReadFits ==
  ASSUME IInv, SInv, NEW r \in Requests, OthersIdle(r), NEW q,
         req' = [req EXCEPT ![r] = q], UNCHANGED storeVars,
         RequestFits(q, status, rows, threads, ceo)
  PROVE  SInv'
<1>1. StoreFits'
  BY StoreFitsSame DEF SInv
<1>2. RequestFits(q, status', rows', threads', ceo')
  BY DEF storeVars
<1> QED
  BY <1>1, <1>2, Fits

\* A request that is not under way has read nothing.
LEMMA IdleFits ==
  ASSUME NEW state, NEW sections, NEW checkpoints, NEW boss
  PROVE  RequestFits(IdleRequest, state, sections, checkpoints, boss)
BY IdleRequestType DEF RequestFits

\* A request that ends with the store as it is.
LEMMA FinishFits ==
  ASSUME IInv, SInv, NEW r \in Requests, OthersIdle(r), Finish(r), UNCHANGED storeVars
  PROVE  SInv'
BY IdleFits, ReadFits DEF Finish

\* What the invariant says of the request that takes a step.
LEMMA RequestRead ==
  ASSUME IInv, SInv, NEW r \in Requests, req[r].pc # "idle"
  PROVE  /\ req[r] \in Request /\ req[r].seen \in Snapshot
         /\ status # "done"
         /\ \A d \in Departments : req[r].seen[d] \in {NotLoaded, rows[d]}
         /\ req[r].pc \in Deciding =>
              /\ req[r].dept \in Departments
              /\ DecidesOn(req[r], rows[req[r].dept], threads[req[r].dept])
         /\ AsksCeo(req[r], rows, ceo)
         /\ Prints(req[r], rows)
<1>1. RequestFits(req[r], status, rows, threads, ceo)
  BY DEF SInv, RequestsFit
<1>2. req[r] \in Request /\ req[r].seen \in Snapshot /\ RequestOK(req[r])
  BY RequestTyped
<1> QED
  BY <1>1, <1>2 DEF RequestFits, RequestOK, Deciding

-----------------------------------------------------------------------------
(* Steps that only read the store *)

\* The first read after a commit loads the rows there are.
LEMMA ReadRowsFits ==
  ASSUME IInv, SInv, NEW r \in Requests, OthersIdle(r), ReadRows(r)
  PROVE  SInv'
<1> DEFINE q == [req[r] EXCEPT !.seen = Loaded(Departments)]
<1>1. req' = [req EXCEPT ![r] = q] /\ UNCHANGED storeVars
  BY StoreTyped DEF ReadRows
<1>2. \A d \in Departments : Loaded(Departments)[d] = rows[d]
  BY LoadedRows DEF IInv
<1>3. req[r].pc # "idle" /\ req[r].pc # "synthesize" /\ req[r].pc # "save_document"
  BY DEF ReadRows
<1>4. /\ q.pc = req[r].pc /\ q.seen = Loaded(Departments) /\ q.dept = req[r].dept
      /\ q.interrupt_id = req[r].interrupt_id /\ q.thread = req[r].thread
      /\ q.ceo = req[r].ceo /\ q.decision = req[r].decision /\ q.todo = req[r].todo
  BY <1>3, RequestRead DEF Request
<1>5. q.pc \in Deciding => DecidesOn(q, rows[q.dept], threads[q.dept])
  BY <1>3, <1>4, RequestRead DEF DecidesOn
<1>6. AsksCeo(q, rows, ceo)
  BY <1>2, <1>3, <1>4, RequestRead DEF AsksCeo
<1>7. RequestFits(q, status, rows, threads, ceo)
  BY <1>2, <1>3, <1>4, <1>5, <1>6, RequestRead DEF RequestFits, Prints
<1> QED
  BY <1>1, <1>7, ReadFits

\* A decision on a section begins with its row and the interrupt of this row.
LEMMA DecideSectionFits ==
  ASSUME IInv, SInv, NEW r \in Requests, OthersIdle(r),
         NEW d \in Departments, NEW action \in Actions, DecideSection(r, d, action)
  PROVE  SInv'
<1> DEFINE q == [IdleRequest EXCEPT !.pc = "load_thread", !.dept = d,
                                    !.action = action, !.seen = Loaded({d}),
                                    !.interrupt_id = rows[d].eval.interrupt_id]
<1>1. /\ req' = [req EXCEPT ![r] = q] /\ UNCHANGED storeVars
      /\ status = "waiting_for_approval" /\ rows[d].eval.interrupt_id # 0
  BY DEF DecideSection, Accept
<1>2. /\ Loaded({d})[d] = rows[d]
      /\ \A e \in Departments \ {d} : Loaded({d})[e] = NotLoaded
  BY LoadedRows DEF IInv
<1>3. /\ q.pc = "load_thread" /\ q.dept = d /\ q.seen = Loaded({d})
      /\ q.interrupt_id = rows[d].eval.interrupt_id
  BY IdleRequestType DEF Request, IdleRequest
<1>4. RequestFits(q, status, rows, threads, ceo)
  BY <1>1, <1>2, <1>3 DEF RequestFits, DecidesOn, AsksCeo, Prints, AskingCeo
<1> QED
  BY <1>1, <1>4, ReadFits

\* A decision of the CEO begins with every row loaded.
LEMMA DecideCeoFits ==
  ASSUME IInv, SInv, NEW r \in Requests, OthersIdle(r), NEW action \in Actions,
         DecideCeo(r, action)
  PROVE  SInv'
<1>1. PICK arbitration \in ArbitrationOf(rows) :
        /\ arbitration.interrupt_id # 0
        /\ req' = [req EXCEPT ![r] =
                     [IdleRequest EXCEPT !.pc = "load_ceo", !.action = action,
                                         !.seen = Loaded(Departments),
                                         !.interrupt_id = arbitration.interrupt_id]]
  BY DEF DecideCeo
<1> DEFINE q == [IdleRequest EXCEPT !.pc = "load_ceo", !.action = action,
                                    !.seen = Loaded(Departments),
                                    !.interrupt_id = arbitration.interrupt_id]
<1>2. UNCHANGED storeVars /\ status = "waiting_for_approval"
  BY DEF DecideCeo, Accept
<1>3. \A d \in Departments : Loaded(Departments)[d] = rows[d]
  BY LoadedRows DEF IInv
<1>4. /\ q.pc = "load_ceo" /\ q.seen = Loaded(Departments)
      /\ q.interrupt_id = arbitration.interrupt_id
  BY IdleRequestType DEF Request, IdleRequest
<1>5. RequestFits(q, status, rows, threads, ceo)
  BY <1>1, <1>2, <1>3, <1>4 DEF RequestFits, AsksCeo, Prints, Deciding
<1> QED
  BY <1>1, <1>2, <1>5, ReadFits

\* The checkpoint a request loads is the one its row names.
LEMMA LoadThreadFits ==
  ASSUME IInv, SInv, NEW r \in Requests, OthersIdle(r), LoadThread(r)
  PROVE  SInv'
<1> DEFINE q == [req[r] EXCEPT !.pc = "resume", !.thread = threads[req[r].dept]]
<1>1. req' = [req EXCEPT ![r] = q] /\ UNCHANGED storeVars /\ req[r].pc = "load_thread"
  BY StoreTyped DEF LoadThread, At
<1>2. /\ q.pc = "resume" /\ q.seen = req[r].seen /\ q.dept = req[r].dept
      /\ q.interrupt_id = req[r].interrupt_id /\ q.thread = threads[req[r].dept]
  BY <1>1, RequestRead DEF Request
<1>3. RequestFits(q, status, rows, threads, ceo)
  BY <1>1, <1>2, RequestRead
  DEF RequestFits, DecidesOn, AsksCeo, Prints, Deciding, AskingCeo
<1> QED
  BY <1>1, <1>3, ReadFits

\* A thread left before its regen is regenerated.
LEMMA ResumeContinuesFits ==
  ASSUME IInv, SInv, NEW r \in Requests, OthersIdle(r), ResumeContinues(r)
  PROVE  SInv'
<1> DEFINE q == [req[r] EXCEPT !.pc = "regen"]
<1>1. /\ req' = [req EXCEPT ![r] = q] /\ UNCHANGED storeVars
      /\ req[r].pc = "resume" /\ req[r].thread.next = "regen"
  BY StoreTyped DEF ResumeContinues, At
<1>2. /\ q.pc = "regen" /\ q.seen = req[r].seen /\ q.dept = req[r].dept
      /\ q.thread = req[r].thread
  BY <1>1, RequestRead DEF Request
<1>3. RequestFits(q, status, rows, threads, ceo)
  BY <1>1, <1>2, RequestRead
  DEF RequestFits, DecidesOn, AsksCeo, Prints, Deciding, AskingCeo
<1> QED
  BY <1>1, <1>3, ReadFits

\* An interrupt that is not the one asked for is stored with its draft.
LEMMA ResumeMismatchesFits ==
  ASSUME IInv, SInv, NEW r \in Requests, OthersIdle(r), ResumeMismatches(r)
  PROVE  SInv'
<1> DEFINE q == [req[r] EXCEPT !.pc = "save_regen", !.interrupt_id = req[r].thread.id]
<1>1. /\ req' = [req EXCEPT ![r] = q] /\ UNCHANGED storeVars
      /\ req[r].pc = "resume" /\ req[r].thread.next = "approve"
  BY StoreTyped DEF ResumeMismatches, At
<1>2. /\ q.pc = "save_regen" /\ q.seen = req[r].seen /\ q.dept = req[r].dept
      /\ q.thread = req[r].thread /\ q.interrupt_id = req[r].thread.id
  BY <1>1, RequestRead DEF Request
<1>3. RequestFits(q, status, rows, threads, ceo)
  BY <1>1, <1>2, RequestRead
  DEF RequestFits, DecidesOn, AsksCeo, Prints, Deciding, AskingCeo
<1> QED
  BY <1>1, <1>3, ReadFits

\* A thread that has ended has its outcome stored again.
LEMMA ResumeReturnsFits ==
  ASSUME IInv, SInv, NEW r \in Requests, OthersIdle(r), ResumeReturns(r)
  PROVE  SInv'
<1> DEFINE q == [req[r] EXCEPT !.pc = "save_approval"]
<1>1. /\ req' = [req EXCEPT ![r] = q] /\ UNCHANGED storeVars
      /\ req[r].pc = "resume" /\ req[r].thread.next = "end"
  BY StoreTyped DEF ResumeReturns, At
<1>2. /\ q.pc = "save_approval" /\ q.seen = req[r].seen /\ q.dept = req[r].dept
      /\ q.thread = req[r].thread
  BY <1>1, RequestRead DEF Request
<1>3. RequestFits(q, status, rows, threads, ceo)
  BY <1>1, <1>2, RequestRead
  DEF RequestFits, DecidesOn, AsksCeo, Prints, Deciding, AskingCeo
<1> QED
  BY <1>1, <1>3, ReadFits

\* The checkpoint of the CEO is read as it is.
LEMMA LoadCeoFits ==
  ASSUME IInv, SInv, NEW r \in Requests, OthersIdle(r), LoadCeo(r)
  PROVE  SInv'
<1> DEFINE q == [req[r] EXCEPT !.pc = "resume_ceo", !.ceo = ceo]
<1>1. req' = [req EXCEPT ![r] = q] /\ UNCHANGED storeVars /\ req[r].pc = "load_ceo"
  BY StoreTyped DEF LoadCeo, At
<1>2. /\ q.pc = "resume_ceo" /\ q.seen = req[r].seen /\ q.ceo = ceo
      /\ q.interrupt_id = req[r].interrupt_id
  BY <1>1, RequestRead DEF Request
<1>3. RequestFits(q, status, rows, threads, ceo)
  BY <1>1, <1>2, RequestRead
  DEF RequestFits, AsksCeo, Prints, Deciding, AskingCeo
<1> QED
  BY <1>1, <1>3, ReadFits

-----------------------------------------------------------------------------
(* Steps that write a checkpoint *)

\* The thread of a section that is written: it fits its row, and no document
\* was made of a section that can still be reworked.
LEMMA ThreadSaved ==
  ASSUME IInv, SInv, NEW d \in Departments, NEW t,
         threads' = [threads EXCEPT ![d] = t],
         UNCHANGED <<status, needed, rows, ceo, doc>>,
         ThreadFits(t), RowFits(rows[d], t), threads[d].next # "end"
  PROVE  StoreFits' /\ threads'[d] = t
<1>1. /\ threads'[d] = t
      /\ \A e \in Departments \ {d} : threads'[e] = threads[e]
  BY StoreTyped
<1>2. doc.version = 0
  BY StoreTyped DEF SInv, StoreFits, DocFits
<1>3. ASSUME NEW e \in Departments
      PROVE  ThreadFits(threads'[e]) /\ RowFits(rows'[e], threads'[e])
  <2>1. CASE e = d
    BY <1>1, <2>1
  <2>2. CASE e # d
    BY <1>1, <2>2 DEF SInv, StoreFits
  <2> QED
    BY <2>1, <2>2
<1> QED
  BY <1>1, <1>2, <1>3 DEF SInv, StoreFits, DocFits

\* The checkpoint a request resumes is the one there is.
LEMMA ResumedThread ==
  ASSUME IInv, SInv, NEW r \in Requests, Resumes(r)
  PROVE  /\ req[r].pc = "resume" /\ req[r].dept \in Departments
         /\ req[r].thread = threads[req[r].dept] /\ req[r].thread \in Thread
         /\ req[r].thread.next = "approve"
         /\ ThreadFits(req[r].thread) /\ RowFits(rows[req[r].dept], req[r].thread)
         /\ req[r].thread.id = rows[req[r].dept].eval.interrupt_id
         /\ rows[req[r].dept].eval.interrupt_id # 0
BY RequestRead DEF Resumes, At, Deciding, DecidesOn, SInv, StoreFits, Request

\* The decision on the pending interrupt ends the thread with the draft that
\* the row shows.
LEMMA ResumeEndsFits ==
  ASSUME IInv, SInv, NEW r \in Requests, OthersIdle(r), ResumeEnds(r)
  PROVE  SInv'
<1> DEFINE d == req[r].dept
           outcome == IF req[r].action = "approve" THEN "approved" ELSE "exhausted"
           ended == [req[r].thread EXCEPT !.next = "end", !.outcome = outcome]
           q == [req[r] EXCEPT !.pc = "save_approval", !.thread = ended]
<1>1. /\ req' = [req EXCEPT ![r] = q]
      /\ UNCHANGED <<status, needed, rows, ceo, doc>>
      /\ WriteThread(r, ended) /\ Resumes(r)
  BY StoreTyped DEF ResumeEnds
<1>2. /\ req[r].pc = "resume" /\ d \in Departments
      /\ req[r].thread = threads[d] /\ req[r].thread \in Thread
      /\ req[r].thread.next = "approve"
      /\ ThreadFits(req[r].thread) /\ RowFits(rows[d], req[r].thread)
      /\ req[r].thread.id = rows[d].eval.interrupt_id
      /\ rows[d].eval.interrupt_id # 0
  BY <1>1, ResumedThread
<1>3. /\ ended.next = "end" /\ ended.outcome = outcome /\ outcome # "none"
      /\ ended.draft = req[r].thread.draft /\ ended.issued = req[r].thread.issued
      /\ ended.rework = req[r].thread.rework /\ ended.id = req[r].thread.id
  BY <1>2 DEF Thread
<1>4. [ended EXCEPT !.issued = threads[d].issued] = ended
  BY <1>2 DEF Thread
<1>5. threads' = [threads EXCEPT ![d] = ended]
  BY <1>1, <1>4 DEF WriteThread
<1>6. ThreadFits(ended) /\ RowFits(rows[d], ended)
  BY <1>2, <1>3 DEF ThreadFits, RowFits
<1>7. StoreFits' /\ threads'[d] = ended
  BY <1>1, <1>2, <1>5, <1>6, ThreadSaved
<1>8. /\ q.pc = "save_approval" /\ q.thread = ended /\ q.dept = d
      /\ q.seen = req[r].seen
  BY <1>2, RequestRead DEF Request
<1>9. DecidesOn(q, rows'[d], threads'[d])
  BY <1>1, <1>2, <1>3, <1>7, <1>8
  DEF DecidesOn
<1>10. RequestFits(q, status', rows', threads', ceo')
  BY <1>1, <1>2, <1>8, <1>9, RequestRead
  DEF RequestFits, AsksCeo, Prints, AskingCeo
<1> QED
  BY <1>1, <1>7, <1>10, Fits

\* A rework that is asked for leaves the thread before its regen.
LEMMA ResumeReworksFits ==
  ASSUME IInv, SInv, NEW r \in Requests, OthersIdle(r), ResumeReworks(r)
  PROVE  SInv'
<1> DEFINE d == req[r].dept
           left == [req[r].thread EXCEPT !.next = "regen"]
           q == [req[r] EXCEPT !.pc = "regen"]
<1>1. /\ req' = [req EXCEPT ![r] = q]
      /\ UNCHANGED <<status, needed, rows, ceo, doc>>
      /\ WriteThread(r, left) /\ Resumes(r)
  BY StoreTyped DEF ResumeReworks
<1>2. /\ req[r].pc = "resume" /\ d \in Departments
      /\ req[r].thread = threads[d] /\ req[r].thread \in Thread
      /\ req[r].thread.next = "approve"
      /\ ThreadFits(req[r].thread) /\ RowFits(rows[d], req[r].thread)
      /\ rows[d].eval.interrupt_id # 0
  BY <1>1, ResumedThread
<1>3. /\ left.next = "regen" /\ left.outcome = req[r].thread.outcome
      /\ left.draft = req[r].thread.draft /\ left.issued = req[r].thread.issued
      /\ left.rework = req[r].thread.rework
  BY <1>2 DEF Thread
<1>4. [left EXCEPT !.issued = threads[d].issued] = left
  BY <1>2 DEF Thread
<1>5. threads' = [threads EXCEPT ![d] = left]
  BY <1>1, <1>4 DEF WriteThread
<1>6. ThreadFits(left) /\ RowFits(rows[d], left)
  BY <1>2, <1>3 DEF ThreadFits, RowFits
<1>7. StoreFits' /\ threads'[d] = left
  BY <1>1, <1>2, <1>5, <1>6, ThreadSaved
<1>8. /\ q.pc = "regen" /\ q.thread = req[r].thread /\ q.dept = d
      /\ q.seen = req[r].seen
  BY <1>2, RequestRead DEF Request
<1>9. DecidesOn(q, rows'[d], threads'[d])
  BY <1>1, <1>2, <1>3, <1>7, <1>8
  DEF DecidesOn
<1>10. RequestFits(q, status', rows', threads', ceo')
  BY <1>1, <1>2, <1>8, <1>9, RequestRead
  DEF RequestFits, AsksCeo, Prints, AskingCeo
<1> QED
  BY <1>1, <1>7, <1>10, Fits

\* The new interrupt is one no row holds yet.
LEMMA RegenFits ==
  ASSUME IInv, SInv, NEW r \in Requests, OthersIdle(r), Regen(r)
  PROVE  SInv'
<1> DEFINE d == req[r].dept
           id == threads[d].issued + 1
           Paused(draft) == [next |-> "approve", id |-> id, issued |-> id,
                             draft |-> draft, rework |-> req[r].thread.rework + 1,
                             outcome |-> "none"]
<1>1. PICK draft :
        /\ threads' = [threads EXCEPT ![d] = Paused(draft)]
        /\ req' = [req EXCEPT ![r].pc = "save_regen", ![r].thread = Paused(draft),
                              ![r].interrupt_id = id]
  BY DEF Regen
<1> DEFINE t == Paused(draft)
           q == [req[r] EXCEPT !.pc = "save_regen", !.thread = t, !.interrupt_id = id]
<1>2. /\ UNCHANGED <<status, needed, rows, ceo, doc>>
      /\ req[r].pc = "regen"
      /\ req' = [req EXCEPT ![r] = q]
  BY <1>1, StoreTyped DEF Regen, At
<1>3. /\ d \in Departments
      /\ threads[d].next = "regen" /\ req[r].thread.rework = threads[d].rework
      /\ ThreadFits(threads[d]) /\ RowFits(rows[d], threads[d])
      /\ threads[d].issued \in Nat /\ threads[d].rework \in Nat
      /\ rows[d].eval.interrupt_id \in Nat /\ rows[d].eval.interrupt_id # 0
  BY <1>2, RequestRead, StoreTyped, StoreAssumption
  DEF Deciding, DecidesOn, SInv, StoreFits, Thread, Row, Eval
<1>4. ThreadFits(t) /\ RowFits(rows[d], t)
  BY <1>3 DEF ThreadFits, RowFits
<1>5. StoreFits' /\ threads'[d] = t
  BY <1>1, <1>2, <1>3, <1>4, ThreadSaved
<1>6. /\ q.pc = "save_regen" /\ q.thread = t /\ q.dept = d
      /\ q.seen = req[r].seen /\ q.interrupt_id = id
  BY <1>2, RequestRead DEF Request
<1>7. DecidesOn(q, rows'[d], threads'[d])
  BY <1>2, <1>3, <1>5, <1>6
  DEF DecidesOn
<1>8. RequestFits(q, status', rows', threads', ceo')
  BY <1>1, <1>2, <1>6, <1>7, RequestRead
  DEF RequestFits, AsksCeo, Prints, AskingCeo
<1> QED
  BY <1>2, <1>5, <1>8, Fits

\* Asking the CEO touches no section.
LEMMA CeoSaved ==
  ASSUME SInv, UNCHANGED <<status, needed, rows, threads, doc>>,
         ceo'.next = "new" => ceo'.id = 0
  PROVE  StoreFits'
BY DEF SInv, StoreFits, DocFits, CeoRequired, ThreadFits, RowFits, dept_is_terminal

\* The CEO thread is started, or started over.
LEMMA StartCeoFits ==
  ASSUME IInv, SInv, NEW r \in Requests, OthersIdle(r), StartCeo(r)
  PROVE  SInv'
<1> DEFINE q == [req[r] EXCEPT !.pc = "save_ceo_interrupt", !.todo = needed,
                               !.interrupt_id = StartedCeoThread.id]
<1>1. /\ req' = [req EXCEPT ![r] = q]
      /\ UNCHANGED <<status, needed, rows, threads, doc>>
      /\ ceo' = StartedCeoThread
      /\ req[r].pc = "start_ceo"
  BY StoreTyped DEF StartCeo, At
<1>2. StoreFits'
  BY <1>1, CeoSaved DEF StartedCeoThread
<1>3. q.pc = "save_ceo_interrupt" /\ q.seen = req[r].seen
  BY <1>1, RequestRead DEF Request
<1>4. RequestFits(q, status', rows', threads', ceo')
  BY <1>1, <1>3, RequestRead
  DEF RequestFits, AsksCeo, Prints, Deciding, AskingCeo
<1> QED
  BY <1>1, <1>2, <1>4, Fits

\* What the resume returns as an approval, the thread of the CEO records.
LEMMA ResumeCeoFits ==
  ASSUME IInv, SInv, NEW r \in Requests, OthersIdle(r), ResumeCeo(r)
  PROVE  SInv'
<1> DEFINE q == [req[r] EXCEPT !.pc = "save_ceo_decision", !.todo = needed,
                               !.ceo = NewCeoThread, !.decision = CeoResult(r)]
<1>1. /\ req' = [req EXCEPT ![r] = q]
      /\ UNCHANGED <<status, needed, rows, threads, doc>>
      /\ req[r].pc = "resume_ceo"
  BY StoreTyped DEF ResumeCeo, At
<1>2. /\ req[r].ceo = ceo /\ ceo \in CeoThread /\ req[r].interrupt_id # 0
      /\ ceo.next = "new" => ceo.id = 0
      /\ needed = Departments
  BY <1>1, RequestRead, StoreTyped DEF AsksCeo, SInv, StoreFits
<1>3. /\ ceo'.next = "new" => ceo'.id = 0
      /\ CeoResult(r) = "approved" => ceo'.decision = "approved"
  <2>1. CASE ceo.next = "pause" /\ ceo.id = req[r].interrupt_id
    <3>1. ceo' = [ceo EXCEPT !.next = "end", !.decision = CeoResult(r),
                             !.issued = ceo.issued]
      BY <1>2, <2>1 DEF ResumeCeo
    <3> QED
      BY <1>2, <3>1 DEF CeoThread
  <2>2. CASE ~(ceo.next = "pause" /\ ceo.id = req[r].interrupt_id)
    <3>1. ceo' = ceo
      BY <1>2, <2>2 DEF ResumeCeo
    <3>2. CeoResult(r) = "approved" => ceo.next = "end" /\ ceo.decision = "approved"
      BY <1>2, <2>2 DEF CeoResult, CeoThread
    <3> QED
      BY <1>2, <3>1, <3>2
  <2> QED
    BY <2>1, <2>2
<1>4. StoreFits'
  BY <1>1, <1>3, CeoSaved
<1>5. /\ q.pc = "save_ceo_decision" /\ q.seen = req[r].seen /\ q.todo = Departments
      /\ q.decision = CeoResult(r)
  BY <1>1, <1>2, RequestRead DEF Request
<1>6. RequestFits(q, status', rows', threads', ceo')
  BY <1>1, <1>3, <1>5, RequestRead
  DEF RequestFits, AsksCeo, Prints, Deciding, AskingCeo
<1> QED
  BY <1>1, <1>4, <1>6, Fits

-----------------------------------------------------------------------------
(* Steps that write a row *)

\* A row that is written: it fits its checkpoint, leaves whether the CEO is
\* asked as it is, and has another draft only if no document was made.
LEMMA RowWritten ==
  ASSUME IInv, SInv, NEW d \in Departments, NEW row,
         rows' = [rows EXCEPT ![d] = row],
         UNCHANGED <<status, needed, threads, ceo, doc>>,
         RowFits(row, threads[d]),
         row.eval.arbitration.required = rows[d].eval.arbitration.required,
         row.draft = rows[d].draft \/ doc.version = 0
  PROVE  /\ StoreFits' /\ rows'[d] = row
         /\ \A e \in Departments \ {d} : rows'[e] = rows[e]
<1>1. /\ rows'[d] = row /\ DOMAIN rows' = Departments
      /\ \A e \in Departments \ {d} : rows'[e] = rows[e]
  BY StoreTyped
<1>2. ASSUME NEW e \in Departments
      PROVE  /\ ThreadFits(threads'[e]) /\ RowFits(rows'[e], threads'[e])
             /\ rows'[e].eval.arbitration.required = rows[e].eval.arbitration.required
  <2>1. CASE e = d
    BY <1>1, <2>1 DEF SInv, StoreFits
  <2>2. CASE e # d
    BY <1>1, <2>2 DEF SInv, StoreFits
  <2> QED
    BY <2>1, <2>2
<1>3. CeoRequired' = CeoRequired
  BY <1>1, <1>2, StoreTyped DEF CeoRequired
<1>4. DocFits'
  <2> SUFFICES ASSUME doc.version > 0 PROVE DocFits'
    BY DEF DocFits
  <2>1. row.draft = rows[d].draft
    OBVIOUS
  <2>2. \A e \in Departments : rows'[e].draft = rows[e].draft
    BY <1>1, <2>1
  <2> QED
    BY <1>3, <2>2 DEF DocFits, SInv, StoreFits
<1>5. \A e, f \in Departments :
        rows'[e].eval.arbitration.required = rows'[f].eval.arbitration.required
  BY <1>2 DEF SInv, StoreFits
<1> QED
  BY <1>1, <1>2, <1>4, <1>5 DEF SInv, StoreFits

\* What the invariant says of the section a request decides, when it writes.
LEMMA DecidedSection ==
  ASSUME IInv, SInv, NEW r \in Requests,
         req[r].pc \in {"save_regen", "save_approval", "save_outcome"}
  PROVE  /\ req[r].dept \in Departments /\ rows[req[r].dept] \in Row
         /\ req[r].thread = threads[req[r].dept] /\ req[r].thread \in Thread
         /\ DecidesOn(req[r], rows[req[r].dept], req[r].thread)
         /\ ThreadFits(req[r].thread) /\ RowFits(rows[req[r].dept], req[r].thread)
         /\ req[r].pc \in {"save_regen", "save_approval"} \/ req[r].seen # Expired
              => req[r].seen[req[r].dept] = rows[req[r].dept]
<1>1. /\ req[r].dept \in Departments /\ req[r].thread = threads[req[r].dept]
      /\ DecidesOn(req[r], rows[req[r].dept], threads[req[r].dept])
      /\ req[r].thread \in Thread
  BY RequestRead DEF Deciding, DecidesOn, Request
<1>2. req[r].seen[req[r].dept] \in {NotLoaded, rows[req[r].dept]}
  BY <1>1, RequestRead
<1>3. req[r].pc \in {"save_regen", "save_approval"} \/ req[r].seen # Expired
        => req[r].seen[req[r].dept] # NotLoaded
  BY RequestTyped DEF RequestOK
<1> QED
  BY <1>1, <1>2, <1>3, StoreTyped DEF SInv, StoreFits

\* The draft and the interrupt it is for are stored together.
LEMMA SaveRegenFits ==
  ASSUME IInv, SInv, NEW r \in Requests, OthersIdle(r), SaveRegen(r)
  PROVE  /\ SInv' /\ doc' = doc
         /\ \A e \in Departments : rows'[e].eval.arbitration = rows[e].eval.arbitration
<1> DEFINE d == req[r].dept
           t == req[r].thread
           loaded == req[r].seen[d]
           draft == Column(rows[d].draft, loaded.draft, t.draft)
           eval == [loaded.eval EXCEPT !.interrupt_id = req[r].interrupt_id]
           row == Replaced(rows[d], draft, eval)
<1>1. /\ req' = [req EXCEPT ![r] = IdleRequest]
      /\ UNCHANGED <<status, needed, threads, ceo, doc>>
      /\ req[r].pc = "save_regen"
  BY DEF SaveRegen, Finish, At
<1>2. /\ d \in Departments /\ rows[d] \in Row /\ loaded = rows[d]
      /\ t = threads[d] /\ t \in Thread /\ ThreadFits(t) /\ RowFits(rows[d], t)
      /\ t.next = "approve" /\ req[r].interrupt_id = t.id
  BY <1>1, DecidedSection DEF DecidesOn
<1>3. rows' = [rows EXCEPT ![d] = row]
  BY <1>2, StoreTyped DEF SaveRegen
<1>4. /\ row.draft = t.draft /\ row.approval = rows[d].approval
      /\ row.eval.interrupt_id = t.id /\ row.eval.arbitration = rows[d].eval.arbitration
      /\ row.eval.graph_outcome = rows[d].eval.graph_outcome
  BY <1>2 DEF Replaced, Column, Row, Eval
<1>5. t.id \in Nat /\ t.id # 0 /\ t.id = t.issued
  BY <1>2, StoreAssumption DEF ThreadFits, Thread
<1> HIDE DEF row
<1>6. RowFits(row, t)
  BY <1>2, <1>4, <1>5 DEF RowFits
<1>7. doc.version = 0
  BY <1>2, StoreTyped DEF SInv, StoreFits, DocFits
<1>8. /\ StoreFits' /\ rows'[d] = row
      /\ \A e \in Departments \ {d} : rows'[e] = rows[e]
  BY <1>1, <1>2, <1>3, <1>4, <1>6, <1>7, RowWritten
<1>9. \A e \in Departments : rows'[e].eval.arbitration = rows[e].eval.arbitration
  BY <1>4, <1>8
<1> QED
  BY <1>1, <1>8, <1>9, IdleFits, Fits

\* The approval is stored of a thread that has ended.
LEMMA SaveApprovalFits ==
  ASSUME IInv, SInv, NEW r \in Requests, OthersIdle(r), SaveApproval(r)
  PROVE  /\ SInv' /\ doc' = doc
         /\ \A e \in Departments : rows'[e].eval.arbitration = rows[e].eval.arbitration
<1> DEFINE d == req[r].dept
           t == req[r].thread
           approval == Column(rows[d].approval, req[r].seen[d].approval, Recorded(t))
           row == [rows[d] EXCEPT !.approval = approval]
           q == [req[r] EXCEPT !.pc = "save_outcome", !.seen = Expired]
<1>1. /\ req' = [req EXCEPT ![r] = q]
      /\ UNCHANGED <<status, needed, threads, ceo, doc>>
      /\ req[r].pc = "save_approval"
  BY StoreTyped DEF SaveApproval, At
<1>2. /\ d \in Departments /\ rows[d] \in Row /\ req[r].seen[d] = rows[d]
      /\ t = threads[d] /\ t \in Thread /\ RowFits(rows[d], t)
      /\ t.next = "end" /\ rows[d].eval.interrupt_id # 0
  BY <1>1, DecidedSection DEF DecidesOn
<1>3. rows' = [rows EXCEPT ![d] = row]
  BY <1>2, StoreTyped DEF SaveApproval, Recorded
<1>4. /\ row.approval = Recorded(t) /\ row.draft = rows[d].draft
      /\ row.eval = rows[d].eval
  BY <1>2 DEF Column, Recorded, Row
<1> HIDE DEF row
<1>5. RowFits(row, t)
  BY <1>2, <1>4 DEF RowFits
<1>6. /\ StoreFits' /\ rows'[d] = row
      /\ \A e \in Departments \ {d} : rows'[e] = rows[e]
  BY <1>1, <1>2, <1>3, <1>4, <1>5, RowWritten
<1>7. q.pc = "save_outcome" /\ q.dept = d /\ q.thread = t /\ q.seen = Expired
  BY <1>1, RequestRead DEF Request
<1>8. DecidesOn(q, rows'[d], threads'[d])
  BY <1>1, <1>2, <1>4, <1>6, <1>7 DEF DecidesOn
<1>9. RequestFits(q, status', rows', threads', ceo')
  BY <1>1, <1>7, <1>8, RequestRead, ExpiredLoadsNothing
  DEF RequestFits, AsksCeo, Prints, AskingCeo
<1>10. \A e \in Departments : rows'[e].eval.arbitration = rows[e].eval.arbitration
  BY <1>4, <1>6
<1> QED
  BY <1>1, <1>6, <1>9, <1>10, Fits

\* The interrupt is cleared with the outcome: the section is terminal then.
LEMMA SaveOutcomeFits ==
  ASSUME IInv, SInv, NEW r \in Requests, OthersIdle(r), SaveOutcome(r)
  PROVE  /\ SInv' /\ doc' = doc
         /\ \A e \in Departments : rows'[e].eval.arbitration = rows[e].eval.arbitration
<1> DEFINE d == req[r].dept
           t == req[r].thread
           loaded == req[r].seen[d]
           eval == [loaded.eval EXCEPT !.interrupt_id = 0, !.graph_outcome = t.outcome]
           row == [rows[d] EXCEPT !.eval = eval]
           q == [IdleRequest EXCEPT !.pc = "finalize"]
<1>1. /\ req' = [req EXCEPT ![r] = q]
      /\ UNCHANGED <<status, needed, threads, ceo, doc>>
      /\ req[r].pc = "save_outcome" /\ req[r].seen # Expired
  BY DEF SaveOutcome, At
<1>2. /\ d \in Departments /\ rows[d] \in Row /\ loaded = rows[d]
      /\ t = threads[d] /\ t \in Thread /\ ThreadFits(t) /\ RowFits(rows[d], t)
      /\ t.next = "end" /\ rows[d].approval = Recorded(t)
  BY <1>1, DecidedSection DEF DecidesOn
<1>3. rows' = [rows EXCEPT ![d] = row]
  BY <1>2, StoreTyped DEF SaveOutcome
<1>4. /\ row.draft = rows[d].draft /\ row.approval = Recorded(t)
      /\ row.eval.interrupt_id = 0 /\ row.eval.graph_outcome = t.outcome
      /\ row.eval.arbitration = rows[d].eval.arbitration
  BY <1>2 DEF Row, Eval
<1> HIDE DEF row
<1>5. dept_is_terminal(row)
  BY <1>2, <1>4 DEF dept_is_terminal, Recorded, ThreadFits, Thread
<1>6. t.issued \in Nat
  BY <1>2 DEF Thread
<1>7. RowFits(row, t)
  BY <1>2, <1>4, <1>5, <1>6 DEF RowFits
<1>8. /\ StoreFits' /\ rows'[d] = row
      /\ \A e \in Departments \ {d} : rows'[e] = rows[e]
  BY <1>1, <1>2, <1>3, <1>4, <1>7, RowWritten
<1>9. q.pc = "finalize" /\ q.seen = Expired
  BY IdleRequestType DEF Request
<1>10. status # "done"
  BY <1>1, RequestRead
<1>11. RequestFits(q, status', rows', threads', ceo')
  BY <1>1, <1>9, <1>10, ExpiredLoadsNothing
  DEF RequestFits, AsksCeo, Prints, AskingCeo, Deciding
<1>12. \A e \in Departments : rows'[e].eval.arbitration = rows[e].eval.arbitration
  BY <1>4, <1>8
<1> QED
  BY <1>1, <1>8, <1>11, <1>12, Fits

\* One row of the arbitration patch, which nothing else has written meanwhile.
LEMMA PatchedRow ==
  ASSUME IInv, SInv, NEW r \in Requests,
         req[r].pc \in {"save_ceo_interrupt", "save_ceo_decision"},
         NEW d \in Departments, NEW id \in Nat, NEW decision \in Decision,
         PatchRow(r, d, id, decision),
         UNCHANGED <<status, needed, threads, ceo, doc>>
  PROVE  /\ StoreFits'
         /\ \A e \in Departments \ {d} : rows'[e] = rows[e]
         /\ rows'[d].eval.arbitration.decision =
              IF decision = "none" THEN rows[d].eval.arbitration.decision ELSE decision
<1> DEFINE loaded == req[r].seen[d].eval
           patched == [loaded EXCEPT
                         !.arbitration.present = TRUE,
                         !.arbitration.interrupt_id = id,
                         !.arbitration.decision =
                           IF decision = "none" THEN @ ELSE decision]
           row == [rows[d] EXCEPT !.eval = Column(rows[d].eval, loaded, patched)]
<1>1. req[r].seen[d] = rows[d] /\ rows[d] \in Row
  BY RequestRead, StoreTyped DEF AsksCeo, AskingCeo, PatchRow
<1>2. rows' = [rows EXCEPT ![d] = row]
  BY <1>1, NotLoadedIsNoRow, StoreTyped DEF PatchRow
<1>3. row.eval = patched
  BY <1>1 DEF Column, Row
<1>4. /\ row.draft = rows[d].draft /\ row.approval = rows[d].approval
      /\ row.eval.interrupt_id = rows[d].eval.interrupt_id
      /\ row.eval.graph_outcome = rows[d].eval.graph_outcome
      /\ row.eval.arbitration.present
      /\ row.eval.arbitration.required = rows[d].eval.arbitration.required
      /\ row.eval.arbitration.decision =
           IF decision = "none" THEN rows[d].eval.arbitration.decision ELSE decision
  <2>1. rows[d].eval \in Eval /\ rows[d].eval.arbitration \in Arbitration
    BY <1>1 DEF Row, Eval
  <2>2. row.draft = rows[d].draft /\ row.approval = rows[d].approval
    BY <1>1 DEF Row
  <2>3. /\ patched.interrupt_id = rows[d].eval.interrupt_id
        /\ patched.graph_outcome = rows[d].eval.graph_outcome
        /\ patched.arbitration.present
        /\ patched.arbitration.required = rows[d].eval.arbitration.required
        /\ patched.arbitration.decision =
             IF decision = "none" THEN rows[d].eval.arbitration.decision ELSE decision
    BY <1>1, <2>1 DEF Eval, Arbitration
  <2> HIDE DEF patched, row
  <2> QED
    BY <1>3, <2>2, <2>3
<1>5. RowFits(row, threads[d])
  BY <1>4 DEF SInv, StoreFits, RowFits, dept_is_terminal
<1> QED
  BY <1>2, <1>4, <1>5, RowWritten

\* The interrupt of the CEO is stored row by row.
LEMMA SaveCeoInterruptFits ==
  ASSUME IInv, SInv, NEW r \in Requests, OthersIdle(r), NEW d \in Departments,
         SaveCeoInterrupt(r, d)
  PROVE  /\ SInv' /\ doc' = doc
         /\ CeoApproved' => CeoApproved
<1> DEFINE q == IF req[r].todo = {d} THEN IdleRequest
                ELSE [req[r] EXCEPT !.todo = @ \ {d}, !.seen = Expired]
<1>1. /\ PatchRow(r, d, req[r].interrupt_id, "none")
      /\ UNCHANGED <<status, needed, threads, ceo, doc>>
      /\ req[r].pc = "save_ceo_interrupt"
      /\ req' = [req EXCEPT ![r] = q]
  BY StoreTyped DEF SaveCeoInterrupt, At
<1>2. /\ StoreFits'
      /\ \A e \in Departments :
           rows'[e].eval.arbitration.decision = rows[e].eval.arbitration.decision
  BY <1>1, PatchedRow, RequestTyped DEF Request, Decision
<1>4. CeoApproved' => CeoApproved
  BY <1>1, <1>2, StoreTyped DEF PatchRow, CeoApproved
<1>3. RequestFits(q, status', rows', threads', ceo')
  <2>1. CASE req[r].todo = {d}
    BY <2>1, IdleFits
  <2>2. CASE req[r].todo # {d}
    <3>1. q.pc = "save_ceo_interrupt" /\ q.seen = Expired
      BY <1>1, <2>2, RequestRead, ExpiredLoadsNothing DEF Request
    <3> QED
      BY <1>1, <3>1, RequestRead, ExpiredLoadsNothing
      DEF RequestFits, AsksCeo, Prints, Deciding
  <2> QED
    BY <2>1, <2>2
<1> QED
  BY <1>1, <1>2, <1>3, <1>4, Fits

\* The approval of the CEO is stored row by row; with the last row all say so.
LEMMA SaveCeoDecisionFits ==
  ASSUME IInv, SInv, NEW r \in Requests, OthersIdle(r), NEW d \in Departments,
         SaveCeoDecision(r, d)
  PROVE  /\ SInv' /\ doc' = doc
         /\ CeoApproved' => CeoApproved \/ ceo.decision = "approved"
<1> DEFINE q == IF req[r].todo # {d}
                THEN [req[r] EXCEPT !.todo = @ \ {d}, !.seen = Expired]
                ELSE IF req[r].decision = "approved"
                THEN [IdleRequest EXCEPT !.pc = "synthesize"]
                ELSE IdleRequest
<1>1. /\ PatchRow(r, d, 0, req[r].decision)
      /\ UNCHANGED <<status, needed, threads, ceo, doc>>
      /\ req[r].pc = "save_ceo_decision"
      /\ req' = [req EXCEPT ![r] = q]
  BY StoreTyped DEF SaveCeoDecision, At
<1>2. /\ StoreFits'
      /\ \A e \in Departments \ {d} : rows'[e] = rows[e]
      /\ rows'[d].eval.arbitration.decision =
           IF req[r].decision = "none" THEN rows[d].eval.arbitration.decision
                                       ELSE req[r].decision
  BY <1>1, PatchedRow, RequestTyped DEF Request
<1>3. req[r].decision = "approved" =>
        /\ ceo.decision = "approved"
        /\ \A e \in Departments \ (req[r].todo \ {d}) :
             rows'[e].eval.arbitration.decision = "approved"
  <2>1. req[r].decision = "approved" =>
          /\ ceo.decision = "approved"
          /\ \A e \in Departments \ req[r].todo :
               rows[e].eval.arbitration.decision = "approved"
    BY <1>1, RequestRead DEF AsksCeo
  <2> QED
    BY <1>2, <2>1
<1>4. status # "done"
  BY <1>1, RequestRead
<1>5. RequestFits(q, status', rows', threads', ceo')
  <2>1. CASE req[r].todo # {d}
    <3>1. /\ q.pc = "save_ceo_decision" /\ q.seen = Expired
          /\ q.todo = req[r].todo \ {d} /\ q.decision = req[r].decision
      BY <1>1, <2>1, RequestRead, ExpiredLoadsNothing DEF Request
    <3> QED
      BY <1>1, <1>3, <1>4, <3>1, ExpiredLoadsNothing
      DEF RequestFits, AsksCeo, Prints, Deciding
  <2>2. CASE req[r].todo = {d} /\ req[r].decision = "approved"
    <3>1. q.pc = "synthesize" /\ q.seen = Expired
      BY <2>2, IdleRequestType DEF Request
    <3>2. \A e \in Departments : rows'[e].eval.arbitration.decision = "approved"
      BY <1>3, <2>2
    <3> QED
      BY <1>1, <1>4, <3>1, <3>2, ExpiredLoadsNothing
      DEF RequestFits, AsksCeo, AskingCeo, Prints, Deciding
  <2>3. CASE req[r].todo = {d} /\ req[r].decision # "approved"
    BY <2>3, IdleFits
  <2> QED
    BY <2>1, <2>2, <2>3
<1>6. CeoApproved' => CeoApproved \/ ceo.decision = "approved"
  BY <1>1, <1>2, <1>3, StoreTyped DEF PatchRow, CeoApproved
<1> QED
  BY <1>1, <1>2, <1>5, <1>6, Fits

-----------------------------------------------------------------------------
(* Finalizing, the document and the status *)

\* The arbitration a query returns is that of some row, and says of the CEO's
\* approval what every row says.
LEMMA SomeArbitration ==
  ASSUME IInv, SInv, NEW arbitration \in ArbitrationOf(rows)
  PROVE  /\ \E d \in Departments : arbitration = rows[d].eval.arbitration
         /\ \A d \in Departments :
              rows[d].eval.arbitration.required = arbitration.required
<1>1. \A d \in Departments : rows[d].eval.arbitration.present
  BY DEF SInv, StoreFits, RowFits
<1>2. Marketing \in DOMAIN rows /\ DOMAIN rows = Departments
  BY StoreTyped, StoreAssumption
<1>3. PICK d \in Departments : arbitration = rows[d].eval.arbitration
  BY <1>1, <1>2 DEF ArbitrationOf
<1> QED
  BY <1>3 DEF SInv, StoreFits

\* A document is begun with every section heard, and if the CEO is asked, with
\* an arbitration that records the approval.
LEMMA SynthesizeFits ==
  ASSUME IInv, SInv, NEW r \in Requests, OthersIdle(r),
         NEW arbitration, arbitration \in ArbitrationOf(rows),
         Synthesize(r, arbitration), UNCHANGED storeVars, AllHeard,
         req[r].pc \in {"finalize", "synthesize"},
         ~arbitration.required \/ arbitration.decision = "approved"
  PROVE  SInv'
<1>1. CASE arbitration.decision = "rejected"
  BY <1>1, FinishFits DEF Synthesize
<1>2. CASE arbitration.decision # "rejected"
  <2> DEFINE line == arbitration.required /\ arbitration.decision = "approved"
             q == [req[r] EXCEPT !.pc = "save_document",
                                 !.seen = Loaded(Departments), !.ceo_line = line]
  <2>1. req' = [req EXCEPT ![r] = q]
    BY <1>2, StoreTyped DEF Synthesize
  <2>2. \A d \in Departments : Loaded(Departments)[d] = rows[d]
    BY LoadedRows DEF IInv
  <2>3. q.pc = "save_document" /\ q.seen = Loaded(Departments) /\ q.ceo_line = line
    BY RequestRead DEF Request
  <2>4. \A d \in Departments : rows[d].approval # "pending"
    BY DEF AllHeard, SInv, StoreFits
  <2>5. (\E d \in Departments : rows[d].eval.arbitration.required)
          => /\ \E d \in Departments : rows[d].eval.arbitration.decision = "approved"
             /\ line
    BY SomeArbitration
  <2>6. status # "done"
    BY RequestRead
  <2>7. RequestFits(q, status, rows, threads, ceo)
    BY <2>2, <2>3, <2>4, <2>5, <2>6
    DEF RequestFits, AsksCeo, AskingCeo, Prints, Deciding
  <2> QED
    BY <2>1, <2>7, ReadFits
<1> QED
  BY <1>1, <1>2

\* Finalizing makes the document, asks the CEO, or ends.
LEMMA FinalizeFits ==
  ASSUME IInv, SInv, NEW r \in Requests, OthersIdle(r), Finalize(r)
  PROVE  SInv'
<1>1. UNCHANGED storeVars /\ req[r].pc = "finalize"
  BY DEF Finalize, At
<1>2. CASE Finish(r)
  BY <1>1, <1>2, FinishFits
<1>3. ASSUME NEW arbitration \in ArbitrationOf(rows), Synthesize(r, arbitration),
             all_active_depts_terminal(rows, needed),
             ~arbitration.required \/ arbitration.decision = "approved"
      PROVE  SInv'
  BY <1>1, <1>3, TerminalHeard, SynthesizeFits
<1>4. CASE req' = [req EXCEPT ![r].pc = "start_ceo", ![r].seen = Loaded(Departments)]
  <2> DEFINE q == [req[r] EXCEPT !.pc = "start_ceo", !.seen = Loaded(Departments)]
  <2>1. req' = [req EXCEPT ![r] = q]
    BY <1>4, StoreTyped
  <2>2. \A d \in Departments : Loaded(Departments)[d] = rows[d]
    BY LoadedRows DEF IInv
  <2>3. q.pc = "start_ceo" /\ q.seen = Loaded(Departments) /\ status # "done"
    BY <1>1, RequestRead DEF Request
  <2>4. RequestFits(q, status, rows, threads, ceo)
    BY <2>2, <2>3 DEF RequestFits, AsksCeo, Prints, Deciding
  <2> QED
    BY <1>1, <2>1, <2>4, ReadFits
<1> QED
  BY <1>2, <1>3, <1>4 DEF Finalize

\* After the CEO approved, every row says so.
LEMMA SynthesizeAfterCeoFits ==
  ASSUME IInv, SInv, NEW r \in Requests, OthersIdle(r), SynthesizeAfterCeo(r)
  PROVE  SInv'
<1>1. /\ UNCHANGED storeVars /\ req[r].pc = "synthesize"
      /\ \E arbitration \in ArbitrationOf(rows) : Synthesize(r, arbitration)
  BY DEF SynthesizeAfterCeo, At
<1>2. AllHeard
  BY <1>1, RequestTyped DEF RequestHeard
<1>3. \A d \in Departments : rows[d].eval.arbitration.decision = "approved"
  BY <1>1, RequestRead DEF Prints
<1> QED
  BY <1>1, <1>2, <1>3, SomeArbitration, SynthesizeFits

\* The document prints the rows there are, all of threads that have ended.
LEMMA SaveDocumentFits ==
  ASSUME IInv, SInv, NEW r \in Requests, OthersIdle(r), SaveDocument(r)
  PROVE  /\ SInv'
         /\ CeoRequired => CeoApproved
         /\ UNCHANGED <<rows, ceo>>
<1> DEFINE q == [IdleRequest EXCEPT !.pc = "complete"]
<1>1. /\ req' = [req EXCEPT ![r] = q]
      /\ UNCHANGED <<status, needed, rows, threads, ceo>>
      /\ req[r].pc = "save_document"
      /\ doc'.ceo_line = req[r].ceo_line
      /\ doc'.drafts = [d \in Departments |->
                          IF d \in needed /\ req[r].seen[d] # NotLoaded
                          THEN req[r].seen[d].draft ELSE NullDraft]
  BY DEF SaveDocument, At
<1>2. needed = Departments
  BY DEF SInv, StoreFits
<1>3. \A d \in Departments : req[r].seen[d] = rows[d] /\ req[r].seen[d] # NotLoaded
  BY <1>1, <1>2, RequestRead, RequestTyped DEF RequestHeard
<1>4. \A d \in Departments : doc'.drafts[d] = rows[d].draft
  BY <1>1, <1>2, <1>3
<1>5. \A d \in Departments : threads[d].next = "end"
  BY <1>1, RequestRead DEF Prints, SInv, StoreFits, RowFits
<1>6. CeoRequired => CeoApproved /\ req[r].ceo_line
  BY <1>1, RequestRead, StoreTyped DEF Prints, CeoRequired, CeoApproved
<1>7. CeoRequired' = CeoRequired
  BY <1>1 DEF CeoRequired
<1>8. DocFits'
  BY <1>1, <1>4, <1>5, <1>6, <1>7 DEF DocFits
<1>9. StoreFits'
  BY <1>1, <1>8 DEF SInv, StoreFits, ThreadFits, RowFits, dept_is_terminal
<1>10. q.pc = "complete" /\ q.seen = Expired
  BY IdleRequestType DEF Request
<1>11. RequestFits(q, status', rows', threads', ceo')
  BY <1>1, <1>10, RequestRead, ExpiredLoadsNothing
  DEF RequestFits, AsksCeo, AskingCeo, Prints, Deciding
<1> QED
  BY <1>1, <1>6, <1>9, <1>11, Fits

\* The request that completes the ticket ends with it.
LEMMA CompleteFits ==
  ASSUME IInv, SInv, NEW r \in Requests, OthersIdle(r), Complete(r)
  PROVE  SInv'
<1>1. req' = [req EXCEPT ![r] = IdleRequest] /\ UNCHANGED <<needed, rows, threads, ceo, doc>>
  BY DEF Complete, Finish
<1>2. StoreFits'
  BY <1>1 DEF SInv, StoreFits, DocFits, CeoRequired, ThreadFits, RowFits, dept_is_terminal
<1> QED
  BY <1>1, <1>2, IdleFits, Fits

-----------------------------------------------------------------------------
(* Every step *)

\* What a step may do to the document and to the CEO's approval.
GateStep ==
  /\ doc' # doc => status # "done" /\ (CeoRequired => CeoApproved)
  /\ CeoApproved' => CeoApproved \/ ceo.decision = "approved"

\* A step that leaves the rows and the document alone.
LEMMA GateSame == UNCHANGED <<rows, doc>> => GateStep
BY DEF GateStep, CeoApproved

\* A step on one section leaves the arbitration of every row.
LEMMA GateSection ==
  ASSUME IInv, doc' = doc, DOMAIN rows' = DOMAIN rows,
         \A e \in Departments : rows'[e].eval.arbitration = rows[e].eval.arbitration
  PROVE  GateStep
BY StoreTyped DEF GateStep, CeoApproved

\* A request that dies leaves what it committed.
LEMMA RequestDiesFits ==
  ASSUME IInv, SInv, NEW r \in Requests, OthersIdle(r), RequestDies(r)
  PROVE  SInv' /\ GateStep
BY FinishFits, GateSame DEF RequestDies, storeVars

\* Each way a request begins.
LEMMA DecideFits ==
  ASSUME IInv, SInv, NEW r \in Requests, OthersIdle(r), Decide(r)
  PROVE  SInv' /\ GateStep
<1>1. SInv'
  BY DecideSectionFits, DecideCeoFits DEF Decide
<1>2. UNCHANGED <<rows, doc>>
  BY DEF Decide, DecideSection, DecideCeo, storeVars
<1> QED
  BY <1>1, <1>2, GateSame

\* Each step of a request that leaves the rows and the document alone.
LEMMA ReadingFits ==
  ASSUME IInv, SInv, NEW r \in Requests, OthersIdle(r),
         \/ ReadRows(r) \/ LoadThread(r) \/ ResumeEnds(r) \/ ResumeReworks(r)
         \/ ResumeContinues(r) \/ ResumeMismatches(r) \/ ResumeReturns(r)
         \/ Regen(r) \/ Finalize(r) \/ StartCeo(r) \/ LoadCeo(r) \/ ResumeCeo(r)
         \/ SynthesizeAfterCeo(r) \/ Complete(r)
  PROVE  SInv' /\ GateStep
<1>1. UNCHANGED <<rows, doc>>
  BY DEF storeVars, ReadRows, LoadThread, ResumeEnds, ResumeReworks, ResumeContinues,
         ResumeMismatches, ResumeReturns, Regen, Finalize, StartCeo, LoadCeo,
         ResumeCeo, SynthesizeAfterCeo, Complete
<1> SUFFICES SInv'
  BY <1>1, GateSame
<1>2. CASE ReadRows(r)
  BY <1>2, ReadRowsFits
<1>3. CASE LoadThread(r)
  BY <1>3, LoadThreadFits
<1>4. CASE ResumeEnds(r)
  BY <1>4, ResumeEndsFits
<1>5. CASE ResumeReworks(r)
  BY <1>5, ResumeReworksFits
<1>6. CASE ResumeContinues(r)
  BY <1>6, ResumeContinuesFits
<1>7. CASE ResumeMismatches(r)
  BY <1>7, ResumeMismatchesFits
<1>8. CASE ResumeReturns(r)
  BY <1>8, ResumeReturnsFits
<1>9. CASE Regen(r)
  BY <1>9, RegenFits
<1>10. CASE Finalize(r)
  BY <1>10, FinalizeFits
<1>11. CASE StartCeo(r)
  BY <1>11, StartCeoFits
<1>12. CASE LoadCeo(r)
  BY <1>12, LoadCeoFits
<1>13. CASE ResumeCeo(r)
  BY <1>13, ResumeCeoFits
<1>14. CASE SynthesizeAfterCeo(r)
  BY <1>14, SynthesizeAfterCeoFits
<1>15. CASE Complete(r)
  BY <1>15, CompleteFits
<1> QED
  BY <1>1, <1>2, <1>3, <1>4, <1>5, <1>6, <1>7, <1>8, <1>9, <1>10, <1>11, <1>12,
     <1>13, <1>14, <1>15

\* Each step of a request under way.
LEMMA ProceedFits ==
  ASSUME IInv, SInv, NEW r \in Requests, OthersIdle(r), Proceed(r)
  PROVE  SInv' /\ GateStep
<1>1. ASSUME SaveRegen(r) \/ SaveApproval(r) \/ SaveOutcome(r)
      PROVE  SInv' /\ GateStep
  <2>1. DOMAIN rows' = DOMAIN rows
    BY <1>1 DEF SaveRegen, SaveApproval, SaveOutcome
  <2> QED
    BY <1>1, <2>1, SaveRegenFits, SaveApprovalFits, SaveOutcomeFits, GateSection
<1>2. ASSUME NEW d \in Departments, SaveCeoInterrupt(r, d) \/ SaveCeoDecision(r, d)
      PROVE  SInv' /\ GateStep
  BY <1>2, SaveCeoInterruptFits, SaveCeoDecisionFits DEF GateStep
<1>3. CASE SaveDocument(r)
  <2>1. req[r].pc # "idle"
    BY <1>3 DEF SaveDocument, At
  <2> QED
    BY <1>3, <2>1, SaveDocumentFits, RequestRead DEF GateStep, CeoApproved
<1> QED
  BY <1>1, <1>2, <1>3, ReadingFits DEF Proceed

\* One request at a time: the one that takes a step is the one under way.
LEMMA AloneStep ==
  ASSUME IInv, Alone, Alone', NEW r \in Requests, Decide(r) \/ Proceed(r) \/ RequestDies(r)
  PROVE  OthersIdle(r)
<1>1. CASE Proceed(r) \/ RequestDies(r)
  <2>1. ~At(r, "idle")
    BY <1>1
    DEF At, Proceed, RequestDies, ReadRows, LoadThread, Resumes, ResumeEnds, ResumeReworks,
        ResumeContinues, ResumeMismatches, ResumeReturns, Regen, SaveRegen, SaveApproval,
        SaveOutcome, Finalize, StartCeo, SaveCeoInterrupt, SaveCeoDecision, SaveDocument,
        Complete, LoadCeo, ResumeCeo, SynthesizeAfterCeo
  <2> QED
    BY <2>1 DEF Alone, OthersIdle
<1>2. CASE Decide(r)
  <2>1. ASSUME NEW d \in Departments, NEW action \in Actions, DecideSection(r, d, action)
        PROVE  req'[r].pc # "idle" /\ \A s \in Requests \ {r} : req'[s] = req[s]
    BY <2>1, StoreTyped, IdleRequestType DEF DecideSection, Request, IdleRequest
  <2>2. ASSUME NEW action \in Actions, DecideCeo(r, action)
        PROVE  req'[r].pc # "idle" /\ \A s \in Requests \ {r} : req'[s] = req[s]
    BY <2>2, StoreTyped, IdleRequestType DEF DecideCeo, Request, IdleRequest
  <2>3. req'[r].pc # "idle" /\ \A s \in Requests \ {r} : req'[s] = req[s]
    BY <1>2, <2>1, <2>2 DEF Decide
  <2> QED
    BY <2>3 DEF Alone, OthersIdle, At
<1> QED
  BY <1>1, <1>2

\* The invariant is inductive for requests that come one after the other.
LEMMA SerialStep == IInv /\ SInv /\ Alone /\ Alone' /\ [Next]_vars => SInv' /\ GateStep
<1> SUFFICES ASSUME IInv, SInv, Alone, Alone', [Next]_vars PROVE SInv' /\ GateStep
  OBVIOUS
<1>1. CASE UNCHANGED vars
  <2>1. UNCHANGED storeVars /\ req' = req
    BY <1>1 DEF vars
  <2>2. StoreFits'
    BY <2>1, StoreFitsSame DEF SInv
  <2>3. RequestsFit'
    BY <2>1 DEF SInv, RequestsFit, storeVars
  <2> QED
    BY <2>1, <2>2, <2>3, GateSame DEF SInv, storeVars
<1>2. ASSUME NEW r \in Requests, Decide(r) \/ Proceed(r) \/ RequestDies(r)
      PROVE  SInv' /\ GateStep
  BY <1>2, AloneStep, DecideFits, ProceedFits, RequestDiesFits
<1> QED
  BY <1>1, <1>2 DEF Next

\* A ticket whose approval process_rfp_approval has just started.
LEMMA InitSInv == Init => SInv
<1> SUFFICES ASSUME Init PROVE SInv
  OBVIOUS
<1>1. PICK required \in BOOLEAN, forced \in SUBSET Departments :
        rows = [d \in Departments |->
                  [draft |-> FirstDraft, approval |-> "pending",
                   eval |-> [EmptyEval EXCEPT
                               !.forced = d \in forced, !.interrupt_id = 1,
                               !.arbitration = [NoArbitration EXCEPT
                                  !.present = TRUE, !.required = required]]]]
  BY DEF Init, StartedApproval
<1>2. \A d \in Departments :
        /\ rows[d].draft = FirstDraft /\ rows[d].approval = "pending"
        /\ rows[d].eval.interrupt_id = 1
        /\ rows[d].eval.arbitration.present
        /\ rows[d].eval.arbitration.required = required
  BY <1>1 DEF EmptyEval, NoArbitration
<1>3. \A d \in Departments :
        threads[d] = [next |-> "approve", id |-> 1, issued |-> 1, draft |-> FirstDraft,
                      rework |-> 0, outcome |-> "none"]
  <2>1. threads = [d \in Departments |-> StartedThread(NewThread, FirstDraft)]
    BY DEF Init, StartedApproval
  <2>2. NewThread.issued = 0
    BY DEF NewThread
  <2> QED
    BY <2>1, <2>2 DEF StartedThread
<1>4. \A d \in Departments : ThreadFits(threads[d]) /\ RowFits(rows[d], threads[d])
  BY <1>2, <1>3 DEF ThreadFits, RowFits
<1>5. DocFits
  <2>1. doc.version = 0
    BY DEF Init, StartedApproval, NoDoc
  <2> QED
    BY <2>1 DEF DocFits
<1>6. StoreFits
  BY <1>2, <1>4, <1>5 DEF StoreFits, Init, StartedApproval, NewCeoThread
<1>7. RequestsFit
  BY IdleFits DEF Init, DecisionsInit, RequestsFit
<1> QED
  BY <1>6, <1>7 DEF SInv

-----------------------------------------------------------------------------
(* Theorems *)

\* Requests that come one after the other keep what relates a row, its
\* checkpoint and the document, wherever they die.
THEOREM SerialInvariance == Spec /\ []Alone => []SInv
<1> QED
  BY InitSInv, SerialStep, Invariance, PTL DEF Spec

\* The pending interrupt a row names is one on the draft the row shows, also
\* after a request died between its checkpoint and its commit.
THEOREM InterruptNamesDraftSerially == Spec /\ []Alone => []InterruptNamesDraft
<1>1. IInv /\ SInv => InterruptNamesDraft
  BY StoreTyped DEF SInv, StoreFits, RowFits, InterruptNamesDraft
<1> QED
  BY <1>1, Invariance, SerialInvariance, PTL

\* No death of a request strands a section: it has come to an end or can be
\* decided again.
THEOREM UndecidedCanDecideSerially == Spec /\ []Alone => []UndecidedCanDecide
<1>1. IInv /\ SInv => UndecidedCanDecide
  BY DEF SInv, StoreFits, RowFits, UndecidedCanDecide
<1> QED
  BY <1>1, Invariance, SerialInvariance, PTL

\* A thread raises one interrupt more than it was reworked, so that deaths do
\* not buy further drafts of the generator.
THEOREM ReworkIsBoundedSerially == Spec /\ []Alone => []ReworkIsBounded
<1>1. IInv /\ SInv => ReworkIsBounded
  <2> SUFFICES ASSUME IInv, SInv, NEW d \in Departments
               PROVE  threads[d].issued <= ITERATION_LIMIT + 1
    BY DEF ReworkIsBounded
  <2>1. threads[d].issued = threads[d].rework + 1 /\ threads[d] \in Thread
    BY StoreTyped DEF SInv, StoreFits, ThreadFits
  <2> QED
    BY <2>1, StoreAssumption DEF Thread
<1> QED
  BY <1>1, Invariance, SerialInvariance, PTL

\* The document of a contract that needs the CEO says that the CEO approved.
THEOREM CeoLinePrintedSerially == Spec /\ []Alone => []CeoLinePrinted
<1>1. IInv /\ SInv => CeoLinePrinted
  BY StoreTyped DEF SInv, StoreFits, DocFits, CeoRequired, CeoLinePrinted
<1> QED
  BY <1>1, Invariance, SerialInvariance, PTL

\* What is printed of an approved section is the draft its owner approved.
THEOREM PublishedAsApprovedSerially == Spec /\ []Alone => []PublishedAsApproved
<1>1. IInv /\ SInv => PublishedAsApproved
  BY StoreTyped DEF SInv, StoreFits, DocFits, RowFits, PublishedAsApproved
<1> QED
  BY <1>1, Invariance, SerialInvariance, PTL

\* No document is saved before the CEO's approval is recorded, when it is asked
\* for, and no approval is recorded that the CEO did not give.
THEOREM CeoGatesDocumentSerially == Spec /\ []Alone => CeoGatesDocument
<1>1. IInv /\ SInv /\ Alone /\ Alone' /\ [Next]_vars
        => [/\ doc' # doc /\ CeoRequired => CeoApproved
            /\ CeoApproved' => CeoApproved \/ ceo.decision = "approved"]_vars
  BY SerialStep DEF GateStep
<1> QED
  BY <1>1, Invariance, SerialInvariance, PTL DEF Spec, CeoGatesDocument

\* The document of a ticket that is done is not written again.
THEOREM DoneDocumentFrozenSerially == Spec /\ []Alone => DoneDocumentFrozen
<1>1. IInv /\ SInv /\ Alone /\ Alone' /\ [Next]_vars
        => [status = "done" => doc' = doc]_vars
  BY SerialStep DEF GateStep
<1> QED
  BY <1>1, Invariance, SerialInvariance, PTL DEF Spec, DoneDocumentFrozen
=============================================================================
