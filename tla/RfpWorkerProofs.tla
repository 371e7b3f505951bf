-------------------------- MODULE RfpWorkerProofs --------------------------
(***************************************************************************)
(* Proofs about RfpWorker, for every set of departments and any number of  *)
(* messages, crashes and failures: type correctness, the refinement of the *)
(* ticket lifecycle, and that the two stores agree on the interrupts and   *)
(* the worker leaves a started approval alone.                             *)
(***************************************************************************)
EXTENDS RfpWorker, TLAPS

-----------------------------------------------------------------------------
(* The inductive invariant *)

\* The loops of process_rfp_approval run over departments that have a row.
SectionsThere ==
  worker.pc \in {"stamp", "start_threads", "save_interrupt"} =>
    worker.todo \subseteq worker.deps /\ worker.deps \subseteq DOMAIN rows

\* The status a task has reached is still the status of the ticket: only the
\* task itself moves it on.  A task that was refused knows no department.
StatusOfTask ==
  /\ worker.pc \in {"run_response", "save_drafts", "to_under_evaluation"}
       => status = "drafting"
  /\ worker.pc = "to_drafting" => worker.deps = {}
  /\ worker.pc = "recover" /\ worker.todo # {} => status = "drafting"
  /\ worker.pc \in {"arbitrate", "stamp"} => status = "under_evaluation"
  /\ worker.pc \in {"start_threads", "save_interrupt"}
       => status = "waiting_for_approval"

\* The departments whose thread is still to be started have no interrupt; the
\* one whose thread was started last waits with the draft of its row.
StartingInOrder ==
  /\ worker.pc \in {"start_threads", "save_interrupt"} =>
       \A d \in worker.todo : rows[d].eval.interrupt_id = 0
  /\ worker.pc = "save_interrupt" =>
       /\ worker.cur \in worker.todo
       /\ threads[worker.cur].next = "approve"
       /\ threads[worker.cur].draft = rows[worker.cur].draft

IInv ==
  /\ TypeOK
  /\ SectionsThere
  /\ StatusOfTask
  /\ InterruptsAreLive
  /\ StartingInOrder

-----------------------------------------------------------------------------
(* Type correctness *)

\* The records the model starts from belong to their types.
LEMMA InitialRecords ==
  /\ EmptyEval \in Eval
  /\ NewRow \in Row
  /\ NewThread \in Thread
  /\ NewCeoThread \in CeoThread
  /\ IdleWorker \in Worker
<1>1. EmptyEval \in Eval
  BY DEF EmptyEval, Eval, NoArbitration, Arbitration, Decision
<1>2. NewRow \in Row
  BY <1>1 DEF NewRow, Row, NullDraft
<1>3. NewThread \in Thread
  BY StoreAssumption DEF NewThread, Thread, NullDraft
<1>4. NewCeoThread \in CeoThread
  BY DEF NewCeoThread, CeoThread, Decision
<1>5. IdleWorker \in Worker
  BY StoreAssumption DEF IdleWorker, Worker, Tasks, Pc
<1> QED
  BY <1>1, <1>2, <1>3, <1>4, <1>5

\* A started thread is a thread.
LEMMA StartedThreadType ==
  ASSUME NEW thread \in Thread, NEW draft \in Nat
  PROVE  StartedThread(thread, draft) \in Thread
BY StoreAssumption DEF StartedThread, Thread

\* merge_evaluation_results with an interrupt id, or with arbitration stamps.
LEMMA MergedType ==
  ASSUME NEW row \in Row
  PROVE  /\ \A id \in Nat : [row EXCEPT !.eval.interrupt_id = id] \in Row
         /\ \A arbitration \in Arbitration, forced \in BOOLEAN :
              [row EXCEPT !.eval.arbitration = arbitration,
                          !.eval.forced = forced] \in Row
<1>1. row.eval \in Eval
  BY DEF Row
<1>2. \A id \in Nat : [row EXCEPT !.eval.interrupt_id = id] \in Row
  <2> TAKE id \in Nat
  <2>1. [row.eval EXCEPT !.interrupt_id = id] \in Eval
    BY <1>1 DEF Eval
  <2> QED
    BY <2>1 DEF Row
<1>3. \A arbitration \in Arbitration, forced \in BOOLEAN :
        [row EXCEPT !.eval.arbitration = arbitration, !.eval.forced = forced] \in Row
  <2> TAKE arbitration \in Arbitration, forced \in BOOLEAN
  <2>1. [row.eval EXCEPT !.arbitration = arbitration, !.forced = forced] \in Eval
    BY <1>1 DEF Eval
  <2> QED
    BY <2>1 DEF Row
<1> QED
  BY <1>2, <1>3

\* Writing one row keeps the table a table, whether the row is there or not.
LEMMA RowWritten ==
  ASSUME NEW table, DOMAIN table \in SUBSET Departments,
         table \in [DOMAIN table -> Row],
         NEW d, NEW row, d \in DOMAIN table => row \in Row
  PROVE  /\ DOMAIN [table EXCEPT ![d] = row] = DOMAIN table
         /\ [table EXCEPT ![d] = row] \in [DOMAIN table -> Row]
OBVIOUS

\* Every step keeps the types.
LEMMA TypeStep == TypeOK /\ SectionsThere /\ [Next]_vars => TypeOK'
<1> SUFFICES ASSUME TypeOK, SectionsThere, [Next]_vars PROVE TypeOK'
  OBVIOUS
<1> USE WorkerAssumption, StoreAssumption, InitialRecords
<1>1. CASE post_ticket
  BY <1>1 DEF post_ticket, TypeOK, StoreTypeOK, storeVars, Worker, Pc, Goto, Loop, Enqueue, RFP_STATUSES, CanUpdateStatus, Tasks
<1>2. CASE post_ticket_enqueue_fails
  BY <1>2 DEF post_ticket_enqueue_fails, TypeOK, StoreTypeOK, storeVars, Worker, Pc, Goto, Loop, Enqueue, RFP_STATUSES, CanUpdateStatus, Tasks
<1>3. CASE post_ticket_response
  BY <1>3 DEF post_ticket_response, TypeOK, StoreTypeOK, storeVars, Worker, Pc, Goto, Loop, Enqueue, RFP_STATUSES, CanUpdateStatus, Tasks
<1>4. CASE post_ticket_approval
  BY <1>4 DEF post_ticket_approval, TypeOK, StoreTypeOK, storeVars, Worker, Pc, Goto, Loop, Enqueue, RFP_STATUSES, CanUpdateStatus, Tasks
<1>5. CASE Ack
  BY <1>5 DEF Ack, TypeOK, StoreTypeOK, storeVars, Worker, Pc, Goto, Loop, Enqueue, RFP_STATUSES, CanUpdateStatus, Tasks
<1>6. CASE StoreFails
  BY <1>6 DEF StoreFails, TypeOK, StoreTypeOK, storeVars, Worker, Pc, Goto, Loop, Enqueue, RFP_STATUSES, CanUpdateStatus, Tasks
<1>7. CASE WorkerCrash
  BY <1>7 DEF WorkerCrash, TypeOK, StoreTypeOK, storeVars, Worker, Pc, Goto, Loop, Enqueue, RFP_STATUSES, CanUpdateStatus, Tasks
<1>8. CASE IntakeDiscards
  BY <1>8 DEF IntakeDiscards, TypeOK, StoreTypeOK, storeVars, Worker, Pc, Goto, Loop, Enqueue, RFP_STATUSES, CanUpdateStatus, Tasks
<1>9. CASE IntakeAccepts
  BY <1>9 DEF IntakeAccepts, TypeOK, StoreTypeOK, storeVars, Worker, Pc, Goto, Loop, Enqueue, RFP_STATUSES, CanUpdateStatus, Tasks
<1>10. CASE SaveMetadata
  BY <1>10 DEF SaveMetadata, TypeOK, StoreTypeOK, storeVars, Worker, Pc, Goto, Loop, Enqueue, RFP_STATUSES, CanUpdateStatus, Tasks
<1>11. CASE SaveSections
  BY <1>11 DEF SaveSections, TypeOK, StoreTypeOK, storeVars, Worker, Pc, Goto, Loop, Enqueue, RFP_STATUSES, CanUpdateStatus, Tasks
<1>12. CASE SaveSectionsConflict
  BY <1>12 DEF SaveSectionsConflict, TypeOK, StoreTypeOK, storeVars, Worker, Pc, Goto, Loop, Enqueue, RFP_STATUSES, CanUpdateStatus, Tasks
<1>13. CASE IntakeCompletes
  BY <1>13 DEF IntakeCompletes, TypeOK, StoreTypeOK, storeVars, Worker, Pc, Goto, Loop, Enqueue, RFP_STATUSES, CanUpdateStatus, Tasks
<1>14. CASE StartDrafting
  BY <1>14 DEF StartDrafting, TypeOK, StoreTypeOK, storeVars, Worker, Pc, Goto, Loop, Enqueue, RFP_STATUSES, CanUpdateStatus, Tasks
<1>15. CASE DraftingRefused
  BY <1>15 DEF DraftingRefused, TypeOK, StoreTypeOK, storeVars, Worker, Pc, Goto, Loop, Enqueue, RFP_STATUSES, CanUpdateStatus, Tasks
<1>16. CASE RunResponse
  BY <1>16 DEF RunResponse, TypeOK, StoreTypeOK, storeVars, Worker, Pc, Goto, Loop, Enqueue, RFP_STATUSES, CanUpdateStatus, Tasks
<1>17. CASE DraftsSaved
  BY <1>17 DEF DraftsSaved, TypeOK, StoreTypeOK, storeVars, Worker, Pc, Goto, Loop, Enqueue, RFP_STATUSES, CanUpdateStatus, Tasks
<1>18. CASE SectionMissing
  BY <1>18 DEF SectionMissing, TypeOK, StoreTypeOK, storeVars, Worker, Pc, Goto, Loop, Enqueue, RFP_STATUSES, CanUpdateStatus, Tasks
<1>19. CASE ResponseGraphFails
  <2>1. worker' \in Worker
    BY <1>19 DEF ResponseGraphFails, TypeOK, StoreTypeOK, Worker, Pc
  <2> QED
    BY <1>19, <2>1 DEF ResponseGraphFails, TypeOK, StoreTypeOK, storeVars, Worker, Pc, Goto, Loop, Enqueue, RFP_STATUSES, CanUpdateStatus, Tasks
<1>20. CASE ResponseCompletes
  BY <1>20 DEF ResponseCompletes, TypeOK, StoreTypeOK, storeVars, Worker, Pc, Goto, Loop, Enqueue, RFP_STATUSES, CanUpdateStatus, Tasks
<1>21. CASE RecoverStatus
  BY <1>21 DEF RecoverStatus, TypeOK, StoreTypeOK, storeVars, Worker, Pc, Goto, Loop, Enqueue, RFP_STATUSES, CanUpdateStatus, Tasks
<1>22. CASE CheckApprovalStatus
  BY <1>22 DEF CheckApprovalStatus, TypeOK, StoreTypeOK, storeVars, Worker, Pc, Goto, Loop, Enqueue, RFP_STATUSES, CanUpdateStatus, Tasks
<1>23. CASE Arbitrate
  BY <1>23 DEF Arbitrate, TypeOK, StoreTypeOK, storeVars, Worker, Pc, Goto, Loop, Enqueue, RFP_STATUSES, CanUpdateStatus, Tasks
<1>24. CASE NumbersUnmergeable
  BY <1>24 DEF NumbersUnmergeable, TypeOK, StoreTypeOK, storeVars, Worker, Pc, Goto, Loop, Enqueue, RFP_STATUSES, CanUpdateStatus, Tasks
<1>25. CASE FlipToWaiting
  BY <1>25 DEF FlipToWaiting, TypeOK, StoreTypeOK, storeVars, Worker, Pc, Goto, Loop, Enqueue, RFP_STATUSES, CanUpdateStatus, Tasks
<1>26. CASE SaveInterrupt
  <2>1. worker' \in Worker
    BY <1>26 DEF SaveInterrupt, TypeOK, Worker, Pc
  <2> DEFINE row == [rows[worker.cur] EXCEPT !.eval.interrupt_id = threads[worker.cur].id]
  <2>2. worker.cur \in DOMAIN rows => row \in Row
    <3>1. threads[worker.cur].id \in Nat
      BY DEF TypeOK, StoreTypeOK, Worker, Thread
    <3> QED
      BY <3>1, MergedType DEF TypeOK, StoreTypeOK
  <2>3. rows' = [rows EXCEPT ![worker.cur] = row]
    BY <1>26 DEF SaveInterrupt
  <2>4. StoreTypeOK'
    BY <1>26, <2>2, <2>3, RowWritten DEF SaveInterrupt, TypeOK, StoreTypeOK
  <2> QED
    BY <1>26, <2>1, <2>4 DEF SaveInterrupt, TypeOK
<1>27. CASE ApprovalStarted
  BY <1>27 DEF ApprovalStarted, TypeOK, StoreTypeOK, storeVars, Worker, Pc, Goto, Loop, Enqueue, RFP_STATUSES, CanUpdateStatus, Tasks
<1>28. CASE ApprovalFails
  BY <1>28 DEF ApprovalFails, TypeOK, StoreTypeOK, storeVars, Worker, Pc, Goto, Loop, Enqueue, RFP_STATUSES, CanUpdateStatus, Tasks
<1>29. CASE FlagForReview
  <2>1. worker' \in Worker
    BY <1>29 DEF FlagForReview, Goto, TypeOK, Worker, Pc
  <2>2. PICK flagged \in SUBSET (worker.deps \cap DOMAIN rows) :
          rows' = [d \in DOMAIN rows |->
                     IF d \in flagged THEN [rows[d] EXCEPT !.eval.review = TRUE]
                                      ELSE rows[d]]
    BY <1>29 DEF FlagForReview
  <2>3. \A d \in DOMAIN rows : [rows[d] EXCEPT !.eval.review = TRUE] \in Row
    BY DEF TypeOK, StoreTypeOK, Row, Eval
  <2>4. StoreTypeOK'
    BY <1>29, <2>2, <2>3 DEF FlagForReview, TypeOK, StoreTypeOK
  <2> QED
    BY <1>29, <2>1, <2>4 DEF FlagForReview, TypeOK
<1>30. ASSUME NEW t \in Tasks, Deliver(t) PROVE TypeOK'
  <2>1. Entry[t] \in Pc
    BY <1>30 DEF Entry, Pc, Tasks
  <2>2. worker' \in Worker
    BY <1>30, <2>1 DEF Deliver, Worker
  <2>3. queue' \in [Tasks -> Nat]
    BY <1>30 DEF Deliver, TypeOK
  <2> QED
    BY <1>30, <2>2, <2>3 DEF Deliver, TypeOK, StoreTypeOK, storeVars
<1>31. ASSUME NEW d \in Departments, SaveDraft(d) PROVE TypeOK'
  <2>1. worker' \in Worker
    BY <1>31 DEF SaveDraft, TypeOK, Worker
  <2>2. PICK review \in BOOLEAN :
          rows' = [rows EXCEPT ![d] =
                     Replaced(@, FirstDraft, [EmptyEval EXCEPT !.review = review])]
    BY <1>31 DEF SaveDraft
  <2>3. d \in DOMAIN rows =>
          Replaced(rows[d], FirstDraft, [EmptyEval EXCEPT !.review = review]) \in Row
    BY DEF TypeOK, StoreTypeOK, Replaced, Row, Eval, FirstDraft
  <2>4. StoreTypeOK'
    BY <1>31, <2>2, <2>3, RowWritten DEF SaveDraft, TypeOK, StoreTypeOK
  <2> QED
    BY <1>31, <2>1, <2>4 DEF SaveDraft, TypeOK
<1>32. ASSUME NEW d \in Departments, RecoverSection(d) PROVE TypeOK'
  <2>1. worker' \in Worker
    BY <1>32 DEF RecoverSection, TypeOK, Worker
  <2>2. \/ rows' = rows
        \/ rows' = [rows EXCEPT ![d] =
                      Replaced(@, BlankDraft, [EmptyEval EXCEPT !.review = TRUE])]
    BY <1>32 DEF RecoverSection
  <2>3. d \in DOMAIN rows =>
          Replaced(rows[d], BlankDraft, [EmptyEval EXCEPT !.review = TRUE]) \in Row
    BY DEF TypeOK, StoreTypeOK, Replaced, Row, Eval, BlankDraft
  <2>4. StoreTypeOK'
    BY <1>32, <2>2, <2>3, RowWritten DEF RecoverSection, TypeOK, StoreTypeOK
  <2> QED
    BY <1>32, <2>1, <2>4 DEF RecoverSection, TypeOK
<1>33. ASSUME NEW d \in Departments, StampSection(d) PROVE TypeOK'
  <2>1. worker' \in Worker
    BY <1>33 DEF StampSection, TypeOK, Worker
  <2> DEFINE stamp == [NoArbitration EXCEPT !.present = TRUE,
                                         !.required = worker.required]
             row == [rows[d] EXCEPT !.eval.arbitration = stamp,
                                    !.eval.forced = @ \/ d \in worker.forced]
  <2>2. rows' = [rows EXCEPT ![d] = row]
    BY <1>33 DEF StampSection
  <2>3. d \in DOMAIN rows => row \in Row
    <3>1. stamp \in Arbitration
      BY DEF TypeOK, Worker, Arbitration, NoArbitration, Decision
    <3> QED
      BY <3>1 DEF TypeOK, StoreTypeOK, Row, Eval
  <2>4. UNCHANGED <<status, needed, threads, ceo, doc, queue, crashes, faults>>
    BY <1>33 DEF StampSection
  <2> HIDE DEF row
  <2>5. /\ DOMAIN rows' = DOMAIN rows
        /\ rows' \in [DOMAIN rows -> Row]
    BY <2>2, <2>3, RowWritten DEF TypeOK, StoreTypeOK
  <2> QED
    BY <2>1, <2>4, <2>5 DEF TypeOK, StoreTypeOK
<1>34. ASSUME NEW d \in Departments, StartThread(d) PROVE TypeOK'
  <2>1. worker' \in Worker
    BY <1>34 DEF StartThread, TypeOK, Worker, Pc
  <2> DEFINE thread == StartedThread(threads[d], rows[d].draft)
  <2>2. threads' = [threads EXCEPT ![d] = thread]
    BY <1>34 DEF StartThread
  <2>3. thread \in Thread
    <3>1. d \in DOMAIN rows
      BY <1>34 DEF StartThread, SectionsThere
    <3> QED
      BY <3>1, StartedThreadType DEF TypeOK, StoreTypeOK, Row
  <2> HIDE DEF thread
  <2>4. StoreTypeOK'
    BY <1>34, <2>2, <2>3 DEF StartThread, TypeOK, StoreTypeOK
  <2> QED
    BY <1>34, <2>1, <2>4 DEF StartThread, TypeOK
<1>35. CASE UNCHANGED vars
  BY <1>35 DEF vars, workerVars, TypeOK, StoreTypeOK, storeVars, Worker, Pc, Goto, Loop, Enqueue, RFP_STATUSES, CanUpdateStatus, Tasks
<1> QED
  BY <1>1, <1>2, <1>3, <1>4, <1>5, <1>6, <1>7, <1>8, <1>9, <1>10, <1>11, <1>12, <1>13, <1>14, <1>15, <1>16, <1>17, <1>18, <1>19, <1>20, <1>21, <1>22, <1>23, <1>24, <1>25, <1>26, <1>27, <1>28, <1>29, <1>30, <1>31, <1>32, <1>33, <1>34, <1>35
  DEF Next, Routes, WorkerStep, WorkerFailure, IntakeStep, ResponseStep, ApprovalStep

\* The loops keep running over departments that have a row.
LEMMA SectionsThereStep == IInv /\ Next => SectionsThere'
<1> SUFFICES ASSUME IInv, Next PROVE SectionsThere'
  OBVIOUS
<1> USE DEF IInv, SectionsThere, Entry, IdleWorker, TypeOK, StoreTypeOK, storeVars, Worker, Goto, Loop, Enqueue, CanUpdateStatus, validate_transition
<1>1. CASE post_ticket
  BY <1>1 DEF post_ticket
<1>2. CASE post_ticket_enqueue_fails
  BY <1>2 DEF post_ticket_enqueue_fails
<1>3. CASE post_ticket_response
  BY <1>3 DEF post_ticket_response
<1>4. CASE post_ticket_approval
  BY <1>4 DEF post_ticket_approval
<1>5. CASE Ack
  BY <1>5 DEF Ack
<1>6. CASE StoreFails
  BY <1>6 DEF StoreFails
<1>7. CASE WorkerCrash
  BY <1>7 DEF WorkerCrash
<1>8. CASE IntakeDiscards
  BY <1>8 DEF IntakeDiscards
<1>9. CASE IntakeAccepts
  BY <1>9 DEF IntakeAccepts
<1>10. CASE SaveMetadata
  BY <1>10 DEF SaveMetadata
<1>11. CASE SaveSections
  BY <1>11 DEF SaveSections
<1>12. CASE SaveSectionsConflict
  BY <1>12 DEF SaveSectionsConflict
<1>13. CASE IntakeCompletes
  BY <1>13 DEF IntakeCompletes
<1>14. CASE StartDrafting
  BY <1>14 DEF StartDrafting
<1>15. CASE DraftingRefused
  BY <1>15 DEF DraftingRefused
<1>16. CASE RunResponse
  BY <1>16 DEF RunResponse
<1>17. CASE DraftsSaved
  BY <1>17 DEF DraftsSaved
<1>18. CASE SectionMissing
  BY <1>18 DEF SectionMissing
<1>19. CASE ResponseGraphFails
  BY <1>19 DEF ResponseGraphFails
<1>20. CASE ResponseCompletes
  BY <1>20 DEF ResponseCompletes
<1>21. CASE RecoverStatus
  BY <1>21 DEF RecoverStatus
<1>22. CASE CheckApprovalStatus
  BY <1>22 DEF CheckApprovalStatus
<1>23. CASE Arbitrate
  BY <1>23 DEF Arbitrate
<1>24. CASE NumbersUnmergeable
  BY <1>24 DEF NumbersUnmergeable
<1>25. CASE FlipToWaiting
  BY <1>25 DEF FlipToWaiting
<1>26. CASE SaveInterrupt
  BY <1>26 DEF SaveInterrupt
<1>27. CASE ApprovalStarted
  BY <1>27 DEF ApprovalStarted
<1>28. CASE ApprovalFails
  BY <1>28 DEF ApprovalFails
<1>29. CASE FlagForReview
  BY <1>29 DEF FlagForReview
<1>30. ASSUME NEW t \in Tasks, Deliver(t) PROVE SectionsThere'
  BY <1>30 DEF Deliver
<1>31. ASSUME NEW d \in Departments, SaveDraft(d) PROVE SectionsThere'
  BY <1>31 DEF SaveDraft
<1>32. ASSUME NEW d \in Departments, RecoverSection(d) PROVE SectionsThere'
  BY <1>32 DEF RecoverSection
<1>33. ASSUME NEW d \in Departments, StampSection(d) PROVE SectionsThere'
  BY <1>33 DEF StampSection
<1>34. ASSUME NEW d \in Departments, StartThread(d) PROVE SectionsThere'
  BY <1>34 DEF StartThread
<1> QED
  BY <1>1, <1>2, <1>3, <1>4, <1>5, <1>6, <1>7, <1>8, <1>9, <1>10, <1>11, <1>12, <1>13, <1>14, <1>15, <1>16, <1>17, <1>18, <1>19, <1>20, <1>21, <1>22, <1>23, <1>24, <1>25, <1>26, <1>27, <1>28, <1>29, <1>30, <1>31, <1>32, <1>33, <1>34
  DEF Next, Routes, WorkerStep, WorkerFailure, IntakeStep, ResponseStep, ApprovalStep

\* No step takes the status from under the task that is running.
LEMMA StatusOfTaskStep == IInv /\ Next => StatusOfTask'
<1> SUFFICES ASSUME IInv, Next PROVE StatusOfTask'
  OBVIOUS
<1> USE DEF IInv, StatusOfTask, Entry, IdleWorker, Absent, TypeOK, StoreTypeOK, storeVars, Worker, Goto, Loop, Enqueue, CanUpdateStatus, validate_transition
<1>1. CASE post_ticket
  BY <1>1 DEF post_ticket
<1>2. CASE post_ticket_enqueue_fails
  BY <1>2 DEF post_ticket_enqueue_fails
<1>3. CASE post_ticket_response
  BY <1>3 DEF post_ticket_response
<1>4. CASE post_ticket_approval
  BY <1>4 DEF post_ticket_approval
<1>5. CASE Ack
  BY <1>5 DEF Ack
<1>6. CASE StoreFails
  BY <1>6 DEF StoreFails
<1>7. CASE WorkerCrash
  BY <1>7 DEF WorkerCrash
<1>8. CASE IntakeDiscards
  BY <1>8 DEF IntakeDiscards
<1>9. CASE IntakeAccepts
  BY <1>9 DEF IntakeAccepts
<1>10. CASE SaveMetadata
  BY <1>10 DEF SaveMetadata
<1>11. CASE SaveSections
  BY <1>11 DEF SaveSections
<1>12. CASE SaveSectionsConflict
  BY <1>12 DEF SaveSectionsConflict
<1>13. CASE IntakeCompletes
  BY <1>13 DEF IntakeCompletes
<1>14. CASE StartDrafting
  BY <1>14 DEF StartDrafting
<1>15. CASE DraftingRefused
  BY <1>15 DEF DraftingRefused
<1>16. CASE RunResponse
  BY <1>16 DEF RunResponse
<1>17. CASE DraftsSaved
  BY <1>17 DEF DraftsSaved
<1>18. CASE SectionMissing
  BY <1>18 DEF SectionMissing
<1>19. CASE ResponseGraphFails
  BY <1>19 DEF ResponseGraphFails
<1>20. CASE ResponseCompletes
  BY <1>20 DEF ResponseCompletes
<1>21. CASE RecoverStatus
  BY <1>21 DEF RecoverStatus
<1>22. CASE CheckApprovalStatus
  BY <1>22 DEF CheckApprovalStatus
<1>23. CASE Arbitrate
  BY <1>23 DEF Arbitrate
<1>24. CASE NumbersUnmergeable
  BY <1>24 DEF NumbersUnmergeable
<1>25. CASE FlipToWaiting
  BY <1>25 DEF FlipToWaiting
<1>26. CASE SaveInterrupt
  BY <1>26 DEF SaveInterrupt
<1>27. CASE ApprovalStarted
  BY <1>27 DEF ApprovalStarted
<1>28. CASE ApprovalFails
  BY <1>28 DEF ApprovalFails
<1>29. CASE FlagForReview
  BY <1>29 DEF FlagForReview
<1>30. ASSUME NEW t \in Tasks, Deliver(t) PROVE StatusOfTask'
  BY <1>30 DEF Deliver
<1>31. ASSUME NEW d \in Departments, SaveDraft(d) PROVE StatusOfTask'
  BY <1>31 DEF SaveDraft
<1>32. ASSUME NEW d \in Departments, RecoverSection(d) PROVE StatusOfTask'
  BY <1>32 DEF RecoverSection
<1>33. ASSUME NEW d \in Departments, StampSection(d) PROVE StatusOfTask'
  BY <1>33 DEF StampSection
<1>34. ASSUME NEW d \in Departments, StartThread(d) PROVE StatusOfTask'
  BY <1>34 DEF StartThread
<1> QED
  BY <1>1, <1>2, <1>3, <1>4, <1>5, <1>6, <1>7, <1>8, <1>9, <1>10, <1>11, <1>12, <1>13, <1>14, <1>15, <1>16, <1>17, <1>18, <1>19, <1>20, <1>21, <1>22, <1>23, <1>24, <1>25, <1>26, <1>27, <1>28, <1>29, <1>30, <1>31, <1>32, <1>33, <1>34
  DEF Next, Routes, WorkerStep, WorkerFailure, IntakeStep, ResponseStep, ApprovalStep

\* Threads are started one by one, each before its interrupt is stored.
LEMMA StartingInOrderStep == IInv /\ Next => StartingInOrder'
<1> SUFFICES ASSUME IInv, Next PROVE StartingInOrder'
  OBVIOUS
<1> USE DEF IInv, StartingInOrder, StatusOfTask, SectionsThere, InterruptsAreLive, Approving, Entry, IdleWorker, StartedThread, Row, Eval, TypeOK, StoreTypeOK, storeVars, Worker, Goto, Loop, Enqueue, CanUpdateStatus, validate_transition
<1>1. CASE post_ticket
  BY <1>1 DEF post_ticket
<1>2. CASE post_ticket_enqueue_fails
  BY <1>2 DEF post_ticket_enqueue_fails
<1>3. CASE post_ticket_response
  BY <1>3 DEF post_ticket_response
<1>4. CASE post_ticket_approval
  BY <1>4 DEF post_ticket_approval
<1>5. CASE Ack
  BY <1>5 DEF Ack
<1>6. CASE StoreFails
  BY <1>6 DEF StoreFails
<1>7. CASE WorkerCrash
  BY <1>7 DEF WorkerCrash
<1>8. CASE IntakeDiscards
  BY <1>8 DEF IntakeDiscards
<1>9. CASE IntakeAccepts
  BY <1>9 DEF IntakeAccepts
<1>10. CASE SaveMetadata
  BY <1>10 DEF SaveMetadata
<1>11. CASE SaveSections
  BY <1>11 DEF SaveSections
<1>12. CASE SaveSectionsConflict
  BY <1>12 DEF SaveSectionsConflict
<1>13. CASE IntakeCompletes
  BY <1>13 DEF IntakeCompletes
<1>14. CASE StartDrafting
  BY <1>14 DEF StartDrafting
<1>15. CASE DraftingRefused
  BY <1>15 DEF DraftingRefused
<1>16. CASE RunResponse
  BY <1>16 DEF RunResponse
<1>17. CASE DraftsSaved
  BY <1>17 DEF DraftsSaved
<1>18. CASE SectionMissing
  BY <1>18 DEF SectionMissing
<1>19. CASE ResponseGraphFails
  BY <1>19 DEF ResponseGraphFails
<1>20. CASE ResponseCompletes
  BY <1>20 DEF ResponseCompletes
<1>21. CASE RecoverStatus
  BY <1>21 DEF RecoverStatus
<1>22. CASE CheckApprovalStatus
  BY <1>22 DEF CheckApprovalStatus
<1>23. CASE Arbitrate
  BY <1>23 DEF Arbitrate
<1>24. CASE NumbersUnmergeable
  BY <1>24 DEF NumbersUnmergeable
<1>25. CASE FlipToWaiting
  BY <1>25 DEF FlipToWaiting
<1>26. CASE SaveInterrupt
  BY <1>26 DEF SaveInterrupt
<1>27. CASE ApprovalStarted
  BY <1>27 DEF ApprovalStarted
<1>28. CASE ApprovalFails
  BY <1>28 DEF ApprovalFails
<1>29. CASE FlagForReview
  BY <1>29 DEF FlagForReview
<1>30. ASSUME NEW t \in Tasks, Deliver(t) PROVE StartingInOrder'
  BY <1>30 DEF Deliver
<1>31. ASSUME NEW d \in Departments, SaveDraft(d) PROVE StartingInOrder'
  BY <1>31 DEF SaveDraft
<1>32. ASSUME NEW d \in Departments, RecoverSection(d) PROVE StartingInOrder'
  BY <1>32 DEF RecoverSection
<1>33. ASSUME NEW d \in Departments, StampSection(d) PROVE StartingInOrder'
  BY <1>33 DEF StampSection
<1>34. ASSUME NEW d \in Departments, StartThread(d) PROVE StartingInOrder'
  BY <1>34 DEF StartThread
<1> QED
  BY <1>1, <1>2, <1>3, <1>4, <1>5, <1>6, <1>7, <1>8, <1>9, <1>10, <1>11, <1>12, <1>13, <1>14, <1>15, <1>16, <1>17, <1>18, <1>19, <1>20, <1>21, <1>22, <1>23, <1>24, <1>25, <1>26, <1>27, <1>28, <1>29, <1>30, <1>31, <1>32, <1>33, <1>34
  DEF Next, Routes, WorkerStep, WorkerFailure, IntakeStep, ResponseStep, ApprovalStep

\* The two stores stay in agreement.
LEMMA InterruptsAreLiveStep == IInv /\ Next => InterruptsAreLive'
<1> SUFFICES ASSUME IInv, Next PROVE InterruptsAreLive'
  OBVIOUS
<1> USE DEF IInv, InterruptsAreLive, StartingInOrder, StatusOfTask, SectionsThere, Approving, Absent, NewRow, EmptyEval, Replaced, RFP_STATUSES, RFP_ALLOWED_TRANSITIONS, Row, Eval, Thread, StartedThread, Entry, TypeOK, StoreTypeOK, storeVars, Worker, Goto, Loop, Enqueue, CanUpdateStatus, validate_transition
<1>1. CASE post_ticket
  BY <1>1 DEF post_ticket
<1>2. CASE post_ticket_enqueue_fails
  BY <1>2 DEF post_ticket_enqueue_fails
<1>3. CASE post_ticket_response
  BY <1>3 DEF post_ticket_response
<1>4. CASE post_ticket_approval
  BY <1>4 DEF post_ticket_approval
<1>5. CASE Ack
  BY <1>5 DEF Ack
<1>6. CASE StoreFails
  BY <1>6 DEF StoreFails
<1>7. CASE WorkerCrash
  BY <1>7 DEF WorkerCrash
<1>8. CASE IntakeDiscards
  BY <1>8 DEF IntakeDiscards
<1>9. CASE IntakeAccepts
  BY <1>9 DEF IntakeAccepts
<1>10. CASE SaveMetadata
  BY <1>10 DEF SaveMetadata
<1>11. CASE SaveSections
  BY <1>11 DEF SaveSections
<1>12. CASE SaveSectionsConflict
  BY <1>12 DEF SaveSectionsConflict
<1>13. CASE IntakeCompletes
  BY <1>13 DEF IntakeCompletes
<1>14. CASE StartDrafting
  BY <1>14 DEF StartDrafting
<1>15. CASE DraftingRefused
  BY <1>15 DEF DraftingRefused
<1>16. CASE RunResponse
  BY <1>16 DEF RunResponse
<1>17. CASE DraftsSaved
  BY <1>17 DEF DraftsSaved
<1>18. CASE SectionMissing
  BY <1>18 DEF SectionMissing
<1>19. CASE ResponseGraphFails
  BY <1>19 DEF ResponseGraphFails
<1>20. CASE ResponseCompletes
  BY <1>20 DEF ResponseCompletes
<1>21. CASE RecoverStatus
  BY <1>21 DEF RecoverStatus
<1>22. CASE CheckApprovalStatus
  BY <1>22 DEF CheckApprovalStatus
<1>23. CASE Arbitrate
  BY <1>23 DEF Arbitrate
<1>24. CASE NumbersUnmergeable
  BY <1>24 DEF NumbersUnmergeable
<1>25. CASE FlipToWaiting
  BY <1>25 DEF FlipToWaiting
<1>26. CASE SaveInterrupt
  BY <1>26 DEF SaveInterrupt
<1>27. CASE ApprovalStarted
  BY <1>27 DEF ApprovalStarted
<1>28. CASE ApprovalFails
  BY <1>28 DEF ApprovalFails
<1>29. CASE FlagForReview
  BY <1>29 DEF FlagForReview
<1>30. ASSUME NEW t \in Tasks, Deliver(t) PROVE InterruptsAreLive'
  BY <1>30 DEF Deliver
<1>31. ASSUME NEW d \in Departments, SaveDraft(d) PROVE InterruptsAreLive'
  BY <1>31 DEF SaveDraft
<1>32. ASSUME NEW d \in Departments, RecoverSection(d) PROVE InterruptsAreLive'
  BY <1>32 DEF RecoverSection
<1>33. ASSUME NEW d \in Departments, StampSection(d) PROVE InterruptsAreLive'
  BY <1>33 DEF StampSection
<1>34. ASSUME NEW d \in Departments, StartThread(d) PROVE InterruptsAreLive'
  BY <1>34 DEF StartThread
<1> QED
  BY <1>1, <1>2, <1>3, <1>4, <1>5, <1>6, <1>7, <1>8, <1>9, <1>10, <1>11, <1>12, <1>13, <1>14, <1>15, <1>16, <1>17, <1>18, <1>19, <1>20, <1>21, <1>22, <1>23, <1>24, <1>25, <1>26, <1>27, <1>28, <1>29, <1>30, <1>31, <1>32, <1>33, <1>34
  DEF Next, Routes, WorkerStep, WorkerFailure, IntakeStep, ResponseStep, ApprovalStep

-----------------------------------------------------------------------------
(* The invariant holds *)

\* Before the upload there is nothing the invariant says anything of.
LEMMA InitIInv == Init => IInv
<1> SUFFICES ASSUME Init PROVE IInv
  OBVIOUS
<1>1. TypeOK
  BY InitialRecords, WorkerAssumption
  DEF Init, StoreInit, TypeOK, StoreTypeOK, RFP_STATUSES, NoDoc, NullDraft, Tasks
<1>2. worker.pc = "idle" /\ DOMAIN rows = {}
  BY DEF Init, StoreInit, IdleWorker
<1> QED
  BY <1>1, <1>2
  DEF IInv, SectionsThere, StatusOfTask, InterruptsAreLive, StartingInOrder

\* A stuttering step changes nothing the invariant reads.
LEMMA StutterIInv == IInv /\ UNCHANGED vars => IInv'
<1> SUFFICES ASSUME IInv, UNCHANGED vars PROVE IInv'
  OBVIOUS
<1>1. TypeOK'
  BY TypeStep DEF IInv
<1> QED
  BY <1>1
  DEF IInv, vars, storeVars, workerVars, SectionsThere, StatusOfTask,
      InterruptsAreLive, StartingInOrder

\* The inductive invariant holds in every behaviour of the worker.
THEOREM Invariance == Spec => []IInv
<1>1. IInv /\ [Next]_vars => IInv'
  <2>1. IInv /\ Next => IInv'
    BY TypeStep, SectionsThereStep, StatusOfTaskStep, StartingInOrderStep,
       InterruptsAreLiveStep DEF IInv
  <2> QED
    BY <2>1, StutterIInv
<1> QED
  BY <1>1, InitIInv, PTL DEF Spec

\* The variables of the model keep their types in every behaviour.
THEOREM TypeCorrect == Spec => []TypeOK
<1>1. IInv => TypeOK
  BY DEF IInv
<1> QED
  BY <1>1, Invariance, PTL

\* The interrupt id in Postgres is the one the SQLite checkpoint waits for, for
\* the draft that is in the row, wherever the worker crashes.
THEOREM StoresAgree == Spec => []InterruptsAreLive
<1>1. IInv => InterruptsAreLive
  BY DEF IInv
<1> QED
  BY <1>1, Invariance, PTL

\* A step that begins with the approval started leaves it alone.
LEMMA ApprovalUntouchedStep == IInv /\ Next => ApprovalUntouched
<1> SUFFICES ASSUME IInv, Next PROVE ApprovalUntouched
  OBVIOUS
<1> USE DEF IInv, ApprovalUntouched, InterruptsAreLive, StartingInOrder, StatusOfTask, SectionsThere, Approving, Absent, RFP_STATUSES, RFP_ALLOWED_TRANSITIONS, Row, Eval, TypeOK, StoreTypeOK, storeVars, Worker, Goto, Loop, Enqueue, CanUpdateStatus, validate_transition
<1>1. CASE post_ticket
  BY <1>1 DEF post_ticket
<1>2. CASE post_ticket_enqueue_fails
  BY <1>2 DEF post_ticket_enqueue_fails
<1>3. CASE post_ticket_response
  BY <1>3 DEF post_ticket_response
<1>4. CASE post_ticket_approval
  BY <1>4 DEF post_ticket_approval
<1>5. CASE Ack
  BY <1>5 DEF Ack
<1>6. CASE StoreFails
  BY <1>6 DEF StoreFails
<1>7. CASE WorkerCrash
  BY <1>7 DEF WorkerCrash
<1>8. CASE IntakeDiscards
  BY <1>8 DEF IntakeDiscards
<1>9. CASE IntakeAccepts
  BY <1>9 DEF IntakeAccepts
<1>10. CASE SaveMetadata
  BY <1>10 DEF SaveMetadata
<1>11. CASE SaveSections
  BY <1>11 DEF SaveSections
<1>12. CASE SaveSectionsConflict
  BY <1>12 DEF SaveSectionsConflict
<1>13. CASE IntakeCompletes
  BY <1>13 DEF IntakeCompletes
<1>14. CASE StartDrafting
  BY <1>14 DEF StartDrafting
<1>15. CASE DraftingRefused
  BY <1>15 DEF DraftingRefused
<1>16. CASE RunResponse
  BY <1>16 DEF RunResponse
<1>17. CASE DraftsSaved
  BY <1>17 DEF DraftsSaved
<1>18. CASE SectionMissing
  BY <1>18 DEF SectionMissing
<1>19. CASE ResponseGraphFails
  BY <1>19 DEF ResponseGraphFails
<1>20. CASE ResponseCompletes
  BY <1>20 DEF ResponseCompletes
<1>21. CASE RecoverStatus
  BY <1>21 DEF RecoverStatus
<1>22. CASE CheckApprovalStatus
  BY <1>22 DEF CheckApprovalStatus
<1>23. CASE Arbitrate
  BY <1>23 DEF Arbitrate
<1>24. CASE NumbersUnmergeable
  BY <1>24 DEF NumbersUnmergeable
<1>25. CASE FlipToWaiting
  BY <1>25 DEF FlipToWaiting
<1>26. CASE SaveInterrupt
  BY <1>26 DEF SaveInterrupt
<1>27. CASE ApprovalStarted
  BY <1>27 DEF ApprovalStarted
<1>28. CASE ApprovalFails
  BY <1>28 DEF ApprovalFails
<1>29. CASE FlagForReview
  BY <1>29 DEF FlagForReview
<1>30. ASSUME NEW t \in Tasks, Deliver(t) PROVE ApprovalUntouched
  BY <1>30 DEF Deliver
<1>31. ASSUME NEW d \in Departments, SaveDraft(d) PROVE ApprovalUntouched
  BY <1>31 DEF SaveDraft
<1>32. ASSUME NEW d \in Departments, RecoverSection(d) PROVE ApprovalUntouched
  BY <1>32 DEF RecoverSection
<1>33. ASSUME NEW d \in Departments, StampSection(d) PROVE ApprovalUntouched
  BY <1>33 DEF StampSection
<1>34. ASSUME NEW d \in Departments, StartThread(d) PROVE ApprovalUntouched
  BY <1>34 DEF StartThread
<1> QED
  BY <1>1, <1>2, <1>3, <1>4, <1>5, <1>6, <1>7, <1>8, <1>9, <1>10, <1>11, <1>12, <1>13, <1>14, <1>15, <1>16, <1>17, <1>18, <1>19, <1>20, <1>21, <1>22, <1>23, <1>24, <1>25, <1>26, <1>27, <1>28, <1>29, <1>30, <1>31, <1>32, <1>33, <1>34
  DEF Next, Routes, WorkerStep, WorkerFailure, IntakeStep, ResponseStep, ApprovalStep

\* Once the approval has started no task changes what the approvers decide on,
\* however often it was posted or is delivered.
THEOREM ApprovalStaysFrozen == Spec => ApprovalFrozen
<1>1. IInv /\ [Next]_vars => [ApprovalUntouched]_vars
  BY ApprovalUntouchedStep
<1> QED
  BY <1>1, Invariance, PTL DEF Spec, ApprovalFrozen

-----------------------------------------------------------------------------
(* What is offered for approval *)

\* A statement of process_rfp_response fails, and with it the crash path.
ResponseStatementFails ==
  /\ StoreFails
  /\ worker.pc \in {"to_drafting", "run_response", "save_drafts",
                    "to_under_evaluation", "recover"}

IntakePc == {"run_intake", "save_metadata", "save_sections", "to_intake_complete"}

Judged(row) == row.draft # NullDraft \/ row.eval.review

\* The ticket is analyzed once: one message is sent, for a task that alone
\* takes the ticket on from there.
IntakeRunsOnce ==
  /\ queue["process_rfp"] # 0 =>
       /\ queue["process_rfp"] = 1 /\ status = "analyzing"
       /\ worker.pc \notin IntakePc
  /\ worker.pc \in IntakePc => status = "analyzing"

\* Every department the metadata names has a row, from the end of the intake on.
SectionsSaved ==
  /\ worker.pc = "save_sections" => needed = worker.deps
  /\ worker.pc = "to_intake_complete" => needed \subseteq DOMAIN rows
  /\ status \notin {Absent, "analyzing", "discarded"} => needed \subseteq DOMAIN rows

\* A ticket is at drafting only while the task that put it there runs; the
\* departments its loops have behind them are drafted or flagged.
DraftingRuns ==
  /\ status = "drafting" =>
       worker.pc \in {"run_response", "save_drafts", "to_under_evaluation", "recover"}
  /\ worker.pc = "save_drafts" => worker.deps = needed
  /\ worker.pc \in {"save_drafts", "recover"} /\ status = "drafting" =>
       \A d \in needed \ worker.todo : Judged(rows[d])
  /\ worker.pc = "to_under_evaluation" => \A d \in needed : Judged(rows[d])

OfferedJudged ==
  status \in {"under_evaluation", "waiting_for_approval"} =>
    \A d \in needed : Judged(rows[d])

\* All of this, as long as the worker process has not died.
DInv == crashes = 0 => IntakeRunsOnce /\ SectionsSaved /\ DraftingRuns /\ OfferedJudged

\* Every step keeps it.
LEMMA DraftedStep ==
  ASSUME IInv, DInv, Next, ~ResponseStatementFails
  PROVE  DInv'
<1> SUFFICES ASSUME crashes' = 0
             PROVE  IntakeRunsOnce' /\ SectionsSaved' /\ DraftingRuns' /\ OfferedJudged'
  BY DEF DInv
<1> USE DEF IInv, StatusOfTask, SectionsThere, IntakeRunsOnce, SectionsSaved, DraftingRuns,
            OfferedJudged, Judged, IntakePc, Tasks, Absent, RFP_STATUSES,
            RFP_ALLOWED_TRANSITIONS, Row, Eval, Entry, IdleWorker, TypeOK, StoreTypeOK,
            storeVars, Worker, Goto, Loop, Enqueue, CanUpdateStatus, validate_transition
<1>0. crashes = 0 /\ IntakeRunsOnce /\ SectionsSaved /\ DraftingRuns /\ OfferedJudged
  <2>1. ~WorkerCrash
    BY DEF WorkerCrash
  <2>2. crashes' = crashes
    BY <2>1 DEF Next, Routes, WorkerStep, WorkerFailure, IntakeStep, ResponseStep,
         ApprovalStep, post_ticket, post_ticket_enqueue_fails,
         post_ticket_response, post_ticket_approval, Deliver, Ack, StoreFails,
         IntakeDiscards, IntakeAccepts, SaveMetadata, SaveSections,
         SaveSectionsConflict, IntakeCompletes, StartDrafting, DraftingRefused,
         RunResponse, SaveDraft, DraftsSaved, SectionMissing, ResponseGraphFails,
         ResponseCompletes, RecoverSection, RecoverStatus, CheckApprovalStatus,
         Arbitrate, NumbersUnmergeable, StampSection, FlipToWaiting, StartThread,
         SaveInterrupt, ApprovalStarted, ApprovalFails, FlagForReview
  <2> QED
    BY <2>2 DEF DInv
<1>1. CASE post_ticket
  BY <1>0, <1>1 DEF post_ticket
<1>2. CASE post_ticket_enqueue_fails
  BY <1>0, <1>2 DEF post_ticket_enqueue_fails
<1>3. CASE post_ticket_response
  BY <1>0, <1>3 DEF post_ticket_response
<1>4. CASE post_ticket_approval
  BY <1>0, <1>4 DEF post_ticket_approval
<1>5. CASE Ack
  BY <1>0, <1>5 DEF Ack
<1>6. CASE StoreFails
  BY <1>0, <1>6 DEF StoreFails, ResponseStatementFails
<1>7. CASE WorkerCrash
  BY <1>0, <1>7 DEF WorkerCrash
<1>8. CASE IntakeDiscards
  BY <1>0, <1>8 DEF IntakeDiscards
<1>9. CASE IntakeAccepts
  BY <1>0, <1>9 DEF IntakeAccepts
<1>10. CASE SaveMetadata
  BY <1>0, <1>10 DEF SaveMetadata
<1>11. CASE SaveSections
  BY <1>0, <1>11 DEF SaveSections, Replaced, EmptyEval, NewRow
<1>12. CASE SaveSectionsConflict
  BY <1>0, <1>12 DEF SaveSectionsConflict
<1>13. CASE IntakeCompletes
  BY <1>0, <1>13 DEF IntakeCompletes
<1>14. CASE StartDrafting
  BY <1>0, <1>14 DEF StartDrafting
<1>15. CASE DraftingRefused
  BY <1>0, <1>15 DEF DraftingRefused
<1>16. CASE RunResponse
  BY <1>0, <1>16 DEF RunResponse
<1>17. CASE DraftsSaved
  BY <1>0, <1>17 DEF DraftsSaved
<1>18. CASE SectionMissing
  BY <1>0, <1>18 DEF SectionMissing
<1>19. CASE ResponseGraphFails
  BY <1>0, <1>19 DEF ResponseGraphFails
<1>20. CASE ResponseCompletes
  BY <1>0, <1>20 DEF ResponseCompletes
<1>21. CASE RecoverStatus
  BY <1>0, <1>21 DEF RecoverStatus
<1>22. CASE CheckApprovalStatus
  BY <1>0, <1>22 DEF CheckApprovalStatus
<1>23. CASE Arbitrate
  BY <1>0, <1>23 DEF Arbitrate
<1>24. CASE NumbersUnmergeable
  BY <1>0, <1>24 DEF NumbersUnmergeable
<1>25. CASE FlipToWaiting
  BY <1>0, <1>25 DEF FlipToWaiting
<1>26. CASE SaveInterrupt
  BY <1>0, <1>26 DEF SaveInterrupt
<1>27. CASE ApprovalStarted
  BY <1>0, <1>27 DEF ApprovalStarted
<1>28. CASE ApprovalFails
  BY <1>0, <1>28 DEF ApprovalFails
<1>29. CASE FlagForReview
  BY <1>0, <1>29 DEF FlagForReview
<1>30. ASSUME NEW t \in Tasks, Deliver(t) PROVE IntakeRunsOnce' /\ SectionsSaved' /\ DraftingRuns' /\ OfferedJudged'
  BY <1>0, <1>30 DEF Deliver
<1>31. ASSUME NEW d \in Departments, SaveDraft(d) PROVE IntakeRunsOnce' /\ SectionsSaved' /\ DraftingRuns' /\ OfferedJudged'
  BY <1>0, <1>31 DEF SaveDraft, Replaced, EmptyEval, FirstDraft, BlankDraft, NullDraft
<1>32. ASSUME NEW d \in Departments, RecoverSection(d) PROVE IntakeRunsOnce' /\ SectionsSaved' /\ DraftingRuns' /\ OfferedJudged'
  BY <1>0, <1>32 DEF RecoverSection, Replaced, EmptyEval, FirstDraft, BlankDraft, NullDraft
<1>33. ASSUME NEW d \in Departments, StampSection(d) PROVE IntakeRunsOnce' /\ SectionsSaved' /\ DraftingRuns' /\ OfferedJudged'
  BY <1>0, <1>33 DEF StampSection, Replaced, EmptyEval, FirstDraft, BlankDraft, NullDraft
<1>34. ASSUME NEW d \in Departments, StartThread(d) PROVE IntakeRunsOnce' /\ SectionsSaved' /\ DraftingRuns' /\ OfferedJudged'
  BY <1>0, <1>34 DEF StartThread
<1> QED
  BY <1>1, <1>2, <1>3, <1>4, <1>5, <1>6, <1>7, <1>8, <1>9, <1>10, <1>11, <1>12, <1>13,
     <1>14, <1>15, <1>16, <1>17, <1>18, <1>19, <1>20, <1>21, <1>22, <1>23, <1>24,
     <1>25, <1>26, <1>27, <1>28, <1>29, <1>30, <1>31, <1>32, <1>33, <1>34
  DEF Next, Routes, WorkerStep, WorkerFailure, IntakeStep, ResponseStep, ApprovalStep

\* Before the upload there is no message and nothing to judge.
LEMMA InitDInv == Init => DInv
BY DEF Init, StoreInit, IdleWorker, Tasks, Absent, DInv, IntakeRunsOnce, SectionsSaved,
       DraftingRuns, OfferedJudged, IntakePc

\* What is offered for approval was drafted or is flagged for a human, unless
\* the worker died (which DraftedOrFlagged says) or a statement of the response
\* task failed; the failures of the broker, of the graphs and of the other
\* tasks are allowed, and so is every repeated message.
THEOREM OfferedWasDrafted ==
  Spec /\ [][~ResponseStatementFails]_vars => []DraftedOrFlagged
<1>1. IInv /\ DInv /\ [Next]_vars /\ [~ResponseStatementFails]_vars => DInv'
  <2>1. IInv /\ DInv /\ Next /\ ~ResponseStatementFails => DInv'
    BY DraftedStep
  <2>2. DInv /\ UNCHANGED vars => DInv'
    BY DEF DInv, vars, storeVars, workerVars, IntakeRunsOnce, SectionsSaved,
           DraftingRuns, OfferedJudged
  <2> QED
    BY <2>1, <2>2
<1>2. IInv /\ DInv => DraftedOrFlagged
  BY DEF DInv, SectionsSaved, OfferedJudged, Judged, DraftedOrFlagged, Absent
<1> QED
  BY <1>1, <1>2, InitDInv, Invariance, PTL DEF Spec

-----------------------------------------------------------------------------
(* Refinement of the ticket lifecycle *)

\* Every step of the worker and its routes is a step of the lifecycle or
\* leaves status and document as they are.
LEMMA StepRefines == Next => [Lifecycle!Next]_<<status, Published>>
<1> SUFFICES ASSUME Next PROVE [Lifecycle!Next]_<<status, Published>>
  OBVIOUS
<1>1. doc' = doc => Published' = Published
  BY DEF Published
<1>2. doc' = doc
  BY DEF Next, Routes, WorkerStep, WorkerFailure, IntakeStep, ResponseStep,
         ApprovalStep, storeVars, post_ticket, post_ticket_enqueue_fails,
         post_ticket_response, post_ticket_approval, Deliver, Ack, StoreFails,
         WorkerCrash, IntakeDiscards, IntakeAccepts, SaveMetadata, SaveSections,
         SaveSectionsConflict, IntakeCompletes, StartDrafting, DraftingRefused,
         RunResponse, SaveDraft, DraftsSaved, SectionMissing, ResponseGraphFails,
         ResponseCompletes, RecoverSection, RecoverStatus, CheckApprovalStatus,
         Arbitrate, NumbersUnmergeable, StampSection, FlipToWaiting, StartThread,
         SaveInterrupt, ApprovalStarted, ApprovalFails, FlagForReview
<1>3. \/ status' = status
      \/ status = Absent /\ status' = "analyzing"
      \/ \E target \in RFP_STATUSES \ {"done"} :
           CanUpdateStatus(target) /\ status' = target
  BY DEF Next, Routes, WorkerStep, WorkerFailure, IntakeStep, ResponseStep,
         ApprovalStep, storeVars, post_ticket, post_ticket_enqueue_fails,
         post_ticket_response, post_ticket_approval, Deliver, Ack, StoreFails,
         WorkerCrash, IntakeDiscards, IntakeAccepts, SaveMetadata, SaveSections,
         SaveSectionsConflict, IntakeCompletes, StartDrafting, DraftingRefused,
         RunResponse, SaveDraft, DraftsSaved, SectionMissing, ResponseGraphFails,
         ResponseCompletes, RecoverSection, RecoverStatus, CheckApprovalStatus,
         Arbitrate, NumbersUnmergeable, StampSection, FlipToWaiting, StartThread,
         SaveInterrupt, ApprovalStarted, ApprovalFails, FlagForReview, RFP_STATUSES
<1> QED
  BY <1>1, <1>2, <1>3
  DEF Lifecycle!Next, Lifecycle!Create, Lifecycle!Advance, CanUpdateStatus,
      Lifecycle!validate_transition, validate_transition, Lifecycle!Absent, Absent,
      Lifecycle!RFP_STATUSES, RFP_STATUSES, Lifecycle!RFP_ALLOWED_TRANSITIONS,
      RFP_ALLOWED_TRANSITIONS

\* The routes and the worker implement the lifecycle of a ticket, whatever is
\* repeated, redelivered or fails.
THEOREM WorkerImplementsLifecycle == Spec => ImplementsLifecycle
<1>1. Init => Lifecycle!Init
  BY DEF Init, StoreInit, Lifecycle!Init, Published, NoDoc, Absent, Lifecycle!Absent
<1>2. [Next]_vars => [Lifecycle!Next]_<<status, Published>>
  BY StepRefines DEF vars, storeVars, Published
<1> QED
  BY <1>1, <1>2, PTL DEF Spec, ImplementsLifecycle, Lifecycle!Spec, Lifecycle!vars
=============================================================================
