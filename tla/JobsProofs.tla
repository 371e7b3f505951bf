----------------------------- MODULE JobsProofs -----------------------------
(***************************************************************************)
(* Proofs about Jobs, for any processes and tasks, any number of retries,  *)
(* events, crashes and failing steps.                                      *)
(*                                                                         *)
(* The invariant IInv says whose each row and file is.  A process between  *)
(* insert and finish owns a Running row of its own (RowsOwned); one that   *)
(* has passed the guard and not inserted yet has looked past every row     *)
(* that is Running (Guarded); what a flow has extracted is not older than  *)
(* the report, unless two runs passed the guard together (KeptUp); a       *)
(* nightly process past its export has the file, and one about to complete *)
(* the job has a completed run (JobBacked); and while no lock was taken    *)
(* over from a process at work, one process works, under the lock          *)
(* (OneHolder).                                                            *)
(***************************************************************************)
EXTENDS Jobs, TLAPS

Run == [status : {"Running", "Completed", "Failed"}, saw : Nat]
State == [at : Stages, saw : Nat, row : Nat, seen : Nat]

JobTyped == job \in [status : {"none", "processing", "completed", "failed"}, fresh : BOOLEAN]
FilesTyped == csv \in {"none", "whole", "mixed"}
              /\ temp \in [writers : SUBSET Nightlies, mixed : BOOLEAN]
RowsTyped == runs \in Seq(Run) /\ kpi \in Nat /\ events \in Nat
ProcTyped == proc \in [Processes -> State]
TasksTyped == /\ retries \in [Tasks -> 0..MaxRetries]
              /\ outcome \in [Tasks -> {"open", "success", "guarded", "dead", "lost"}]
MarksTyped == robbed \in {"no", "stale", "fresh"} /\ faults \in Nat

Types == JobTyped /\ FilesTyped /\ RowsTyped /\ ProcTyped /\ TasksTyped /\ MarksTyped

Owner(p) == proc[p].at \in {"extract", "load", "finish", "failing"}
RowRunning(i) == runs[i].status = "Running"

RowsOwned ==
    /\ \A i \in 1..Len(runs) : runs[i].saw < i
    /\ \A p \in Processes : proc[p].row <= Len(runs)
    /\ \A p \in Processes : Owner(p) => proc[p].row \in 1..Len(runs) /\ RowRunning(proc[p].row)
    /\ \A p, q \in Processes : Owner(p) /\ Owner(q) /\ proc[p].row = proc[q].row => p = q

Guarded ==
    /\ \A p \in Processes : proc[p].at = "insert" =>
          /\ proc[p].saw <= Len(runs)
          /\ \A i \in 1..Len(runs) : RowRunning(i) => proc[p].saw < i
    /\ \A i, j \in 1..Len(runs) :
          RowRunning(i) /\ RowRunning(j) /\ i < j => runs[j].saw < i

Raced == \E i, j \in 1..Len(runs) : i < j /\ runs[j].saw < i

KeptUp ==
    /\ kpi <= events
    /\ \A p \in Processes : proc[p].at = "load" =>
          /\ proc[p].seen <= events
          /\ kpi <= proc[p].seen \/ Raced

Exported == {"guard", "insert", "extract", "load", "finish", "failing", "complete"}
RunCompleted == \E i \in 1..Len(runs) : runs[i].status = "Completed"

JobBacked ==
    /\ \A n \in Nightlies : proc[n].at \in Exported => csv # "none"
    /\ \A n \in Nightlies : proc[n].at = "complete" => RunCompleted
    /\ job.status = "completed" => csv # "none" /\ RunCompleted

OneHolder ==
    /\ robbed = "no" =>
          /\ \A m, n \in Nightlies : proc[m].at \in Working /\ proc[n].at \in Working => m = n
          /\ \A n \in Nightlies : proc[n].at \in Working => job.status = "processing"
    /\ csv = "mixed" => robbed # "no"
    /\ temp.mixed => robbed # "no"
    /\ \A n \in temp.writers : proc[n].at = "writing"

IInv == Types /\ RowsOwned /\ Guarded /\ KeptUp /\ JobBacked /\ OneHolder

-----------------------------------------------------------------------------
(* Appending a row to runs keeps the rows before it. *)
LEMMA RowAppended ==
    ASSUME NEW s \in Seq(Run), NEW e \in Run
    PROVE  /\ Append(s, e) \in Seq(Run)
           /\ Len(Append(s, e)) = Len(s) + 1
           /\ Append(s, e)[Len(s) + 1] = e
           /\ \A i \in 1..Len(s) : Append(s, e)[i] = s[i]
  OBVIOUS

(* Changing the status of a row of runs leaves the rest as it is. *)
LEMMA RowChanged ==
    ASSUME NEW s \in Seq(Run), NEW k \in 1..Len(s),
           NEW st \in {"Running", "Completed", "Failed"}
    PROVE  LET t == [s EXCEPT ![k].status = st] IN
           /\ t \in Seq(Run)
           /\ Len(t) = Len(s)
           /\ \A i \in 1..Len(s) : t[i].saw = s[i].saw
           /\ \A i \in 1..Len(s) : i # k => t[i].status = s[i].status
           /\ t[k].status = st
<1> DEFINE t == [s EXCEPT ![k].status = st]
<1>1. t = [i \in 1..Len(s) |-> IF i = k THEN [s[k] EXCEPT !.status = st] ELSE s[i]]
  OBVIOUS
<1>a. \A i \in 1..Len(s) : s[i] \in Run
  OBVIOUS
<1>b. \A r \in Run : [r EXCEPT !.status = st] \in Run /\ [r EXCEPT !.status = st].saw = r.saw
                      /\ [r EXCEPT !.status = st].status = st
  BY DEF Run
<1>2. \A i \in 1..Len(s) : t[i] \in Run
  BY <1>1, <1>a, <1>b
<1>3. t \in Seq(Run) /\ Len(t) = Len(s)
  BY <1>1, <1>2
<1>4. QED
  BY <1>1, <1>3, <1>a, <1>b

(* What a process becomes by going to a stage. *)
LEMMA Moved ==
    ASSUME proc \in [Processes -> State], NEW p \in Processes, NEW s \in Stages, Goto(p, s)
    PROVE  /\ proc' \in [Processes -> State]
           /\ proc'[p].at = s
           /\ \A q \in Processes : q # p => proc'[q] = proc[q]
           /\ IF s \in {"guard", "fail", "complete", "done"}
              THEN proc'[p].row = 0
              ELSE /\ proc'[p].row = proc[p].row
                   /\ proc'[p].saw = proc[p].saw
                   /\ proc'[p].seen = proc[p].seen
<1>1. proc[p] \in State
  OBVIOUS
<1>2. [Fresh EXCEPT !.at = s] \in State /\ [Fresh EXCEPT !.at = s].at = s
      /\ [Fresh EXCEPT !.at = s].row = 0
  BY DEF Fresh, State
<1>3. LET r == [proc[p] EXCEPT !.at = s] IN
      r \in State /\ r.at = s /\ r.row = proc[p].row /\ r.saw = proc[p].saw
      /\ r.seen = proc[p].seen
  BY <1>1 DEF State
<1>4. QED
  BY <1>1, <1>2, <1>3 DEF Goto

(* What it becomes by passing the guard. *)
LEMMA MovedGuard ==
    ASSUME proc \in [Processes -> State], NEW p \in Processes, NEW k \in Nat,
           proc' = [proc EXCEPT ![p].at = "insert", ![p].saw = k]
    PROVE  /\ proc' \in [Processes -> State]
           /\ proc'[p].at = "insert" /\ proc'[p].saw = k /\ proc'[p].row = proc[p].row
           /\ \A q \in Processes : q # p => proc'[q] = proc[q]
<1>1. proc[p] \in State
  OBVIOUS
<1>2. QED
  BY <1>1 DEF State, Stages

(* The same for the insert of a row. *)
LEMMA MovedInsert ==
    ASSUME proc \in [Processes -> State], NEW p \in Processes, NEW k \in Nat,
           proc' = [proc EXCEPT ![p].at = "extract", ![p].saw = 0, ![p].row = k]
    PROVE  /\ proc' \in [Processes -> State]
           /\ proc'[p].at = "extract" /\ proc'[p].row = k
           /\ \A q \in Processes : q # p => proc'[q] = proc[q]
<1>1. proc[p] \in State
  OBVIOUS
<1>2. QED
  BY <1>1 DEF State, Stages

(* The same for an extract. *)
LEMMA MovedExtract ==
    ASSUME proc \in [Processes -> State], NEW p \in Processes, NEW k \in Nat,
           proc' = [proc EXCEPT ![p].at = "load", ![p].seen = k]
    PROVE  /\ proc' \in [Processes -> State]
           /\ proc'[p].at = "load" /\ proc'[p].seen = k /\ proc'[p].row = proc[p].row
           /\ \A q \in Processes : q # p => proc'[q] = proc[q]
<1>1. proc[p] \in State
  OBVIOUS
<1>2. QED
  BY <1>1 DEF State, Stages

(* A flow that raises goes to one of four stages, and counts a retry. *)
LEMMA Raises ==
    ASSUME Types, NEW p \in Processes, NEW g \in BOOLEAN, FlowRaises(p, g)
    PROVE  /\ \E s \in {"fail", "done", "guard", "deadletter"} : Goto(p, s)
           /\ ProcTyped' /\ TasksTyped'
           /\ proc'[p].at \in {"fail", "done", "guard", "deadletter"}
           /\ proc'[p].row \in {0, proc[p].row}
           /\ p \in Nightlies => proc'[p].at = "fail"
           /\ \A q \in Processes : q # p => proc'[q] = proc[q]
<1>1. /\ \E s \in {"fail", "done", "guard", "deadletter"} : Goto(p, s)
      /\ p \in Nightlies => Goto(p, "fail")
  BY DEF FlowRaises
<1>2. {"fail", "done", "guard", "deadletter"} \subseteq Stages
  BY DEF Stages
<1>3. TasksTyped'
  BY JobsAssumption DEF FlowRaises, Types, TasksTyped, task_vars, Processes
<1>4. QED
  BY <1>1, <1>2, <1>3, Moved DEF Types, ProcTyped

(* The types. *)
LEMMA TypesStep == IInv /\ [JobsNext]_jVars => Types'
<1> SUFFICES ASSUME IInv, [JobsNext]_jVars PROVE Types'
  OBVIOUS
<1>a. /\ Types /\ RowsOwned /\ JobTyped /\ FilesTyped /\ RowsTyped
      /\ ProcTyped /\ TasksTyped /\ MarksTyped
  BY DEF IInv, Types
<1>c. [status |-> "processing", fresh |-> TRUE]
         \in [status : {"none", "processing", "completed", "failed"}, fresh : BOOLEAN]
  OBVIOUS
<1>d. NoFile \in [writers : SUBSET Nightlies, mixed : BOOLEAN]
  BY DEF NoFile
<1>b. proc \in [Processes -> State] /\ events \in Nat /\ runs \in Seq(Run) /\ Len(runs) \in Nat
  BY <1>a DEF ProcTyped, RowsTyped
<1> USE <1>a, <1>b, JobsAssumption
        DEF jVars, row_vars, file_vars, task_vars, Processes, Stages, In
<1>1. ASSUME NEW n \in Nightlies, Start(n) PROVE Types'
<2>1. ProcTyped'
  BY <1>1, Moved DEF Start, ProcTyped, Holds
<2>2. QED
  BY <1>1, <1>c, <1>d, <2>1
     DEF Start, Holds, Fault, Types, JobTyped, FilesTyped, RowsTyped, TasksTyped,
         MarksTyped
<1>2. ASSUME NEW n \in Nightlies, _claim_insert(n) PROVE Types'
<2>1. ProcTyped'
  BY <1>2, Moved DEF _claim_insert, ProcTyped, Holds
<2>2. QED
  BY <1>2, <1>c, <1>d, <2>1
     DEF _claim_insert, Holds, Fault, Types, JobTyped, FilesTyped, RowsTyped,
         TasksTyped, MarksTyped
<1>3. ASSUME NEW n \in Nightlies, claim_job(n) PROVE Types'
<2>1. ProcTyped'
  BY <1>3, Moved DEF claim_job, ProcTyped, Holds
<2>2. QED
  BY <1>3, <1>c, <1>d, <2>1
     DEF claim_job, Holds, Fault, Types, JobTyped, FilesTyped, RowsTyped, TasksTyped,
         MarksTyped
<1>4. ASSUME NEW n \in Nightlies, _mark_stale_failed(n) PROVE Types'
<2>1. ProcTyped'
  BY <1>4, Moved DEF _mark_stale_failed, ProcTyped, Holds
<2>2. QED
  BY <1>4, <1>c, <1>d, <2>1
     DEF _mark_stale_failed, Holds, Fault, Types, JobTyped, FilesTyped, RowsTyped,
         TasksTyped, MarksTyped
<1>5. ASSUME NEW n \in Nightlies, _transition_failed_to_processing(n) PROVE Types'
<2>1. ProcTyped'
  BY <1>5, Moved DEF _transition_failed_to_processing, ProcTyped, Holds
<2>2. QED
  BY <1>5, <1>c, <1>d, <2>1
     DEF _transition_failed_to_processing, Holds, Fault, Types, JobTyped, FilesTyped,
         RowsTyped, TasksTyped, MarksTyped
<1>6. ASSUME NEW n \in Nightlies, SkipExport(n) PROVE Types'
<2>1. ProcTyped'
  BY <1>6, Moved DEF SkipExport, ProcTyped, Holds
<2>2. QED
  BY <1>6, <1>c, <1>d, <2>1
     DEF SkipExport, Holds, Fault, Types, JobTyped, FilesTyped, RowsTyped, TasksTyped,
         MarksTyped
<1>7. ASSUME NEW n \in Nightlies, OpenTemp(n) PROVE Types'
<2>1. ProcTyped'
  BY <1>7, Moved DEF OpenTemp, ProcTyped, Holds
<2>2. QED
  BY <1>7, <1>c, <1>d, <2>1
     DEF OpenTemp, Holds, Fault, Types, JobTyped, FilesTyped, RowsTyped, TasksTyped,
         MarksTyped
<1>8. ASSUME NEW n \in Nightlies, export_telemetry_csv(n) PROVE Types'
<2>1. ProcTyped'
  BY <1>8, Moved DEF export_telemetry_csv, ProcTyped, Holds
<2>2. QED
  BY <1>8, <1>c, <1>d, <2>1
     DEF export_telemetry_csv, Holds, Fault, Types, JobTyped, FilesTyped, RowsTyped,
         TasksTyped, MarksTyped
<1>9. ASSUME NEW n \in Nightlies, mark_completed(n) PROVE Types'
<2>1. JobTyped'
  BY <1>9, <1>c DEF mark_completed, JobTyped, Holds
<2>2. FilesTyped'
  BY <1>9, <1>d DEF mark_completed, FilesTyped
<2>3. RowsTyped'
  BY <1>9 DEF mark_completed, RowsTyped
<2>4. ProcTyped'
  BY <1>9, Moved DEF mark_completed, ProcTyped, Holds
<2>5. TasksTyped'
  BY <1>9 DEF mark_completed, TasksTyped
<2>6. MarksTyped'
  BY <1>9 DEF mark_completed, MarksTyped, Fault
<2>7. QED
  BY <2>1, <2>2, <2>3, <2>4, <2>5, <2>6 DEF Types
<1>10. ASSUME NEW n \in Nightlies, mark_failed(n) PROVE Types'
<2>1. ProcTyped'
  BY <1>10, Moved DEF mark_failed, ProcTyped, Holds
<2>2. QED
  BY <1>10, <1>c, <1>d, <2>1
     DEF mark_failed, Holds, Fault, Types, JobTyped, FilesTyped, RowsTyped,
         TasksTyped, MarksTyped
<1>11. ASSUME NEW n \in Nightlies, ExportFails(n) PROVE Types'
<2>1. ProcTyped'
  BY <1>11, Moved DEF ExportFails, ProcTyped, Holds
<2>2. QED
  BY <1>11, <1>c, <1>d, <2>1
     DEF ExportFails, Holds, Fault, Types, JobTyped, FilesTyped, RowsTyped,
         TasksTyped, MarksTyped
<1>12. ASSUME NEW t \in Tasks, run_pipeline_task(t) PROVE Types'
<2>1. ProcTyped'
  BY <1>12, Moved DEF run_pipeline_task, ProcTyped, Holds
<2>2. QED
  BY <1>12, <1>c, <1>d, <2>1
     DEF run_pipeline_task, Holds, Fault, Types, JobTyped, FilesTyped, RowsTyped,
         TasksTyped, MarksTyped
<1>13. ASSUME NEW t \in Tasks, _write_dead_letter(t) PROVE Types'
<2>1. JobTyped'
  BY <1>13, <1>c DEF _write_dead_letter, JobTyped, Holds
<2>2. FilesTyped'
  BY <1>13, <1>d DEF _write_dead_letter, FilesTyped
<2>3. RowsTyped'
  BY <1>13 DEF _write_dead_letter, RowsTyped
<2>4. ProcTyped'
  BY <1>13, Moved DEF _write_dead_letter, ProcTyped, Holds
<2>5. TasksTyped'
  BY <1>13 DEF _write_dead_letter, TasksTyped
<2>6. MarksTyped'
  BY <1>13 DEF _write_dead_letter, MarksTyped, Fault
<2>7. QED
  BY <2>1, <2>2, <2>3, <2>4, <2>5, <2>6 DEF Types
<1>14. ASSUME NEW p \in Processes, write_pipeline_run_start(p) PROVE Types'
<2>1. JobTyped'
  BY <1>14 DEF write_pipeline_run_start, JobTyped
<2>2. FilesTyped'
  BY <1>14 DEF write_pipeline_run_start, FilesTyped
<2>3. RowsTyped'
  BY <1>14 DEF write_pipeline_run_start, RowsTyped
<2>4. ProcTyped'
  BY <1>14, Raises, MovedGuard, Len(runs) \in Nat DEF write_pipeline_run_start,
     ProcTyped
<2>5. TasksTyped'
  BY <1>14, Raises DEF write_pipeline_run_start, TasksTyped
<2>6. MarksTyped'
  BY <1>14 DEF write_pipeline_run_start, MarksTyped
<2>7. QED
  BY <2>1, <2>2, <2>3, <2>4, <2>5, <2>6 DEF Types
<1>15. ASSUME NEW p \in Processes, InsertRun(p) PROVE Types'
<2>0. [status |-> "Running", saw |-> proc[p].saw] \in Run
  BY proc[p] \in State DEF Run, State
<2>k. Len(runs) + 1 \in Nat
  OBVIOUS
<2>1. JobTyped'
  BY <1>15 DEF InsertRun, JobTyped
<2>2. FilesTyped'
  BY <1>15 DEF InsertRun, FilesTyped
<2>3. RowsTyped'
  BY <1>15, <2>0, RowAppended DEF InsertRun, RowsTyped, NewRun
<2>4. ProcTyped'
  BY <1>15, MovedInsert, <2>k DEF InsertRun, ProcTyped
<2>5. TasksTyped'
  BY <1>15 DEF InsertRun, TasksTyped
<2>6. MarksTyped'
  BY <1>15 DEF InsertRun, MarksTyped
<2>7. QED
  BY <2>1, <2>2, <2>3, <2>4, <2>5, <2>6 DEF Types
<1>16. ASSUME NEW p \in Processes, extract_week(p) PROVE Types'
<2>1. JobTyped'
  BY <1>16 DEF extract_week, JobTyped
<2>2. FilesTyped'
  BY <1>16 DEF extract_week, FilesTyped
<2>3. RowsTyped'
  BY <1>16 DEF extract_week, RowsTyped
<2>4. ProcTyped'
  BY <1>16, MovedExtract DEF extract_week, ProcTyped
<2>5. TasksTyped'
  BY <1>16 DEF extract_week, TasksTyped
<2>6. MarksTyped'
  BY <1>16 DEF extract_week, MarksTyped
<2>7. QED
  BY <2>1, <2>2, <2>3, <2>4, <2>5, <2>6 DEF Types
<1>17. ASSUME NEW p \in Processes, load_weekly_performance(p) PROVE Types'
<2>1. JobTyped'
  BY <1>17 DEF load_weekly_performance, JobTyped
<2>2. FilesTyped'
  BY <1>17 DEF load_weekly_performance, FilesTyped
<2>3. RowsTyped'
  BY <1>17, proc[p] \in State DEF load_weekly_performance, RowsTyped, State
<2>4. ProcTyped'
  BY <1>17, Moved DEF load_weekly_performance, ProcTyped
<2>5. TasksTyped'
  BY <1>17 DEF load_weekly_performance, TasksTyped
<2>6. MarksTyped'
  BY <1>17 DEF load_weekly_performance, MarksTyped
<2>7. QED
  BY <2>1, <2>2, <2>3, <2>4, <2>5, <2>6 DEF Types
<1>18. ASSUME NEW p \in Processes, write_pipeline_run_finish(p) PROVE Types'
<2>1. JobTyped'
  BY <1>18 DEF write_pipeline_run_finish, JobTyped
<2>2. FilesTyped'
  BY <1>18 DEF write_pipeline_run_finish, FilesTyped
<2>3. RowsTyped'
  BY <1>18, RowChanged DEF write_pipeline_run_finish, RowsTyped, Owner, RowsOwned
<2>4. ProcTyped'
  BY <1>18, Moved DEF write_pipeline_run_finish, ProcTyped
<2>5. TasksTyped'
  BY <1>18 DEF write_pipeline_run_finish, TasksTyped
<2>6. MarksTyped'
  BY <1>18 DEF write_pipeline_run_finish, MarksTyped
<2>7. QED
  BY <2>1, <2>2, <2>3, <2>4, <2>5, <2>6 DEF Types
<1>19. ASSUME NEW p \in Processes, MarkRunFailed(p) PROVE Types'
<2>1. JobTyped'
  BY <1>19 DEF MarkRunFailed, JobTyped
<2>2. FilesTyped'
  BY <1>19 DEF MarkRunFailed, FilesTyped
<2>3. RowsTyped'
  BY <1>19, RowChanged DEF MarkRunFailed, RowsTyped, Owner, RowsOwned
<2>4. ProcTyped'
  BY <1>19, Raises DEF MarkRunFailed, ProcTyped
<2>5. TasksTyped'
  BY <1>19, Raises DEF MarkRunFailed, TasksTyped
<2>6. MarksTyped'
  BY <1>19 DEF MarkRunFailed, MarksTyped
<2>7. QED
  BY <2>1, <2>2, <2>3, <2>4, <2>5, <2>6 DEF Types
<1>20. ASSUME NEW p \in Processes, InsertUnacknowledged(p) PROVE Types'
<2>0. [status |-> "Running", saw |-> proc[p].saw] \in Run
  BY proc[p] \in State DEF Run, State
<2>1. JobTyped'
  BY <1>20 DEF InsertUnacknowledged, JobTyped
<2>2. FilesTyped'
  BY <1>20 DEF InsertUnacknowledged, FilesTyped
<2>3. RowsTyped'
  BY <1>20, <2>0, RowAppended DEF InsertUnacknowledged, RowsTyped, NewRun
<2>4. ProcTyped'
  BY <1>20, Raises DEF InsertUnacknowledged, ProcTyped
<2>5. TasksTyped'
  BY <1>20, Raises DEF InsertUnacknowledged, TasksTyped
<2>6. MarksTyped'
  BY <1>20 DEF InsertUnacknowledged, MarksTyped, Fault
<2>7. QED
  BY <2>1, <2>2, <2>3, <2>4, <2>5, <2>6 DEF Types
<1>21. ASSUME NEW p \in Processes, StageFails(p) PROVE Types'
<2>1. ProcTyped'
  BY <1>21, Moved DEF StageFails, ProcTyped, Holds
<2>2. QED
  BY <1>21, <1>c, <1>d, <2>1
     DEF StageFails, Holds, Fault, Types, JobTyped, FilesTyped, RowsTyped, TasksTyped,
         MarksTyped
<1>22. ASSUME NEW p \in Processes, MarkRunFails(p) PROVE Types'
<2>1. JobTyped'
  BY <1>22 DEF MarkRunFails, JobTyped
<2>2. FilesTyped'
  BY <1>22 DEF MarkRunFails, FilesTyped
<2>3. RowsTyped'
  BY <1>22 DEF MarkRunFails, RowsTyped
<2>4. ProcTyped'
  BY <1>22, Raises DEF MarkRunFails, ProcTyped
<2>5. TasksTyped'
  BY <1>22, Raises DEF MarkRunFails, TasksTyped
<2>6. MarksTyped'
  BY <1>22 DEF MarkRunFails, MarksTyped, Fault
<2>7. QED
  BY <2>1, <2>2, <2>3, <2>4, <2>5, <2>6 DEF Types
<1>23. ASSUME NEW p \in Processes, Dies(p) PROVE Types'
<2>1. ProcTyped'
  BY <1>23, Moved DEF Dies, ProcTyped, Holds
<2>2. QED
  BY <1>23, <1>c, <1>d, <2>1
     DEF Dies, Holds, Fault, Types, JobTyped, FilesTyped, RowsTyped, TasksTyped,
         MarksTyped
<1>24. CASE LockAges
<2>1. ProcTyped'
  BY <1>24, Moved DEF LockAges, ProcTyped, Holds
<2>2. QED
  BY <1>24, <1>c, <1>d, <2>1
     DEF LockAges, Holds, Fault, Types, JobTyped, FilesTyped, RowsTyped, TasksTyped,
         MarksTyped
<1>25. CASE EventsArrive
<2>1. ProcTyped'
  BY <1>25, Moved DEF EventsArrive, ProcTyped, Holds
<2>2. QED
  BY <1>25, <1>c, <1>d, <2>1
     DEF EventsArrive, Holds, Fault, Types, JobTyped, FilesTyped, RowsTyped,
         TasksTyped, MarksTyped
<1>26. CASE UNCHANGED jVars
  BY <1>26 DEF Types, JobTyped, FilesTyped, RowsTyped, ProcTyped, TasksTyped, MarksTyped
<1>27. QED
  BY <1>1, <1>2, <1>3, <1>4, <1>5, <1>6, <1>7, <1>8, <1>9, <1>10, <1>11, <1>12, <1>13,
     <1>14, <1>15, <1>16, <1>17, <1>18, <1>19, <1>20, <1>21, <1>22, <1>23, <1>24, <1>25,
     <1>26
     DEF JobsNext, Step, Fails, Claims, Exports, Flow

(***************************************************************************)
(* The three things a step does to the rows of the runs: it leaves them,   *)
(* it ends the row of a process, or it adds one.                           *)
(***************************************************************************)
RowsLeft(p) ==
    /\ runs' = runs
    /\ proc'[p].row \in {0, proc[p].row}
    /\ Owner(p)' => Owner(p) /\ proc'[p].row = proc[p].row
    /\ proc'[p].at = "insert" =>
          proc'[p].saw = Len(runs) /\ \A i \in 1..Len(runs) : ~RowRunning(i)
    /\ proc'[p].at = "load" => proc'[p].seen = events /\ kpi' = kpi
    /\ kpi' = kpi \/ (proc[p].at = "load" /\ kpi' = proc[p].seen)
    /\ events' = events
    /\ \A q \in Processes : q # p => proc'[q] = proc[q]

RowEnded(p) ==
    /\ Owner(p) /\ ~Owner(p)' /\ proc'[p].at \notin {"insert", "load"}
    /\ UNCHANGED <<kpi, events>>
    /\ proc'[p].row \in {0, proc[p].row}
    /\ \A q \in Processes : q # p => proc'[q] = proc[q]
    /\ Len(runs') = Len(runs)
    /\ runs'[proc[p].row].status \in {"Completed", "Failed"}
    /\ \A i \in 1..Len(runs) : runs'[i].saw = runs[i].saw
    /\ \A i \in 1..Len(runs) : i # proc[p].row => runs'[i].status = runs[i].status

RowAdded(p) ==
    /\ proc[p].at = "insert" /\ proc'[p].at \notin {"insert", "load"}
    /\ UNCHANGED <<kpi, events>>
    /\ \/ ~Owner(p)' /\ proc'[p].row \in {0, proc[p].row}
       \/ proc'[p].row = Len(runs) + 1
    /\ \A q \in Processes : q # p => proc'[q] = proc[q]
    /\ Len(runs') = Len(runs) + 1
    /\ runs'[Len(runs) + 1].status = "Running"
    /\ runs'[Len(runs) + 1].saw = proc[p].saw
    /\ \A i \in 1..Len(runs) : runs'[i] = runs[i]

(* A step that leaves the rows keeps each with its owner. *)
LEMMA LeftKeepsRows ==
    ASSUME Types, RowsOwned, NEW p \in Processes, RowsLeft(p)
    PROVE  RowsOwned'
<1>1. Len(runs) \in Nat /\ \A q \in Processes : proc[q].row \in Nat
  BY DEF Types, RowsTyped, ProcTyped, State
<1>2. \A q \in Processes : Owner(q)' => Owner(q) /\ proc'[q].row = proc[q].row
  BY DEF RowsLeft, Owner
<1>3. QED
  BY <1>1, <1>2 DEF RowsLeft, RowsOwned, RowRunning

(* So does a step that ends the row of its process: no other owns it. *)
LEMMA EndedKeepsRows ==
    ASSUME Types, RowsOwned, NEW p \in Processes, RowEnded(p)
    PROVE  RowsOwned'
<1>1. Len(runs) \in Nat /\ \A q \in Processes : proc[q].row \in Nat
  BY DEF Types, RowsTyped, ProcTyped, State
<1>2. \A q \in Processes : Owner(q)' => q # p /\ Owner(q) /\ proc'[q].row = proc[q].row
  BY DEF RowEnded, Owner
<1>3. \A q \in Processes : Owner(q)' => proc[q].row # proc[p].row
  BY <1>2 DEF RowEnded, RowsOwned
<1>4. \A q \in Processes : Owner(q)' => RowRunning(proc[q].row)'
  BY <1>2, <1>3 DEF RowEnded, RowsOwned, RowRunning
<1>5. QED
  BY <1>1, <1>2, <1>4 DEF RowEnded, RowsOwned

(* So does a step that adds a row: its owner had none before. *)
LEMMA AddedKeepsRows ==
    ASSUME Types, RowsOwned, Guarded, NEW p \in Processes, RowAdded(p)
    PROVE  RowsOwned'
<1>1. Len(runs) \in Nat /\ \A q \in Processes : proc[q].row \in Nat /\ proc[q].saw \in Nat
  BY DEF Types, RowsTyped, ProcTyped, State
<1>2. proc[p].saw <= Len(runs)
  BY DEF RowAdded, Guarded
<1>3. \A i \in 1..Len(runs') : runs'[i].saw < i
  BY <1>1, <1>2 DEF RowAdded, RowsOwned
<1>4. \A q \in Processes : q # p => (Owner(q)' <=> Owner(q)) /\ proc'[q].row = proc[q].row
  BY DEF RowAdded, Owner
<1>5. \A q \in Processes : proc'[q].row <= Len(runs')
  BY <1>1, <1>4 DEF RowAdded, RowsOwned
<1>6. \A q \in Processes :
         Owner(q)' => proc'[q].row \in 1..Len(runs') /\ RowRunning(proc[q].row)'
  BY <1>1, <1>4 DEF RowAdded, RowsOwned, RowRunning
<1>7. \A q, r \in Processes : Owner(q)' /\ Owner(r)' /\ proc'[q].row = proc'[r].row => q = r
  BY <1>1, <1>4 DEF RowAdded, RowsOwned
<1>8. QED
  BY <1>3, <1>5, <1>6, <1>7 DEF RowsOwned

RowsAtRest == UNCHANGED <<runs, proc, kpi>> /\ events' \in {events, events + 1}

Shape == 
    \/ RowsAtRest
    \/ \E p \in Processes : RowsLeft(p) \/ RowEnded(p) \/ RowAdded(p)

(* Every step leaves the rows, ends one of them or adds one. *)
LEMMA Shapes == IInv /\ [JobsNext]_jVars => Shape
<1> SUFFICES ASSUME IInv, [JobsNext]_jVars PROVE Shape
  OBVIOUS
<1>a. Types /\ RowsOwned
  BY DEF IInv
<1>b. /\ proc \in [Processes -> State] /\ events \in Nat
      /\ runs \in Seq(Run) /\ Len(runs) \in Nat /\ DOMAIN runs = 1..Len(runs)
  BY <1>a DEF Types, ProcTyped, RowsTyped
<1>c. \A p \in Processes : proc[p] \in State
  BY <1>b
<1> USE <1>a, <1>b, <1>c, JobsAssumption
        DEF jVars, row_vars, file_vars, task_vars, Processes, Stages, In
<1>1. ASSUME NEW n \in Nightlies, Start(n) PROVE RowsLeft(n)
  BY <1>1, Moved DEF Start, Holds, RowsLeft, Owner
<1>2. ASSUME NEW n \in Nightlies, _claim_insert(n) PROVE RowsLeft(n)
  BY <1>2, Moved DEF _claim_insert, Holds, RowsLeft, Owner
<1>3. ASSUME NEW n \in Nightlies, claim_job(n) PROVE RowsLeft(n)
  BY <1>3, Moved DEF claim_job, Holds, RowsLeft, Owner
<1>4. ASSUME NEW n \in Nightlies, _mark_stale_failed(n) PROVE RowsLeft(n)
  BY <1>4, Moved DEF _mark_stale_failed, Holds, RowsLeft, Owner
<1>5. ASSUME NEW n \in Nightlies, _transition_failed_to_processing(n) PROVE RowsLeft(n)
  BY <1>5, Moved DEF _transition_failed_to_processing, Holds, RowsLeft, Owner
<1>6. ASSUME NEW n \in Nightlies, SkipExport(n) PROVE RowsLeft(n)
  BY <1>6, Moved DEF SkipExport, Holds, RowsLeft, Owner
<1>7. ASSUME NEW n \in Nightlies, OpenTemp(n) PROVE RowsLeft(n)
  BY <1>7, Moved DEF OpenTemp, Holds, RowsLeft, Owner
<1>8. ASSUME NEW n \in Nightlies, export_telemetry_csv(n) PROVE RowsLeft(n)
  BY <1>8, Moved DEF export_telemetry_csv, Holds, RowsLeft, Owner
<1>9. ASSUME NEW n \in Nightlies, mark_completed(n) PROVE RowsLeft(n)
  BY <1>9, Moved DEF mark_completed, Holds, RowsLeft, Owner
<1>10. ASSUME NEW n \in Nightlies, mark_failed(n) PROVE RowsLeft(n)
  BY <1>10, Moved DEF mark_failed, Holds, RowsLeft, Owner
<1>11. ASSUME NEW n \in Nightlies, ExportFails(n) PROVE RowsLeft(n)
  BY <1>11, Moved DEF ExportFails, Holds, RowsLeft, Owner
<1>12. ASSUME NEW t \in Tasks, run_pipeline_task(t) PROVE RowsLeft(t)
  BY <1>12, Moved DEF run_pipeline_task, Holds, RowsLeft, Owner
<1>13. ASSUME NEW t \in Tasks, _write_dead_letter(t) PROVE RowsLeft(t)
  BY <1>13, Moved DEF _write_dead_letter, Holds, RowsLeft, Owner
<1>14. ASSUME NEW p \in Processes, write_pipeline_run_start(p) PROVE RowsLeft(p)
<2>1. CASE RunningRows # {}
  BY <1>14, <2>1, Raises DEF write_pipeline_run_start, RowsLeft, Owner
<2>2. CASE RunningRows = {}
  BY <1>14, <2>2, MovedGuard DEF write_pipeline_run_start, RowsLeft, Owner,
     RunningRows, RowRunning
<2>3. QED
  BY <2>1, <2>2
<1>15. ASSUME NEW p \in Processes, InsertRun(p) PROVE RowAdded(p)
<2> DEFINE e == [status |-> "Running", saw |-> proc[p].saw]
<2>1. e \in Run /\ e.status = "Running" /\ e.saw = proc[p].saw
  BY <1>c DEF Run, State
<2>2. runs' = Append(runs, e)
  BY <1>15 DEF InsertRun, NewRun
<2> HIDE DEF e
<2>3. /\ Len(runs') = Len(runs) + 1
      /\ runs'[Len(runs) + 1].status = "Running"
      /\ runs'[Len(runs) + 1].saw = proc[p].saw
      /\ \A i \in 1..Len(runs) : runs'[i] = runs[i]
  BY <2>1, <2>2, RowAppended
<2>4. Len(runs) + 1 \in Nat
  OBVIOUS
<2>5. QED
  BY <1>15, <2>3, <2>4, MovedInsert DEF InsertRun, RowAdded, Owner
<1>16. ASSUME NEW p \in Processes, extract_week(p) PROVE RowsLeft(p)
  BY <1>16, MovedExtract DEF extract_week, RowsLeft, Owner
<1>17. ASSUME NEW p \in Processes, load_weekly_performance(p) PROVE RowsLeft(p)
  BY <1>17, Moved DEF load_weekly_performance, Holds, RowsLeft, Owner
<1>18. ASSUME NEW p \in Processes, write_pipeline_run_finish(p) PROVE RowEnded(p)
<2>1. proc[p].row \in 1..Len(runs) /\ Owner(p)
  BY <1>18 DEF write_pipeline_run_finish, Owner, RowsOwned
<2>2. /\ Len(runs') = Len(runs)
      /\ runs'[proc[p].row].status \in {"Completed", "Failed"}
      /\ \A i \in 1..Len(runs) : runs'[i].saw = runs[i].saw
      /\ \A i \in 1..Len(runs) : i # proc[p].row => runs'[i].status = runs[i].status
  BY <1>18, <2>1, RowChanged DEF write_pipeline_run_finish
<2>3. QED
  BY <1>18, <2>1, <2>2, Moved DEF write_pipeline_run_finish, Owner, RowEnded
<1>19. ASSUME NEW p \in Processes, MarkRunFailed(p) PROVE RowEnded(p)
<2>1. proc[p].row \in 1..Len(runs) /\ Owner(p)
  BY <1>19 DEF MarkRunFailed, Owner, RowsOwned
<2>2. /\ Len(runs') = Len(runs)
      /\ runs'[proc[p].row].status \in {"Completed", "Failed"}
      /\ \A i \in 1..Len(runs) : runs'[i].saw = runs[i].saw
      /\ \A i \in 1..Len(runs) : i # proc[p].row => runs'[i].status = runs[i].status
  BY <1>19, <2>1, RowChanged DEF MarkRunFailed
<2>3. QED
  BY <1>19, <2>1, <2>2, Raises DEF MarkRunFailed, Owner, RowEnded
<1>20. ASSUME NEW p \in Processes, InsertUnacknowledged(p) PROVE RowAdded(p)
<2> DEFINE e == [status |-> "Running", saw |-> proc[p].saw]
<2>1. e \in Run /\ e.status = "Running" /\ e.saw = proc[p].saw
  BY <1>c DEF Run, State
<2>2. runs' = Append(runs, e)
  BY <1>20 DEF InsertUnacknowledged, NewRun
<2> HIDE DEF e
<2>3. /\ Len(runs') = Len(runs) + 1
      /\ runs'[Len(runs) + 1].status = "Running"
      /\ runs'[Len(runs) + 1].saw = proc[p].saw
      /\ \A i \in 1..Len(runs) : runs'[i] = runs[i]
  BY <2>1, <2>2, RowAppended
<2>4. Len(runs) + 1 \in Nat
  OBVIOUS
<2>5. QED
  BY <1>20, <2>3, <2>4, Raises DEF InsertUnacknowledged, RowAdded, Owner
<1>21. ASSUME NEW p \in Processes, StageFails(p) PROVE RowsLeft(p)
  BY <1>21, Moved DEF StageFails, Holds, RowsLeft, Owner
<1>22. ASSUME NEW p \in Processes, MarkRunFails(p) PROVE RowsLeft(p)
  BY <1>22, Raises DEF MarkRunFails, RowsLeft, Owner
<1>23. ASSUME NEW p \in Processes, Dies(p) PROVE RowsLeft(p)
  BY <1>23, Moved DEF Dies, Holds, RowsLeft, Owner
<1>24. CASE LockAges
  BY <1>24 DEF LockAges, RowsAtRest, Shape
<1>25. CASE EventsArrive
  BY <1>25 DEF EventsArrive, RowsAtRest, Shape
<1>26. CASE UNCHANGED jVars
  BY <1>26 DEF RowsAtRest, Shape
<1>27. QED
  BY <1>1, <1>2, <1>3, <1>4, <1>5, <1>6, <1>7, <1>8, <1>9, <1>10, <1>11, <1>12, <1>13,
     <1>14, <1>15, <1>16, <1>17, <1>18, <1>19, <1>20, <1>21, <1>22, <1>23, <1>24, <1>25,
     <1>26
     DEF Shape, JobsNext, Step, Fails, Claims, Exports, Flow

(* Each process past the insert has a Running row of its own. *)
LEMMA RowsStep == IInv /\ [JobsNext]_jVars => RowsOwned'
<1>1. ASSUME IInv, RowsAtRest PROVE RowsOwned'
  BY <1>1 DEF IInv, RowsAtRest, RowsOwned, Owner, RowRunning
<1>2. QED
  BY <1>1, Shapes, LeftKeepsRows, EndedKeepsRows, AddedKeepsRows DEF Shape, IInv

(* A process that has passed the guard looked past every Running row. *)
LEMMA GuardStep == IInv /\ [JobsNext]_jVars => Guarded'
<1> SUFFICES ASSUME IInv, [JobsNext]_jVars PROVE Guarded'
  OBVIOUS
<1>1. /\ RowsOwned /\ Guarded /\ Len(runs) \in Nat
      /\ \A q \in Processes : proc[q].saw \in Nat /\ proc[q].row \in Nat
  BY DEF IInv, Types, RowsTyped, ProcTyped, State
<1>2. CASE RowsAtRest
  BY <1>1, <1>2 DEF RowsAtRest, Guarded, RowRunning
<1>3. ASSUME NEW p \in Processes, RowsLeft(p) PROVE Guarded'
  BY <1>1, <1>3 DEF RowsLeft, Guarded, RowRunning
<1>4. ASSUME NEW p \in Processes, RowEnded(p) PROVE Guarded'
  <2>1. \A i \in 1..Len(runs) : RowRunning(i)' => RowRunning(i)
    BY <1>1, <1>4 DEF RowEnded, RowRunning
  <2>2. QED
    BY <1>1, <1>4, <2>1 DEF RowEnded, Guarded
<1>5. ASSUME NEW p \in Processes, RowAdded(p) PROVE Guarded'
  <2>1. \A q \in Processes : proc'[q].at = "insert" =>
           /\ proc'[q].saw <= Len(runs')
           /\ \A i \in 1..Len(runs') : runs'[i].status = "Running" => proc'[q].saw < i
    BY <1>1, <1>5 DEF RowAdded, Guarded, RowRunning
  <2>2. \A i, j \in 1..Len(runs') :
           runs'[i].status = "Running" /\ runs'[j].status = "Running" /\ i < j
              => runs'[j].saw < i
    BY <1>1, <1>5 DEF RowAdded, Guarded, RowRunning
  <2>3. QED
    BY <2>1, <2>2 DEF Guarded, RowRunning
<1>6. QED
  BY <1>2, <1>3, <1>4, <1>5, Shapes DEF Shape

(* Rows that raced stay rows that raced. *)
LEMMA RacedStays ==
    ASSUME Types, NEW p \in Processes, RowsLeft(p) \/ RowEnded(p) \/ RowAdded(p), Raced
    PROVE  Raced'
<1>1. Len(runs) \in Nat
  BY DEF Types, RowsTyped
<1>2. Len(runs) <= Len(runs') /\ Len(runs') \in Nat
      /\ \A i \in 1..Len(runs) : runs'[i].saw = runs[i].saw
  BY <1>1 DEF RowsLeft, RowEnded, RowAdded
<1>3. PICK i, j \in 1..Len(runs) : i < j /\ runs[j].saw < i
  BY DEF Raced
<1>4. i \in 1..Len(runs') /\ j \in 1..Len(runs') /\ runs'[j].saw < i
  BY <1>1, <1>2, <1>3
<1>5. QED
  BY <1>3, <1>4 DEF Raced

(* Of two processes past the insert, one looked before the other inserted. *)
LEMMA TwoOwnersRaced ==
    ASSUME IInv, NEW p \in Processes, NEW q \in Processes, p # q, Owner(p), Owner(q)
    PROVE  Raced
<1>1. /\ proc[p].row \in 1..Len(runs) /\ RowRunning(proc[p].row)
      /\ proc[q].row \in 1..Len(runs) /\ RowRunning(proc[q].row)
      /\ proc[p].row # proc[q].row /\ Len(runs) \in Nat
  BY DEF IInv, RowsOwned, Types, RowsTyped
<1>2. CASE proc[p].row < proc[q].row
  BY <1>1, <1>2 DEF IInv, Guarded, Raced
<1>3. CASE proc[q].row < proc[p].row
  BY <1>1, <1>3 DEF IInv, Guarded, Raced
<1>4. QED
  BY <1>1, <1>2, <1>3

(* The report and what the flows have extracted. *)
LEMMA KeptUpStep == IInv /\ [JobsNext]_jVars => KeptUp'
<1> SUFFICES ASSUME IInv, [JobsNext]_jVars PROVE KeptUp'
  OBVIOUS
<1>1. /\ Types /\ KeptUp /\ kpi \in Nat /\ events \in Nat
      /\ \A q \in Processes : proc[q].seen \in Nat
  BY DEF IInv, Types, RowsTyped, ProcTyped, State
<1>2. CASE RowsAtRest
  BY <1>1, <1>2 DEF RowsAtRest, KeptUp, Raced
<1>3. ASSUME NEW p \in Processes, RowsLeft(p) \/ RowEnded(p) \/ RowAdded(p) PROVE KeptUp'
  <2>1. Raced => Raced'
    BY <1>1, <1>3, RacedStays
  <2>2. CASE kpi' = kpi
    BY <1>1, <1>3, <2>1, <2>2 DEF KeptUp, RowsLeft, RowEnded, RowAdded
  <2>3. CASE kpi' # kpi
    <3>1. proc[p].at = "load" /\ kpi' = proc[p].seen /\ events' = events
          /\ proc'[p].at # "load" /\ \A q \in Processes : q # p => proc'[q] = proc[q]
      BY <1>3, <2>3 DEF RowsLeft, RowEnded, RowAdded
    <3>2. \A q \in Processes : q # p /\ proc[q].at = "load" => Raced'
      BY <2>1, <3>1, TwoOwnersRaced DEF Owner
    <3>3. QED
      BY <1>1, <3>1, <3>2 DEF KeptUp
  <2>4. QED
    BY <2>2, <2>3
<1>4. QED
  BY <1>2, <1>3, Shapes DEF Shape

(* A completed run stays completed. *)
LEMMA CompletedStays == IInv /\ [JobsNext]_jVars /\ RunCompleted => RunCompleted'
<1> SUFFICES ASSUME IInv, [JobsNext]_jVars, RunCompleted PROVE RunCompleted'
  OBVIOUS
<1>1. RowsOwned /\ Len(runs) \in Nat
  BY DEF IInv, Types, RowsTyped
<1>2. PICK i \in 1..Len(runs) : runs[i].status = "Completed"
  BY DEF RunCompleted
<1>3. CASE RowsAtRest
  BY <1>2, <1>3 DEF RowsAtRest, RunCompleted
<1>4. ASSUME NEW p \in Processes, RowsLeft(p) \/ RowEnded(p) \/ RowAdded(p) PROVE RunCompleted'
  <2>1. i \in 1..Len(runs') /\ runs'[i].status = "Completed"
    BY <1>1, <1>2, <1>4 DEF RowsLeft, RowEnded, RowAdded, RowsOwned, RowRunning
  <2>2. QED
    BY <2>1 DEF RunCompleted
<1>5. QED
  BY <1>3, <1>4, Shapes DEF Shape

(* A completed job has its file and a completed run, and so does a process
   that is about to complete it. *)
LEMMA JobBackedStep == IInv /\ [JobsNext]_jVars => JobBacked'
<1> SUFFICES ASSUME IInv, [JobsNext]_jVars PROVE JobBacked'
  OBVIOUS
<1>a. Types /\ RowsOwned /\ JobBacked
  BY DEF IInv
<1>b. /\ proc \in [Processes -> State] /\ runs \in Seq(Run) /\ Len(runs) \in Nat
      /\ events \in Nat
  BY <1>a DEF Types, ProcTyped, RowsTyped
<1>e. RunCompleted => RunCompleted'
  BY CompletedStays
<1> USE <1>a, <1>b, <1>e, JobsAssumption
        DEF jVars, row_vars, file_vars, task_vars, Processes, Stages, In
<1>1. ASSUME NEW n \in Nightlies, Start(n) PROVE JobBacked'
  BY <1>1, Moved DEF Start, Holds, JobBacked, Exported
<1>2. ASSUME NEW n \in Nightlies, _claim_insert(n) PROVE JobBacked'
  BY <1>2, Moved DEF _claim_insert, Holds, JobBacked, Exported
<1>3. ASSUME NEW n \in Nightlies, claim_job(n) PROVE JobBacked'
  BY <1>3, Moved DEF claim_job, Holds, JobBacked, Exported
<1>4. ASSUME NEW n \in Nightlies, _mark_stale_failed(n) PROVE JobBacked'
<2>1. job'.status = "completed" => job.status = "completed"
  BY <1>4, <1>a DEF _mark_stale_failed, Types, JobTyped
<2>2. /\ csv' = csv /\ proc'[n].at \in {"retake", "done"}
      /\ \A q \in Processes : q # n => proc'[q] = proc[q]
  BY <1>4, Moved DEF _mark_stale_failed
<2>3. QED
  BY <2>1, <2>2 DEF JobBacked, Exported
<1>5. ASSUME NEW n \in Nightlies, _transition_failed_to_processing(n) PROVE JobBacked'
  BY <1>5, Moved DEF _transition_failed_to_processing, Holds, JobBacked, Exported
<1>6. ASSUME NEW n \in Nightlies, SkipExport(n) PROVE JobBacked'
  BY <1>6, Moved DEF SkipExport, Holds, JobBacked, Exported
<1>7. ASSUME NEW n \in Nightlies, OpenTemp(n) PROVE JobBacked'
  BY <1>7, Moved DEF OpenTemp, Holds, JobBacked, Exported
<1>8. ASSUME NEW n \in Nightlies, export_telemetry_csv(n) PROVE JobBacked'
  BY <1>8, Moved DEF export_telemetry_csv, Holds, JobBacked, Exported
<1>9. ASSUME NEW n \in Nightlies, mark_completed(n) PROVE JobBacked'
  BY <1>9, Moved DEF mark_completed, Holds, JobBacked, Exported
<1>10. ASSUME NEW n \in Nightlies, mark_failed(n) PROVE JobBacked'
  BY <1>10, Moved DEF mark_failed, Holds, JobBacked, Exported
<1>11. ASSUME NEW n \in Nightlies, ExportFails(n) PROVE JobBacked'
  BY <1>11, Moved DEF ExportFails, Holds, JobBacked, Exported
<1>12. ASSUME NEW t \in Tasks, run_pipeline_task(t) PROVE JobBacked'
  BY <1>12, Moved DEF run_pipeline_task, Holds, JobBacked, Exported
<1>13. ASSUME NEW t \in Tasks, _write_dead_letter(t) PROVE JobBacked'
  BY <1>13, Moved DEF _write_dead_letter, Holds, JobBacked, Exported
<1>14. ASSUME NEW p \in Processes, write_pipeline_run_start(p) PROVE JobBacked'
<2>1. CASE RunningRows # {}
  BY <1>14, <2>1, Raises DEF write_pipeline_run_start, Holds, JobBacked, Exported
<2>2. CASE RunningRows = {}
  BY <1>14, <2>2, MovedGuard DEF write_pipeline_run_start, Holds, JobBacked, Exported
<2>3. QED
  BY <2>1, <2>2
<1>15. ASSUME NEW p \in Processes, InsertRun(p) PROVE JobBacked'
<2>1. Len(runs) + 1 \in Nat
  OBVIOUS
<2>2. QED
  BY <1>15, <2>1, MovedInsert DEF InsertRun, Holds, JobBacked, Exported
<1>16. ASSUME NEW p \in Processes, extract_week(p) PROVE JobBacked'
  BY <1>16, MovedExtract DEF extract_week, Holds, JobBacked, Exported
<1>17. ASSUME NEW p \in Processes, load_weekly_performance(p) PROVE JobBacked'
  BY <1>17, Moved DEF load_weekly_performance, Holds, JobBacked, Exported
<1>18. ASSUME NEW p \in Processes, write_pipeline_run_finish(p) PROVE JobBacked'
<2>1. proc[p].row \in 1..Len(runs) /\ Owner(p)
  BY <1>18 DEF write_pipeline_run_finish, Owner, RowsOwned
<2>2. RunCompleted'
  BY <1>18, <2>1, RowChanged DEF write_pipeline_run_finish, RunCompleted
<2>3. QED
  BY <1>18, <2>2, Moved DEF write_pipeline_run_finish, Holds, JobBacked, Exported
<1>19. ASSUME NEW p \in Processes, MarkRunFailed(p) PROVE JobBacked'
  BY <1>19, Raises DEF MarkRunFailed, Holds, JobBacked, Exported
<1>20. ASSUME NEW p \in Processes, InsertUnacknowledged(p) PROVE JobBacked'
  BY <1>20, Raises DEF InsertUnacknowledged, Holds, JobBacked, Exported
<1>21. ASSUME NEW p \in Processes, StageFails(p) PROVE JobBacked'
  BY <1>21, Moved DEF StageFails, Holds, JobBacked, Exported
<1>22. ASSUME NEW p \in Processes, MarkRunFails(p) PROVE JobBacked'
  BY <1>22, Raises DEF MarkRunFails, Holds, JobBacked, Exported
<1>23. ASSUME NEW p \in Processes, Dies(p) PROVE JobBacked'
  BY <1>23, Moved DEF Dies, Holds, JobBacked, Exported
<1>24. CASE LockAges
  BY <1>24 DEF LockAges, JobBacked
<1>25. CASE EventsArrive
  BY <1>25 DEF EventsArrive, JobBacked
<1>26. CASE UNCHANGED jVars
  BY <1>26 DEF JobBacked
<1>27. QED
  BY <1>1, <1>2, <1>3, <1>4, <1>5, <1>6, <1>7, <1>8, <1>9, <1>10, <1>11, <1>12, <1>13,
     <1>14, <1>15, <1>16, <1>17, <1>18, <1>19, <1>20, <1>21, <1>22, <1>23, <1>24, <1>25,
     <1>26
     DEF JobsNext, Step, Fails, Claims, Exports, Flow

(* A step of a flow leaves its process at work, if it is a nightly one. *)
Works(p) ==
    /\ proc[p].at \in Working \ {"writing"}
    /\ p \in Nightlies => proc'[p].at \in Working
    /\ \A q \in Processes : q # p => proc'[q] = proc[q]
    /\ UNCHANGED <<job, csv, temp, robbed>>

(* Such a step keeps the one holder. *)
LEMMA WorksOn ==
    ASSUME Types, OneHolder, NEW p \in Processes, Works(p)
    PROVE  OneHolder'
<1>1. temp.writers \subseteq Nightlies /\ Nightlies \subseteq Processes
  BY DEF Types, FilesTyped, Processes
<1>2. \A n \in Nightlies : proc'[n].at \in Working => proc[n].at \in Working
  BY <1>1 DEF Works
<1>3. \A n \in temp.writers : proc'[n].at = "writing"
  BY <1>1 DEF Works, OneHolder
<1>4. QED
  BY <1>2, <1>3 DEF Works, OneHolder

(* While no lock was taken over from a process at work, one process works. *)
LEMMA OneHolderStep == IInv /\ [JobsNext]_jVars => OneHolder'
<1> SUFFICES ASSUME IInv, [JobsNext]_jVars PROVE OneHolder'
  OBVIOUS
<1>a. Types /\ OneHolder
  BY DEF IInv
<1>b. /\ proc \in [Processes -> State] /\ Len(runs) \in Nat /\ events \in Nat
      /\ job \in [status : {"none", "processing", "completed", "failed"}, fresh : BOOLEAN]
      /\ temp \in [writers : SUBSET Nightlies, mixed : BOOLEAN]
  BY <1>a DEF Types, ProcTyped, RowsTyped, JobTyped, FilesTyped
<1> USE <1>a, <1>b, JobsAssumption
        DEF jVars, row_vars, file_vars, task_vars, Processes, Stages, In
<1>1. ASSUME NEW n \in Nightlies, Start(n) PROVE OneHolder'
  BY <1>1, Moved DEF Start, Holds, OneHolder, Working, NoFile
<1>2. ASSUME NEW n \in Nightlies, _claim_insert(n) PROVE OneHolder'
  BY <1>2, Moved DEF _claim_insert, Holds, OneHolder, Working, NoFile
<1>3. ASSUME NEW n \in Nightlies, claim_job(n) PROVE OneHolder'
  BY <1>3, Moved DEF claim_job, Holds, OneHolder, Working, NoFile
<1>4. ASSUME NEW n \in Nightlies, _mark_stale_failed(n) PROVE OneHolder'
  BY <1>4, Moved DEF _mark_stale_failed, AtWork, OneHolder, Working
<1>5. ASSUME NEW n \in Nightlies, _transition_failed_to_processing(n) PROVE OneHolder'
  BY <1>5, Moved DEF _transition_failed_to_processing, Holds, OneHolder, Working, NoFile
<1>6. ASSUME NEW n \in Nightlies, SkipExport(n) PROVE OneHolder'
  BY <1>6, Moved DEF SkipExport, Holds, OneHolder, Working, NoFile
<1>7. ASSUME NEW n \in Nightlies, OpenTemp(n) PROVE OneHolder'
  BY <1>7, Moved DEF OpenTemp, Holds, OneHolder, Working, NoFile
<1>8. ASSUME NEW n \in Nightlies, export_telemetry_csv(n) PROVE OneHolder'
  BY <1>8, Moved DEF export_telemetry_csv, Holds, OneHolder, Working, NoFile
<1>9. ASSUME NEW n \in Nightlies, mark_completed(n) PROVE OneHolder'
  BY <1>9, Moved DEF mark_completed, Holds, OneHolder, Working, NoFile
<1>10. ASSUME NEW n \in Nightlies, mark_failed(n) PROVE OneHolder'
  BY <1>10, Moved DEF mark_failed, Holds, OneHolder, Working, NoFile
<1>11. ASSUME NEW n \in Nightlies, ExportFails(n) PROVE OneHolder'
  BY <1>11, Moved DEF ExportFails, Holds, OneHolder, Working, NoFile
<1>12. ASSUME NEW t \in Tasks, run_pipeline_task(t) PROVE OneHolder'
  BY <1>12, Moved DEF run_pipeline_task, Holds, OneHolder, Working, NoFile
<1>13. ASSUME NEW t \in Tasks, _write_dead_letter(t) PROVE OneHolder'
  BY <1>13, Moved DEF _write_dead_letter, Holds, OneHolder, Working, NoFile
<1>14. ASSUME NEW p \in Processes, write_pipeline_run_start(p) PROVE OneHolder'
<2>1. CASE RunningRows # {}
  <3>1. Works(p)
    BY <1>14, <2>1, Raises DEF write_pipeline_run_start, Works, Working
  <3>2. QED
    BY <3>1, WorksOn
<2>2. CASE RunningRows = {}
  <3>1. Works(p)
    BY <1>14, <2>2, MovedGuard DEF write_pipeline_run_start, Works, Working
  <3>2. QED
    BY <3>1, WorksOn
<2>3. QED
  BY <2>1, <2>2
<1>15. ASSUME NEW p \in Processes, InsertRun(p) PROVE OneHolder'
<2>1. Works(p)
  BY <1>15, Len(runs) + 1 \in Nat, MovedInsert DEF InsertRun, Works, Working
<2>2. QED
  BY <2>1, WorksOn
<1>16. ASSUME NEW p \in Processes, extract_week(p) PROVE OneHolder'
  BY <1>16, MovedExtract DEF extract_week, Holds, OneHolder, Working, NoFile
<1>17. ASSUME NEW p \in Processes, load_weekly_performance(p) PROVE OneHolder'
  BY <1>17, Moved DEF load_weekly_performance, Holds, OneHolder, Working, NoFile
<1>18. ASSUME NEW p \in Processes, write_pipeline_run_finish(p) PROVE OneHolder'
  BY <1>18, Moved DEF write_pipeline_run_finish, Holds, OneHolder, Working, NoFile
<1>19. ASSUME NEW p \in Processes, MarkRunFailed(p) PROVE OneHolder'
<2>1. Works(p)
  BY <1>19, Raises DEF MarkRunFailed, Works, Working
<2>2. QED
  BY <2>1, WorksOn
<1>20. ASSUME NEW p \in Processes, InsertUnacknowledged(p) PROVE OneHolder'
<2>1. Works(p)
  BY <1>20, Raises DEF InsertUnacknowledged, Works, Working
<2>2. QED
  BY <2>1, WorksOn
<1>21. ASSUME NEW p \in Processes, StageFails(p) PROVE OneHolder'
  BY <1>21, Moved DEF StageFails, Holds, OneHolder, Working, NoFile
<1>22. ASSUME NEW p \in Processes, MarkRunFails(p) PROVE OneHolder'
<2>1. Works(p)
  BY <1>22, Raises DEF MarkRunFails, Works, Working
<2>2. QED
  BY <2>1, WorksOn
<1>23. ASSUME NEW p \in Processes, Dies(p) PROVE OneHolder'
  BY <1>23, Moved DEF Dies, Holds, OneHolder, Working, NoFile
<1>24. CASE LockAges
  BY <1>24 DEF LockAges, OneHolder
<1>25. CASE EventsArrive
  BY <1>25 DEF EventsArrive, OneHolder
<1>26. CASE UNCHANGED jVars
  BY <1>26 DEF OneHolder
<1>27. QED
  BY <1>1, <1>2, <1>3, <1>4, <1>5, <1>6, <1>7, <1>8, <1>9, <1>10, <1>11, <1>12, <1>13,
     <1>14, <1>15, <1>16, <1>17, <1>18, <1>19, <1>20, <1>21, <1>22, <1>23, <1>24, <1>25,
     <1>26
     DEF JobsNext, Step, Fails, Claims, Exports, Flow

(* No step reopens a job that is completed. *)
LEMMA FinalStep ==
    IInv /\ [JobsNext]_jVars => (job.status = "completed" => job'.status = "completed")
<1> SUFFICES ASSUME IInv, [JobsNext]_jVars, job.status = "completed"
               PROVE  job'.status = "completed"
  OBVIOUS
<1>a. job \in [status : {"none", "processing", "completed", "failed"}, fresh : BOOLEAN]
  BY DEF IInv, Types, JobTyped
<1> USE <1>a, JobsAssumption
        DEF jVars, row_vars, file_vars, task_vars, In
<1>1. ASSUME NEW n \in Nightlies, Start(n) PROVE job'.status = "completed"
  BY <1>1 DEF Start, Holds
<1>2. ASSUME NEW n \in Nightlies, _claim_insert(n) PROVE job'.status = "completed"
  BY <1>2 DEF _claim_insert, Holds
<1>3. ASSUME NEW n \in Nightlies, claim_job(n) PROVE job'.status = "completed"
  BY <1>3 DEF claim_job, Holds
<1>4. ASSUME NEW n \in Nightlies, _mark_stale_failed(n) PROVE job'.status = "completed"
  BY <1>4 DEF _mark_stale_failed, Holds
<1>5. ASSUME NEW n \in Nightlies, _transition_failed_to_processing(n) PROVE job'.status = "completed"
  BY <1>5 DEF _transition_failed_to_processing, Holds
<1>6. ASSUME NEW n \in Nightlies, SkipExport(n) PROVE job'.status = "completed"
  BY <1>6 DEF SkipExport, Holds
<1>7. ASSUME NEW n \in Nightlies, OpenTemp(n) PROVE job'.status = "completed"
  BY <1>7 DEF OpenTemp, Holds
<1>8. ASSUME NEW n \in Nightlies, export_telemetry_csv(n) PROVE job'.status = "completed"
  BY <1>8 DEF export_telemetry_csv, Holds
<1>9. ASSUME NEW n \in Nightlies, mark_completed(n) PROVE job'.status = "completed"
  BY <1>9 DEF mark_completed, Holds
<1>10. ASSUME NEW n \in Nightlies, mark_failed(n) PROVE job'.status = "completed"
  BY <1>10 DEF mark_failed, Holds
<1>11. ASSUME NEW n \in Nightlies, ExportFails(n) PROVE job'.status = "completed"
  BY <1>11 DEF ExportFails, Holds
<1>12. ASSUME NEW t \in Tasks, run_pipeline_task(t) PROVE job'.status = "completed"
  BY <1>12 DEF run_pipeline_task, Holds
<1>13. ASSUME NEW t \in Tasks, _write_dead_letter(t) PROVE job'.status = "completed"
  BY <1>13 DEF _write_dead_letter, Holds
<1>14. ASSUME NEW p \in Processes, write_pipeline_run_start(p) PROVE job'.status = "completed"
  BY <1>14 DEF write_pipeline_run_start, Holds
<1>15. ASSUME NEW p \in Processes, InsertRun(p) PROVE job'.status = "completed"
  BY <1>15 DEF InsertRun, Holds
<1>16. ASSUME NEW p \in Processes, extract_week(p) PROVE job'.status = "completed"
  BY <1>16 DEF extract_week, Holds
<1>17. ASSUME NEW p \in Processes, load_weekly_performance(p) PROVE job'.status = "completed"
  BY <1>17 DEF load_weekly_performance, Holds
<1>18. ASSUME NEW p \in Processes, write_pipeline_run_finish(p) PROVE job'.status = "completed"
  BY <1>18 DEF write_pipeline_run_finish, Holds
<1>19. ASSUME NEW p \in Processes, MarkRunFailed(p) PROVE job'.status = "completed"
  BY <1>19 DEF MarkRunFailed, Holds
<1>20. ASSUME NEW p \in Processes, InsertUnacknowledged(p) PROVE job'.status = "completed"
  BY <1>20 DEF InsertUnacknowledged, Holds
<1>21. ASSUME NEW p \in Processes, StageFails(p) PROVE job'.status = "completed"
  BY <1>21 DEF StageFails, Holds
<1>22. ASSUME NEW p \in Processes, MarkRunFails(p) PROVE job'.status = "completed"
  BY <1>22 DEF MarkRunFails, Holds
<1>23. ASSUME NEW p \in Processes, Dies(p) PROVE job'.status = "completed"
  BY <1>23 DEF Dies, Holds
<1>24. CASE LockAges
  BY <1>24 DEF LockAges
<1>25. CASE EventsArrive
  BY <1>25 DEF EventsArrive
<1>26. CASE UNCHANGED jVars
  BY <1>26 DEF Types
<1>27. QED
  BY <1>1, <1>2, <1>3, <1>4, <1>5, <1>6, <1>7, <1>8, <1>9, <1>10, <1>11, <1>12, <1>13,
     <1>14, <1>15, <1>16, <1>17, <1>18, <1>19, <1>20, <1>21, <1>22, <1>23, <1>24, <1>25,
     <1>26
     DEF JobsNext, Step, Fails, Claims, Exports, Flow

(* The initial state satisfies the invariant. *)
LEMMA InitInv == JobsInit => IInv
<1> SUFFICES ASSUME JobsInit PROVE IInv
  OBVIOUS
<1> USE JobsAssumption DEF JobsInit
<1>1. Fresh \in State
  BY DEF Fresh, State, Stages
<1>2. Len(runs) = 0 /\ runs \in Seq(Run)
  OBVIOUS
<1>3. Types
  BY <1>1, <1>2 DEF Types, JobTyped, FilesTyped, RowsTyped, ProcTyped, TasksTyped,
     MarksTyped,
                    NoFile
<1>4. \A p \in Processes : proc[p].at = "off" /\ proc[p].row = 0
  BY DEF Fresh
<1>5. RowsOwned /\ Guarded /\ KeptUp
  BY <1>2, <1>4 DEF RowsOwned, Guarded, KeptUp, Owner
<1>6. JobBacked /\ OneHolder
  BY <1>4 DEF JobBacked, OneHolder, Exported, Working, NoFile, Processes
<1>7. QED
  BY <1>3, <1>5, <1>6 DEF IInv

(* Every step keeps the invariant. *)
LEMMA StepInv == IInv /\ [JobsNext]_jVars => IInv'
  BY TypesStep, RowsStep, GuardStep, KeptUpStep, JobBackedStep, OneHolderStep DEF IInv

(* The invariant holds in every state. *)
THEOREM Invariant == JobsSpec => []IInv
  BY InitInv, StepInv, PTL DEF JobsSpec

-----------------------------------------------------------------------------
(* The variables have their types. *)
THEOREM TypeCorrect == JobsSpec => []JobsTypeOK
<1>1. IInv => JobsTypeOK
  <2> SUFFICES ASSUME IInv PROVE JobsTypeOK
    OBVIOUS
  <2>1. Types /\ RowsOwned /\ KeptUp
    BY DEF IInv
  <2>2. JobTyped /\ FilesTyped /\ RowsTyped /\ ProcTyped /\ TasksTyped /\ MarksTyped
    BY <2>1 DEF Types
  <2>3. /\ DOMAIN runs = 1..Len(runs)
        /\ \A i \in 1..Len(runs) : runs[i].status \in {"Running", "Completed", "Failed"}
    <3>1. \A i \in 1..Len(runs) : runs[i] \in Run
      BY <2>2 DEF RowsTyped
    <3>2. QED
      BY <2>2, <3>1 DEF RowsTyped, Run
  <2>4. \A p \in Processes : proc[p].at \in Stages
    BY <2>2 DEF ProcTyped, State
  <2>5. QED
    BY <2>1, <2>2, <2>3, <2>4 DEF JobsTypeOK, JobTyped, FilesTyped, TasksTyped,
       MarksTyped,
                                   RowsOwned, KeptUp
<1>2. QED
  BY <1>1, Invariant, PTL

(* A completed job has its CSV file and a completed run of the week,       *)
(* however claims, takeovers, crashes and failed finalizations interleave. *)
THEOREM CompletedIsBacked == JobsSpec => []CompletedMeansDone
<1>1. IInv => CompletedMeansDone
  BY DEF IInv, Types, RowsTyped, JobBacked, RunCompleted, CompletedMeansDone
<1>2. QED
  BY <1>1, Invariant, PTL

(* The file is one process's work, unless a lock was taken from a process  *)
(* that was still at work.                                                 *)
THEOREM FileIsWhole == JobsSpec => []CsvIsWhole
<1>1. IInv => CsvIsWhole
  BY DEF IInv, OneHolder, CsvIsWhole
<1>2. QED
  BY <1>1, Invariant, PTL

(* Two rows are Running at once only if their writers looked together. *)
THEOREM RunningRowsRaced == JobsSpec => []OneRunningUnlessRaced
<1>1. IInv => OneRunningUnlessRaced
  <2> SUFFICES ASSUME IInv PROVE OneRunningUnlessRaced
    OBVIOUS
  <2>1. DOMAIN runs = 1..Len(runs)
    BY DEF IInv, Types, RowsTyped
  <2>2. QED
    BY <2>1 DEF IInv, Guarded, RowRunning, RunningRows, OneRunningUnlessRaced
<1>2. QED
  BY <1>1, Invariant, PTL

(* A job that is completed stays completed. *)
THEOREM CompletedStaysFinal == JobsSpec => CompletedIsFinal
<1>1. IInv /\ [JobsNext]_jVars => (job.status = "completed" => job'.status = "completed")
  BY FinalStep
<1>2. QED
  BY <1>1, Invariant, PTL DEF JobsSpec, CompletedIsFinal

(* The report falls back to older events only after two runs of the week   *)
(* passed the guard together.                                              *)
THEOREM ReportNeverFallsBack == JobsSpec => ReportKeepsUp
<1>1. ASSUME IInv, [JobsNext]_jVars, kpi' < kpi
      PROVE  \E i, j \in DOMAIN runs : i < j /\ runs[j].saw < i
  <2>1. /\ KeptUp /\ kpi \in Nat /\ DOMAIN runs = 1..Len(runs)
        /\ \A q \in Processes : proc[q].seen \in Nat
    BY <1>1 DEF IInv, Types, RowsTyped, ProcTyped, State
  <2>2. \E p \in Processes : proc[p].at = "load" /\ kpi' = proc[p].seen
    BY <1>1, <2>1, Shapes DEF Shape, RowsAtRest, RowsLeft, RowEnded, RowAdded
  <2>3. Raced
    BY <1>1, <2>1, <2>2 DEF KeptUp
  <2>4. QED
    BY <2>1, <2>3 DEF Raced
<1>2. QED
  BY <1>1, Invariant, PTL DEF JobsSpec, ReportKeepsUp
=============================================================================
