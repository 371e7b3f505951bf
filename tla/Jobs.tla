-------------------------------- MODULE Jobs --------------------------------
(***************************************************************************)
(* The weekly report and the two ways to produce it: the nightly wrapper   *)
(* (scripts/nightly_export.py over data/pipelines/job_runner.py), which    *)
(* claims a row of job_runs, exports a CSV file and runs the flow in a     *)
(* subprocess; and the Celery task of services/reporting, which runs the   *)
(* same flow, retries it and writes dead letters.                          *)
(*                                                                         *)
(* One job date and one week.  A step is one committed statement, one file *)
(* operation or one stage of the flow; a Prefect task that used up its own *)
(* retries counts as one failing step.                                     *)
(***************************************************************************)
EXTENDS Naturals, Sequences, FiniteSets

CONSTANTS
    Nightlies,   \* processes of nightly_export.py started for the date
    Tasks,       \* messages of run_pipeline_task for the week
    MaxRetries,  \* Celery's max_retries
    MaxEvents,   \* how far the telemetry of the week grows
    MaxFaults    \* crashes and failures of one behaviour, see Fault

ASSUME JobsAssumption ==
    /\ Nightlies \cap Tasks = {}
    /\ {MaxRetries, MaxEvents, MaxFaults} \subseteq Nat

Processes == Nightlies \cup Tasks

VARIABLES
    job,      \* the job_runs row: its status and whether its claim is fresh
    csv,      \* the exported file: "none", "whole" or "mixed"
    temp,     \* the temporary file: who writes it, and whether writers met
    runs,     \* the pipeline_runs rows, each with what its writer had seen
    kpi,      \* the version of the events the weekly KPI rows come from
    events,   \* the version of the telemetry events
    proc,     \* the processes
    retries,  \* request.retries of each Celery message
    outcome,  \* how each Celery message ended
    robbed,   \* whether a lock was taken over while its holder was at work
              \* ("stale"), or before it was stale ("fresh")
    faults

jVars == <<job, csv, temp, runs, kpi, events, proc, retries, outcome, robbed, faults>>
row_vars == <<runs, kpi, events>>
file_vars == <<csv, temp>>
task_vars == <<retries, outcome>>

Stages == {"off", "claim", "look", "steal", "retake", "export", "writing",
           "guard", "insert", "extract", "load", "finish", "failing",
           "complete", "fail", "deadletter", "done"}
Working == {"export", "writing", "guard", "insert", "extract", "load", "finish",
            "failing", "complete", "fail"}

NoFile == [writers |-> {}, mixed |-> FALSE]

Fresh == [at |-> "off", saw |-> 0, row |-> 0, seen |-> 0]

In(p, stage) == proc[p].at = stage
Goto(p, stage) ==
    proc' = [proc EXCEPT ![p] =
                IF stage \in {"guard", "fail", "complete", "done"}
                THEN [Fresh EXCEPT !.at = stage]
                ELSE [@ EXCEPT !.at = stage]]
AtWork == {p \in Nightlies : proc[p].at \in Working}

\* A failure that lasts is counted once: what follows a failed stage, and the
\* retries of a task, which come within seconds, may fail as well.
Fault == faults < MaxFaults /\ faults' = faults + 1

-----------------------------------------------------------------------------
(* Claiming the date (job_runner.claim_job).                               *)

Start(n) ==
    /\ In(n, "off")
    /\ Goto(n, "claim")
    /\ UNCHANGED <<job, file_vars, row_vars, task_vars, robbed, faults>>

Holds(n) ==
    /\ job' = [status |-> "processing", fresh |-> TRUE]
    /\ Goto(n, "export")

\* Mutant: an insert that meets a row of the date counts as a claim.
ClaimAnyRow(n) ==
    /\ In(n, "claim")
    /\ IF job.status \in {"none", "processing"}
       THEN Holds(n)
       ELSE Goto(n, "look") /\ UNCHANGED job
    /\ UNCHANGED <<file_vars, row_vars, task_vars, robbed, faults>>

_claim_insert(n) ==
    /\ In(n, "claim")
    /\ IF job.status = "none"
       THEN Holds(n)
       ELSE Goto(n, "look") /\ UNCHANGED job
    /\ UNCHANGED <<file_vars, row_vars, task_vars, robbed, faults>>

claim_job(n) ==
    /\ In(n, "look")
    /\ Goto(n, CASE job.status = "failed" -> "retake"
                 [] job.status = "processing" /\ ~job.fresh -> "steal"
                 [] OTHER -> "done")
    /\ UNCHANGED <<job, file_vars, row_vars, task_vars, robbed, faults>>

\* Mutant: the stale lock is failed without a condition on its status.
MarkStaleUnconditional(n) ==
    /\ In(n, "steal")
    /\ job' = [job EXCEPT !.status = "failed"]
    /\ Goto(n, "retake")
    /\ UNCHANGED <<file_vars, row_vars, task_vars, robbed, faults>>

_mark_stale_failed(n) ==
    /\ In(n, "steal")
    /\ IF job.status = "processing"
       THEN /\ job' = [job EXCEPT !.status = "failed"]
            /\ robbed' = CASE job.fresh -> "fresh"
                           [] ~job.fresh /\ AtWork # {} /\ robbed = "no" -> "stale"
                           [] OTHER -> robbed
            /\ Goto(n, "retake")
       ELSE Goto(n, "done") /\ UNCHANGED <<job, robbed>>
    /\ UNCHANGED <<file_vars, row_vars, task_vars, faults>>

_transition_failed_to_processing(n) ==
    /\ In(n, "retake")
    /\ IF job.status = "failed"
       THEN Holds(n)
       ELSE Goto(n, "done") /\ UNCHANGED job
    /\ UNCHANGED <<file_vars, row_vars, task_vars, robbed, faults>>

\* STALE_LOCK_HOURS pass: whoever holds a claim now has held it too long.
LockAges ==
    /\ job.status = "processing" /\ job.fresh
    /\ job' = [job EXCEPT !.fresh = FALSE]
    /\ UNCHANGED <<file_vars, row_vars, proc, task_vars, robbed, faults>>

-----------------------------------------------------------------------------
(* The export: every process writes the same temporary path and renames    *)
(* it; a file that is there is not exported again.                         *)

SkipExport(n) ==
    /\ In(n, "export")
    /\ csv # "none"
    /\ Goto(n, "guard")
    /\ UNCHANGED <<job, file_vars, row_vars, task_vars, robbed, faults>>

OpenTemp(n) ==
    /\ In(n, "export")
    /\ csv = "none"
    /\ temp' = [writers |-> temp.writers \cup {n},
                mixed |-> temp.mixed \/ temp.writers # {}]
    /\ Goto(n, "writing")
    /\ UNCHANGED <<job, csv, row_vars, task_vars, robbed, faults>>

\* Renaming fails when another process has renamed the file already.
export_telemetry_csv(n) ==
    /\ In(n, "writing")
    /\ IF n \in temp.writers
       THEN /\ csv' = IF temp.mixed THEN "mixed" ELSE "whole"
            /\ temp' = NoFile
            /\ Goto(n, "guard")
       ELSE Goto(n, "fail") /\ UNCHANGED file_vars
    /\ UNCHANGED <<job, row_vars, task_vars, robbed, faults>>

ExportFails(n) ==
    /\ In(n, "writing")
    /\ Fault
    /\ temp' = NoFile
    /\ Goto(n, "fail")
    /\ UNCHANGED <<job, csv, row_vars, task_vars, robbed>>

-----------------------------------------------------------------------------
(* The flow (pipeline.py), run by a nightly process or a Celery worker.    *)

\* A flow that raises: the wrapper marks the job failed, the worker gives
\* the task up behind the guard, retries it, or goes on to the dead letter.
FlowRaises(p, behindGuard) ==
    IF p \in Nightlies
    THEN Goto(p, "fail") /\ UNCHANGED task_vars
    ELSE \/ /\ behindGuard
            /\ Goto(p, "done")
            /\ outcome' = [outcome EXCEPT ![p] = "guarded"]
            /\ UNCHANGED retries
         \/ /\ ~behindGuard /\ retries[p] < MaxRetries
            /\ Goto(p, "guard")
            /\ retries' = [retries EXCEPT ![p] = @ + 1]
            /\ UNCHANGED outcome
         \/ /\ ~behindGuard /\ retries[p] = MaxRetries
            /\ Goto(p, "deadletter")
            /\ UNCHANGED task_vars

RunningRows == {i \in DOMAIN runs : runs[i].status = "Running"}

\* Mutant: the guard looks at the last row only.
GuardLastRow(p) ==
    /\ In(p, "guard")
    /\ IF Len(runs) \in RunningRows /\ Len(runs) = 1
       THEN FlowRaises(p, TRUE)
       ELSE /\ proc' = [proc EXCEPT ![p].at = "insert", ![p].saw = Len(runs)]
            /\ UNCHANGED task_vars
    /\ UNCHANGED <<job, file_vars, row_vars, robbed, faults>>

\* Mutant: a run waits for the Running row of its week to end.
GuardWaits(p) ==
    /\ In(p, "guard")
    /\ RunningRows = {}
    /\ proc' = [proc EXCEPT ![p].at = "insert", ![p].saw = Len(runs)]
    /\ UNCHANGED <<job, file_vars, row_vars, task_vars, robbed, faults>>

write_pipeline_run_start(p) ==
    /\ In(p, "guard")
    /\ IF RunningRows # {}
       THEN FlowRaises(p, TRUE)
       ELSE /\ proc' = [proc EXCEPT ![p].at = "insert", ![p].saw = Len(runs)]
            /\ UNCHANGED task_vars
    /\ UNCHANGED <<job, file_vars, row_vars, robbed, faults>>

NewRun(p) == Append(runs, [status |-> "Running", saw |-> proc[p].saw])

InsertRun(p) ==
    /\ In(p, "insert")
    /\ runs' = NewRun(p)
    /\ proc' = [proc EXCEPT ![p].at = "extract", ![p].saw = 0,
                            ![p].row = Len(runs) + 1]
    /\ UNCHANGED <<job, file_vars, kpi, events, task_vars, robbed, faults>>

\* The commit arrives and its answer does not: Prefect retries the task,
\* which finds the row it wrote itself and raises.
InsertUnacknowledged(p) ==
    /\ In(p, "insert")
    /\ Fault
    /\ runs' = NewRun(p)
    /\ FlowRaises(p, TRUE)
    /\ UNCHANGED <<job, file_vars, kpi, events, robbed>>

extract_week(p) ==
    /\ In(p, "extract")
    /\ proc' = [proc EXCEPT ![p].at = "load", ![p].seen = events]
    /\ UNCHANGED <<job, file_vars, row_vars, task_vars, robbed, faults>>

load_weekly_performance(p) ==
    /\ In(p, "load")
    /\ kpi' = proc[p].seen
    /\ Goto(p, "finish")
    /\ UNCHANGED <<job, file_vars, runs, events, task_vars, robbed, faults>>

StageFails(p) ==
    /\ proc[p].at \in {"extract", "load", "finish"}
    /\ Fault \/ (p \in Tasks /\ retries[p] > 0 /\ UNCHANGED faults)
    /\ Goto(p, "failing")
    /\ UNCHANGED <<job, file_vars, row_vars, task_vars, robbed>>

write_pipeline_run_finish(p) ==
    /\ In(p, "finish")
    /\ runs' = [runs EXCEPT ![proc[p].row].status = "Completed"]
    /\ IF p \in Nightlies
       THEN Goto(p, "complete") /\ UNCHANGED task_vars
       ELSE /\ Goto(p, "done")
            /\ outcome' = [outcome EXCEPT ![p] = "success"]
            /\ UNCHANGED retries
    /\ UNCHANGED <<job, file_vars, kpi, events, robbed, faults>>

MarkRunFailed(p) ==
    /\ In(p, "failing")
    /\ runs' = [runs EXCEPT ![proc[p].row].status = "Failed"]
    /\ FlowRaises(p, FALSE)
    /\ UNCHANGED <<job, file_vars, kpi, events, robbed, faults>>

\* The row stays Running; the error is logged and the flow raises.
MarkRunFails(p) ==
    /\ In(p, "failing")
    /\ FlowRaises(p, FALSE)
    /\ UNCHANGED <<job, file_vars, row_vars, robbed, faults>>

-----------------------------------------------------------------------------
(* The end of a nightly process and of a Celery task.                      *)

\* Mutant: the job is completed whatever became of the export.
CompleteFailed(n) ==
    /\ In(n, "fail")
    /\ job' = [job EXCEPT !.status = IF @ = "processing" THEN "completed" ELSE @]
    /\ Goto(n, "done")
    /\ UNCHANGED <<file_vars, row_vars, task_vars, robbed, faults>>

\* _finalize_with_retry changes a processing row, accepts one that has the
\* status already, and otherwise raises; then the wrapper marks it failed.
mark_completed(n) ==
    /\ In(n, "complete")
    /\ CASE job.status = "processing" ->
              /\ job' = [job EXCEPT !.status = "completed"]
              /\ Goto(n, "done")
         [] job.status = "completed" -> Goto(n, "done") /\ UNCHANGED job
         [] OTHER -> Goto(n, "fail") /\ UNCHANGED job
    /\ UNCHANGED <<file_vars, row_vars, task_vars, robbed, faults>>

mark_failed(n) ==
    /\ In(n, "fail")
    /\ job' = [job EXCEPT !.status = IF @ = "processing" THEN "failed" ELSE @]
    /\ Goto(n, "done")
    /\ UNCHANGED <<file_vars, row_vars, task_vars, robbed, faults>>

\* The letter is written, or its insert fails too and the task just ends.
_write_dead_letter(t) ==
    /\ In(t, "deadletter")
    /\ \E how \in {"dead", "lost"} : outcome' = [outcome EXCEPT ![t] = how]
    /\ Goto(t, "done")
    /\ UNCHANGED <<job, file_vars, row_vars, retries, robbed, faults>>

run_pipeline_task(t) ==
    /\ In(t, "off")
    /\ Goto(t, "guard")
    /\ UNCHANGED <<job, file_vars, row_vars, task_vars, robbed, faults>>

\* A nightly process that dies stays dead, a Celery message is delivered
\* again (task_acks_late) with the retries it had.
Dies(p) ==
    /\ proc[p].at \notin {"off", "done"}
    /\ Fault
    /\ Goto(p, IF p \in Nightlies THEN "done" ELSE "guard")
    /\ temp' = [temp EXCEPT !.writers = @ \ {p}]
    /\ UNCHANGED <<job, csv, row_vars, task_vars, robbed>>

EventsArrive ==
    /\ events < MaxEvents
    /\ events' = events + 1
    /\ UNCHANGED <<job, file_vars, runs, kpi, proc, task_vars, robbed, faults>>

-----------------------------------------------------------------------------
JobsInit ==
    /\ job = [status |-> "none", fresh |-> TRUE]
    /\ csv = "none"
    /\ temp = NoFile
    /\ runs = <<>>
    /\ kpi = 0
    /\ events = 1
    /\ proc = [p \in Processes |-> Fresh]
    /\ retries = [t \in Tasks |-> 0]
    /\ outcome = [t \in Tasks |-> "open"]
    /\ robbed = "no"
    /\ faults = 0

Claims(n) ==
    \/ Start(n) \/ _claim_insert(n) \/ claim_job(n) \/ _mark_stale_failed(n)
    \/ _transition_failed_to_processing(n)

Exports(n) ==
    \/ SkipExport(n) \/ OpenTemp(n) \/ export_telemetry_csv(n)
    \/ mark_completed(n) \/ mark_failed(n)

Flow(p) ==
    \/ write_pipeline_run_start(p) \/ InsertRun(p) \/ extract_week(p)
    \/ load_weekly_performance(p) \/ write_pipeline_run_finish(p) \/ MarkRunFailed(p)

Step(p) ==
    \/ p \in Nightlies /\ (Claims(p) \/ Exports(p))
    \/ p \in Tasks /\ (run_pipeline_task(p) \/ _write_dead_letter(p))
    \/ Flow(p)

Fails(p) ==
    \/ p \in Nightlies /\ ExportFails(p)
    \/ InsertUnacknowledged(p) \/ StageFails(p) \/ MarkRunFails(p) \/ Dies(p)

JobsNext ==
    \/ \E p \in Processes : Step(p) \/ Fails(p)
    \/ LockAges
    \/ EventsArrive

\* Started processes keep running; cron and the callers need not start any.
JobsFairness == \A t \in Tasks : WF_jVars(Step(t))

JobsSpec == JobsInit /\ [][JobsNext]_jVars /\ JobsFairness

-----------------------------------------------------------------------------
(* The row, the files and the processes hold values of their shape.        *)
JobsTypeOK ==
    /\ job \in [status : {"none", "processing", "completed", "failed"}, fresh : BOOLEAN]
    /\ csv \in {"none", "whole", "mixed"}
    /\ temp.writers \subseteq Nightlies
    /\ \A i \in DOMAIN runs :
          runs[i].status \in {"Running", "Completed", "Failed"} /\ runs[i].saw < i
    /\ kpi <= events
    /\ \A p \in Processes : proc[p].at \in Stages /\ proc[p].row <= Len(runs)
    /\ robbed \in {"no", "stale", "fresh"}
    /\ retries \in [Tasks -> 0..MaxRetries]
    /\ outcome \in [Tasks -> {"open", "success", "guarded", "dead", "lost"}]

(* A job that is completed has its CSV file and a completed run of the     *)
(* week behind it, whichever of several claimants marked the row.          *)
CompletedMeansDone ==
    job.status = "completed" =>
        /\ csv # "none"
        /\ \E i \in DOMAIN runs : runs[i].status = "Completed"

(* Completed is final: neither a takeover nor a late mark_failed of a      *)
(* process that was presumed dead reopens the date ("skip-duplicate").     *)
CompletedIsFinal ==
    [][job.status = "completed" => job'.status = "completed"]_jVars

(* The exported file is one process's work, unless a claim was taken from  *)
(* a process that was still at work: all of them write one temporary path. *)
CsvIsWhole == csv = "mixed" => robbed # "no"

(* Two rows of the week are Running at once only if the second writer had  *)
(* looked before the first one inserted: the guard of                      *)
(* write_pipeline_run_start is a read and an insert in two statements.     *)
OneRunningUnlessRaced ==
    \A i, j \in RunningRows : i < j => runs[j].saw < i

(* The report never falls back to older events, unless two runs of the     *)
(* week passed the guard together and the older extract was loaded last.   *)
ReportKeepsUp ==
    [][kpi' < kpi => \E i, j \in DOMAIN runs : i < j /\ runs[j].saw < i]_jVars

(* A task that was taken up comes to an end: it succeeds, is refused by    *)
(* the guard, is written to the dead letters, or failed to be.             *)
TasksSettle ==
    \A t \in Tasks : proc[t].at # "off" ~> outcome[t] # "open"

(* A claim is exclusive: a takeover never fails a lock that is within the  *)
(* stale limit (claim_job: "Atomically claim a nightly job run").          *)
ClaimsAreExclusive == robbed # "fresh"
=============================================================================
