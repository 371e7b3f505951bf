# Brasaland Digital: a TLA+ model of its services

Brasaland Digital is a set of Python services for a chain of restaurants, with a back office in
TypeScript: requests for proposal (RFPs) that are drafted by a language model and approved by
people, a weekly report built by a nightly job and by Celery tasks, accounts and sessions, stock,
incidents, suppliers, telemetry, a support agent with a memory, and the indexes it answers from.
This directory has TLA+ modules of them, TLC runs over small instances, and proofs that the TLA+
proof system checks for every value of the constants.

What is hard in these services is the same in most of them: handlers run in a thread pool and
overlap; a check and the write it allows are separate statements, often in separate
transactions, files or databases; processes die between two commits; messages are delivered
again; and an answer that does not come does not say what became of the request.

Paths below are relative to the repository (`services/...`, `data/...`).

- [Components of the system](#components-of-the-system)
- [What is modelled, and where it is in the code](#what-is-modelled-and-where-it-is-in-the-code)
- [Runs](#runs)
- [Disagreements between the code and its documents](#disagreements-between-the-code-and-its-documents)
- [Proofs](#proofs)
- [What is not modelled](#what-is-not-modelled)
- [Plan](#plan)

## Components of the system

| Component | State it keeps | Operations | Interacts with | What is hard | What makes it correct | Modules |
| --- | --- | --- | --- | --- | --- | --- |
| RFP lifecycle (`data/pipelines/rfp_intake/lifecycle.py`) | none, a table | `validate_transition` | every status write | - | the status moves only along the table | `RfpStatus`, `TicketLifecycle` |
| RFP persistence (`rfp_intake/models.py`, `repository.py`, `services/rfp/checkpointer.py`) | ticket, metadata, one row per department, final document; one checkpoint thread per department and one for the CEO | one function, one commit | both halves below | two stores, read-modify-write of a JSON column | the stores agree on interrupts and drafts | `RfpStore` |
| RFP routes and worker (`services/rfp/routers/rfp.py`, `tasks.py`, `celery_app.py`) | queue, running task | upload, response, approval | Redis, Postgres, SQLite | at-least-once delivery, crashes between commits, a broken session | each stage ends; repeated tasks do no harm | `RfpWorker` |
| RFP decisions (`services/rfp/approval_driver.py`, `rfp_intake/approval_graph.py`, `approval_orchestration.py`) | in-request snapshot of rows | department decision, CEO decision, finalization | Postgres, SQLite | overlapping requests, requests that die half-way | a document is complete, approved, and made once | `RfpDecisions` |
| RFP intake, response, arbitration (`rfp_intake/graph.py`, `response_graph.py`, `evaluators/`, `arbitration.py`) | none between tasks | triage, classify, extract; generate and evaluate; arbitrate | called by the tasks, calls the providers | calls that fail, loops, answers of any shape | every draft that goes on was judged | `Drafting`, `Generation` |
| Nightly job runner (`data/pipelines/job_runner.py`, `scripts/nightly_export.py`) | `job_runs`, CSV file | claim, stale takeover, export, finalize with retry | Postgres, files, a subprocess | two owners of one date, a shared temporary file | a completed date has its file and its run | `Jobs` |
| Weekly pipeline (`data/pipelines/pipeline.py`, `transform.py`, `services/reporting/tasks.py`) | `pipeline_run`, weekly rows, dead letters | start guard, extract, transform, load, Celery retry | Celery, Postgres, the jobs above | check-then-insert, retry after a partial run, a cache | the report is what the events come to and does not fall back | `Jobs`, `WeeklyKpis` |
| Auth (`services/auth`) | users and refresh tokens in two TinyDB tables | login, rotate, log out, reset, register, edit, delete | all services verify its tokens | every operation is several table calls without a lock | a token is exchanged once; a reset ends older sessions | `Sessions` |
| Inventory and order forms (`services/inventory`, `uis/backoffice/app/inventory`) | orders in and out | create, check stock | Postgres advisory lock, telemetry | orders out at once; requests that outlive their form | stock never negative | `Inventory`, `Backoffice` |
| Incidents (`services/incident-manager`, `packages/shared`) | incidents | seed, create, change of status | MCP server, back office | read and write in two sessions | closed stays closed | `IncidentDesk`, `Assistant` |
| Telemetry (`services/telemetry`, `uis/backoffice/lib/telemetry.ts`) | client queue, events, cached report | track, flush, beacon, ingest, report | order forms, login page | lost and repeated batches | stored once, none lost unaccounted | `Telemetry`, `Backoffice` |
| Support agent, guardrails, memory (`data/pipelines/support_agent.py`, `guardrails.py`, `memory_store.py`) | session ledger with one pending proposal, entries, audit log | a turn of the graph | MCP server, documents, model | turns over shared dictionaries; TTLs | only what was approved is remembered | `SupportAgent`, `Assistant` |
| Company tools MCP (`mcps/company-tools`) | cached service token | ticket and stock tools | auth, incident manager, inventory | expiry, a 401 that comes late | a good token is not dropped, a call is retried once | `CompanyTools`, `Assistant` |
| Knowledge (`data/pipelines/rag.py`, `public_rag.py`, `public_loaders.py`) | a collection per profile | build, ask | Qdrant, providers | rebuilding while asked, dying half-way | what is indexed is the corpus; guests get what is public | `Knowledge`, `Generation` |
| Supplier directory (`services/supplier-directory`) | a TinyDB table | seed, create, update, delete | back office | every change rewrites the file | one id, one supplier; no change undone | `Suppliers` |
| Incident analysis (`services/incident-analysis`) | results with expiry, in one process | analyse an upload, read it | - | - | - | not modelled |
| Sales forecast (`data/pipelines/sales_forecast.py`) | trained models | train, evaluate | - | numeric | - | not modelled |
| Token verification, client addresses (`packages/auth-verify`, `packages/proxy-trust`) | none | stateless checks | every service | - | - | not modelled |
| Other front ends, static sites, scripts (`uis`, `apps`, `scripts`) | views | - | the services | - | - | not modelled |

`PROJECT.json` lists for each component what is covered, and under `hazards` every place where
the code can go wrong in a way a unit test would hardly reach, with the properties about it.

### How the RFP service runs

```
 POST /rfp/tickets            -> ticket(analyzing)        -> process_rfp
 POST /rfp/tickets/.../response  (intake_complete)        -> process_rfp_response
 POST /rfp/tickets/.../approval  (under_evaluation)       -> process_rfp_approval
 POST .../sections/{dept}/decision, .../ceo-decision  (waiting_for_approval), synchronous
```

- One API process and one worker (`docker-compose.yml` starts the worker with `--pool=solo`):
  tasks run one at a time, but the synchronous decision routes run in a thread pool and overlap.
- The worker acknowledges late (`task_acks_late`, `celery_app.py:39-54`): a crash in a task
  delivers its message again. A task that raises is acknowledged and not retried.
- Repository functions commit one row each. A SQLAlchemy session keeps the rows it loaded until
  its next commit, writes only changed columns, and writes a JSON column as a whole.
- Approval of a section is a LangGraph thread that pauses in `approve_node`. The checkpoint is in
  SQLite; the id of the interrupt to resume is in `department_section.evaluation_results`.

## What is modelled, and where it is in the code

```
 RfpStatus <- TicketLifecycle                                (abstract specification)
 RfpStatus <- RfpStore <- RfpWorker    <- MCRfpWorker, RfpWorkerProofs
                       <- RfpDecisions <- MCRfpDecisions, RfpDecisionsProofs
 (RfpWorker and RfpDecisions have an instance of TicketLifecycle)
 Jobs      <- MCJobs, JobsProofs
 Sessions  <- MCSessions, SessionsProofs
 SupportAgent + CompanyTools + IncidentDesk         <- Assistant  <- MCAssistant, AssistantProofs
 Inventory + Telemetry + Suppliers                  <- Backoffice <- MCBackoffice, BackofficeProofs
 Generation <- Drafting, Knowledge
 Drafting + Knowledge + WeeklyKpis                  <- Pipelines  <- MCPipelines, PipelinesProofs
 Rows <- Inventory, Telemetry, Suppliers, SupportAgent, Generation, WeeklyKpis, RowsProofs  (WHERE and SUM)
 RowsProofs <- SessionsProofs, BackofficeProofs, AssistantProofs, PipelinesProofs
```

`map` in `PROJECT.json` gives the source lines of every definition. One convention is common to
the modules of threaded handlers: a step ends where another thread's step can change what was
read (a query, a commit, a table call of TinyDB, a call to a module-level dictionary or to another
service), and a *mark* (`late`, `raced`, `overlapped`, `saw`) records that somebody else wrote in
between. The code does not have these marks and no guard reads them; the properties use them to
say what the code does promise, which is seldom "always" and mostly "unless two requests met".

### RFP service

**RfpStatus** holds the status table and `validate_transition`.

**TicketLifecycle** is what the service promises of a ticket from outside: the status moves along
the table, the document appears only while the ticket waits for approval, and `done` needs the
document. Both halves below are shown to implement it, with `published <- (doc.version > 0)`.

**RfpStore** is the persistent state of one ticket (tickets share nothing): `status`, `needed`
(`departments_needed`), `rows` (`department_section`), `doc` (`final_document`), and the
checkpoints `threads` and `ceo`. A draft is a number that says which draft it is; of the
evaluation JSON the keys the flow reads are kept. An interrupt id is the count of the pauses of
its thread: LangGraph derives ids from the checkpoint, so two pauses of a thread never share one.
Starting a graph afresh on an existing thread keeps the count and resets the rest.

**RfpWorker** is the asynchronous half. Each action ends at one commit, so a crash or a failing
call can fall between any two.

| Action | Code |
| --- | --- |
| `post_ticket`, `post_ticket_enqueue_fails`, `post_ticket_response`, `post_ticket_approval` | the routes; the row is committed before the task is enqueued |
| `Deliver`, `Ack`, `WorkerCrash` | Celery with late acknowledgement |
| `IntakeDiscards` ... `IntakeCompletes` | `process_rfp`: metadata, sections and status are three commits; `SaveSectionsConflict` is the unique constraint met by a redelivery |
| `StartDrafting` ... `ResponseCompletes` | `process_rfp_response` |
| `RecoverSection`, `RecoverStatus` | its crash path |
| `CheckApprovalStatus` ... `ApprovalStarted` | `process_rfp_approval`: stamp all rows, flip the status, then per department start the thread (SQLite) and save its interrupt (Postgres) |
| `FlagForReview` | its crash path, which leaves the status alone |
| `StoreFails`, `ResponseGraphFails`, `ApprovalFails` | a failing call; after a failed statement the session of `process_rfp_response` refuses every later statement, so its crash path writes nothing |

What the graphs answer is a choice: intake discards or picks any set of departments with
marketing in it (another choice on redelivery), the response marks any section for review,
arbitration may ask for the CEO and may force any sections.

**RfpDecisions** is the synchronous half, from the moment `process_rfp_approval` has started
every thread (`StartedApproval`). `req[r]` is the request `r` with its local variables;
`req[r].seen` is what its session has loaded, so that a stale write is in the model:
a write of a column takes effect only when the value differs from the loaded one (`Column`), and
replaces the evaluation as a whole (`SaveRegen`, `SaveOutcome`, `PatchRow`). Loading a checkpoint
(`LoadThread`, `LoadCeo`) and writing the next one (`Resume...`, `Regen`, `ResumeCeo`) are
separate steps. `ResumeMismatches` and `CeoResult` model a resume with an id that is not the
pending one: the graph pauses again, which the driver takes for a regenerated section, or, for
the CEO, for a rejection. `RequestDies` ends a request between any two steps.

The reads a request makes between two commits are one step (the ticket and the rows when it is
accepted; `session.refresh` of the row just written and the next `SELECT`). In the code another
request can commit between them, so one of the rows can be a little older than the rest. What is
checked and proved under overlap does not depend on it: it uses of a snapshot only that a section
decided then is decided now.

Checking and writing the status (`update_ticket_status`) is one step: the writers that can race
in it write the same value.

**Generation** and **Drafting** compute what `RfpWorker` leaves as a choice. `generation_tiers`
and `Attempted` are the fail-over between providers (`GEN_1_*`, `GEN_2_*`, ...: the slots are read
up to the first that is not set). `Drafting` runs one ticket through `prefilter_validity`,
`classify_node`, `extract_node`, `department_worker` and `synthesize_node`, then one `make_worker`
loop per department (generate, evaluate, at most `ITERATION_LIMIT` = 3 rounds), then
`extract_section_numbers` and `run_arbitration`. Each answer of the model is any member of a small
set, each call may go without an answer, and a draft is what the evaluators look for in it.

### Jobs and reports

**Jobs** has one job date and one week. A nightly process goes through `_claim_insert`, `claim_job`,
`_mark_stale_failed` and `_transition_failed_to_processing` (claiming), `OpenTemp` and
`export_telemetry_csv` (every process writes the same `.tmp` and renames it), the flow, and
`mark_completed` or `mark_failed` (`_finalize_with_retry`). A Celery task runs the same flow:
`write_pipeline_run_start` (the guard: look, then `InsertRun`), `extract_week`,
`load_weekly_performance`, `write_pipeline_run_finish`; it retries up to `MaxRetries` times and
then writes a dead letter. `LockAges` makes a lock older than `STALE_LOCK_HOURS`. Faults are
outages: `StageFails`, `ExportFails`, `InsertUnacknowledged` (the row is committed and its
answer lost, so the retry meets its own row), `Dies`; an outage that lasts may also fail what
follows it (`MarkRunFails`, the dead letter, a retry) without counting again.

**WeeklyKpis** is the same flow seen from inside: `transform_week` with the loops of
`transform.py` (a sum over the rows a loop does not skip, `Adds` and `Counts`) over events that come in
any order, at the edges of the week and with fields missing, and Prefect's cache of the transform, keyed by the ids of the events (`transform_cache_key_fn`).

### Accounts

**Sessions** has the two TinyDB tables of the auth service and its requests, one step per table
call: `auth_login`, `rotate_refresh_token` / `RotateUser` / `RotateRevoke` / `issue_refresh_token`,
`revoke_refresh_token`, `request_password_reset` / `StoreLink`, `reset_password` /
`ResetSetPassword` / `ResetRevokeAll`, `register_user` / `create_user` / `InsertUser`, the edits and
`delete_user`. `late` marks a request during which another one wrote; `epoch` counts the resets of
an account that are through, `uses` the passwords a link has set.

### Agent and tools

**SupportAgent** is one action per node of the graph for a turn of one session: `resolve_memory`,
`write_memory`, `consolidate_location`, `log_proposal_event`, `clear_pending_memory`,
`route_sources`, `compose_answer`, `attach_memory_proposal`, `Propose`, `output_guardrails`. A
question is the set of cues its regular expressions find; which of them decides is the code's
order (`classify_input`, `classify_memory_decision`, `_decide_route`). `entries` are kept in Redis
or in the process (`redis`), and `SessionAges` and `EntryAges` let a TTL pass.

**CompanyTools** is the MCP server: the token cache with its lock (`_acquire_service_token`,
`_invalidate_if_current`), the retry after a 401 (`Unauthorized`), and the tools, including
requests that time out while the incident manager goes on (`RequestTimesOut`,
`PatchWithoutCaller`). **IncidentDesk** is that service, with the two sessions of a change of
status (`update_incident_status` checks, `update_status_fields` writes). **Assistant** joins the
three: a turn that looks a ticket up once (`LookupBegins`, `_ainvoke`, `lookup_ticket`, `LookupTimesOut`), another client
of the server, and people at the desk. `seen` collects what was true of a ticket during the lookup.

### Back office

**Inventory** has the orders and their forms: `_acquire_location_stock_lock`, `OutboundChecks` and
`create_outbound_order` (on Postgres the lock is held to the end of the transaction; without
Postgres there is no lock, and `postgres` says which), and `handleSubmit`, `OrderCreated`,
`OrderFailed`, `scheduleAbandon`. A form whose answer does not come reports a failure while its request goes
on. **Telemetry** is `enqueue`, `handleLoginFailure` (which replaces an event in the queue),
`flushQueue`, `postEvents` and `PostFails`, `ingest_events`, `bulk_insert_events` and the cached
`get_report`. **Suppliers** splits each change into the handler's own reads and TinyDB's
`ReadTable` and `WriteTable`. **Backoffice** joins them: the forms' outcomes are telemetry events.

### Knowledge

**Knowledge** has the chunker (`chunk_markdown`: paragraphs, else sentences, else about three
groups) and a build, `BuildChunks`, `delete_collection`, `create_collection`, `upsert`, by indexers
that may die or overlap, while askers go through `retrieve` and `bounded_chat_completion`.
**Pipelines** puts `Drafting`, `Knowledge` and `WeeklyKpis` into one state machine for checking;
a behaviour is about one of the three, as they share nothing but `Generation`.

## Runs

TLC explores every run completely. Symmetry is used in safety runs only, over things the model
treats alike: departments in the decisions, requests, threads, indexers.

| Run | Instance | Distinct states | Shows |
| --- | --- | --- | --- |
| `WorkerCrash` | 2 departments, 2 messages per task, 2 crashes, 1 failing call | 1,674,860 | `InterruptsAreLive`, `ImplementsLifecycle`, `ApprovalFrozen` |
| `WorkerRedelivery` | 2 departments, 2 messages per task, 2 crashes, fair | 317,987 | `DraftedOrFlagged`, `AnalyzingEnds`, `DraftingEnds`, `ApprovalsOpen` |
| `DecisionsOverlap` | 2 requests at once, 4 decisions | 1,260,644 | `DoneIsComplete`, `ImplementsLifecycle` |
| `DecisionsDeaths` | 1 request at a time, 8 decisions, 3 dying requests | 180,966 | `InterruptNamesDraft`, `UndecidedCanDecide`, `ReworkIsBounded`, `CeoGatesDocument`, `CeoLinePrinted`, `PublishedAsApproved`, `DoneDocumentFrozen` |
| `DecisionsFinish` | 1 request at a time, 6 decisions, none dies, fair | 7,492 | `FinalizationHappens` |
| `Jobs` | 2 nightly processes and 1 task with 1 retry, 2 arrivals of events, 1 outage, fair to the task | 649,256 | `CompletedMeansDone`, `CsvIsWhole`, `OneRunningUnlessRaced`, `CompletedIsFinal`, `ReportKeepsUp`, `TasksSettle` |
| `AuthSessions` | 2 threads, 2 emails, 2 passwords, 3 accounts, 4 pieces of work of each kind | 2,122,047 | `RotatesOnce`, `ResetEndsSessions`, `LinkIsSpent`, `AccountsDistinct` |
| `Assistant` | 2 turns, 3 questions, 1 TTL, 1 fault; or 1 turn, another client, 2 tokens, 1 fault; or that client and staff at the desk, 2 incidents, 3 changes | 1,630,411 | `ProposalsAccounted`, `MemoryIsApproved`, `MemoryKeepsUp`, `TokenDiscipline`, `TicketAnswersTrue`, `ClosedStaysClosed` |
| `Backoffice` | a form and 2 threads with 3 orders; or 3 events in 2 batches; or 2 threads with 5 changes of suppliers | 1,209,740 | `StockNeverNegative`, `OrdersReported`, `SuppliersStand` |
| `Pipelines` | a ticket of any documents and answers; or 2 indexers, 3 builds, 1 edit, 1 question; or 3 events of 9 kinds, 2 flows | 908,716 | `DraftsJudged`, `IndexHoldsCorpus`, `GuestsGetPublic`, `KpisAsDefined` |

Two more runs end in a counterexample; they are in the next section.

**What the properties are about.**

- *RFP worker.* `InterruptsAreLive` and `InterruptNamesDraft` relate two stores: the id in
  Postgres is the one the SQLite checkpoint waits at, and it stands for the draft in the row.
  `ApprovalFrozen` is about repeated and redelivered tasks: once an approval has started no task
  touches what is being decided. `DraftedOrFlagged`, `AnalyzingEnds`, `DraftingEnds`,
  `ApprovalsOpen` are the stages of the flow; three of them say "unless the worker died", because
  the code promises no more (below).
- *RFP decisions.* `UndecidedCanDecide`, `ReworkIsBounded`, `FinalizationHappens`: no section is
  stranded by half-done requests, none gets more drafts than its budget, and the last decision
  finalizes. `DoneIsComplete`, `CeoGatesDocument`, `CeoLinePrinted`, `PublishedAsApproved` and
  `DoneDocumentFrozen` are about the document.
- *RFP pipelines.* `DraftsJudged` joins four: a ticket is given up only for a cause, each needed
  department has one section, a draft that fails an evaluator carries the flag, and the arbitration
  rests on figures that were found.
- *Jobs.* `CompletedMeansDone` and `CompletedIsFinal` hold whatever overlaps, dies or is taken over.
  `CsvIsWhole`, `OneRunningUnlessRaced` and `ReportKeepsUp` say exactly what must have gone before
  where they fail: a takeover of a lock whose holder still works, or two runs past the guard together.
  `TasksSettle`: a task ends in success, refusal or a dead letter, or in a failed attempt to write one.
- *Weekly report.* `KpisAsDefined` compares the loops of the code with definitions by sets: what
  counts, in which week, at which price, against which baseline, in whatever order events come.
- *Accounts.* `RotatesOnce`, `ResetEndsSessions`, `LinkIsSpent` and `AccountsDistinct` state what
  holds between requests that do not overlap, next to those that do.
- *Agent.* `ProposalsAccounted`: a proposal is pending or was closed exactly once.
  `MemoryIsApproved` relates an entry to the reply that approved it. `MemoryKeepsUp`: newer
  approvals are not overwritten, except by a consolidation that was overtaken.
  `TokenDiscipline` is about answers that come late; `TicketAnswersTrue` relates the answer of a
  turn to the incidents as they were during its lookup, through cache, server and desk, and
  `ClosedStaysClosed` is about a change of status that was checked against one that moved.
- *Back office.* `StockNeverNegative`; `OrdersReported` joins forms, queue, service and report
  (nothing counted that was not stored, nothing lost that is not accounted for); `SuppliersStand`
  is about changes that were checked against a row that moved.
- *Knowledge.* `IndexHoldsCorpus`: a collection is empty or holds each sentence of the corpus once,
  in order, also when an indexer died. `GuestsGetPublic`: a guest's answer rests on public chunks
  and on the guests' own providers.

Every property has a mutant in `PROJECT.json`: a variant of one definition, written next to it in
the module (`\* Mutant: ...`), under which the run's property fails. The type invariants (`TypeOK`,
`JobsTypeOK`, and `Types` of the proof modules) are proved, and not run a second time.

**Why the bounds are enough.**

- *RFP.* Departments never share a row or thread: what relates two of them is a loop that treats
  one after the other, "all of them are terminal", and "the first row with an arbitration", and two
  departments show each. The code has four departments and a limit of 3; the runs use a limit of
  1, which has a section before the limit, at it and past it. Two messages of each task are the
  smallest number with a repeated post, two crashes allow a crash in the run that recovers from a
  crash, and one failing call falls at every call. Four decisions under overlap are the least that
  approve both sections, ask the CEO, and leave one that overlaps; eight serial decisions and
  three deaths let each of two sections be reworked, die between its two stores and be decided
  again before the CEO decides.
- *Jobs.* Two nightly processes and a task are three runs of one week, which is enough for a run
  that passed the guard together with one and is seen by another; one retry and one outage put a
  failure at every step and a second one behind it.
- *Accounts.* A hazard here is two requests over one row; a third would meet the same table. Two
  emails, three accounts and four tokens and links allow a rotation of a rotation while a reset of
  the account is under way. `FirstTables` starts with accounts in the table.
- *Agent.* The ledger holds one session and one proposal; two turns can meet over it, and the third
  question closes or replaces what the second left. A lookup needs one turn, a client that changes
  the ticket and a token that dies under both.
- *Back office, pipelines.* Three orders are one in and two out, of which one must be refused. A
  queue of two is full with the second event. Five changes of suppliers create, overlap and delete.
  Three events are two prices before the one they are the baseline of.

The properties that are proved need none of these bounds.

**Fairness.** `RfpWorker!FairSpec` has weak fairness of the worker's steps: compose restarts the
process, and the solo loop takes messages as long as there are any. `RfpDecisions!FairSpec` has
weak fairness of the steps of each accepted request, which is a thread of the API process and has
nobody to wait for. `JobsFairness` has weak fairness of the steps of each Celery task that was
taken up: the worker is restarted, and `task_acks_late` delivers the task again. Users, cron,
failures, crashes and deaths owe nothing: no run assumes that somebody decides or asks. The other
specifications state safety only: their requests end by themselves or by a timeout.

**Stopping.** The runs allow a state without a successor: a ticket that is done, or the end of the
work a run is bounded to. Each `.cfg` says why.

## Disagreements between the code and its documents

Each is a run whose one property states what the repository says, and that TLC finds violated by
what the code does.

| Run | What happens | What the repository says |
| --- | --- | --- |
| `DecisionsUnfinished` | A request dies after the last outcome is stored and before it finalizes: no further decision is accepted, nothing finalizes the ticket. | "When all active depts are terminal ... synthesizes FinalDocument -> done" (`services/rfp/README.md:57`) |
| `JobsTakenTwice` (3 nightly processes) | A process has read a stale lock, another one takes it over, and the first then fails the fresh lock: `_mark_stale_failed` asks only that the status be `processing`. Both export and run the week. | "Atomically claim a nightly job run" (`data/pipelines/job_runner.py:197`) |

Seen while modelling, without a run of its own.

RFP:

- A crash after the sections are inserted: each redelivery fails on the unique constraint, and the
  ticket stays at `analyzing`, against "never leave ticket at analyzing" (`tasks.py:69`). A crash
  after the flip to `waiting_for_approval`: the redelivered task is refused, and some sections never
  get an interrupt (`tasks.py:406`). `AnalyzingEnds` and `ApprovalsOpen` therefore exempt crashes.
- A failing statement in `process_rfp_response`: the crash path uses the same session, fails too and
  swallows it; the ticket stays at `drafting`, against "never stay drafting" (`tasks.py:129`).
  `WorkerRedelivery` has crashes and no failing call. With a second message of the task in the queue the
  ticket does not stay there: the second task is refused, and its crash path advances a ticket
  whose sections were neither drafted nor flagged.
- A `process_rfp_response` redelivered after a crash in drafting is refused before it has read the
  departments; its crash path flags nothing and still advances the ticket, so sections reach
  approval that were neither drafted nor flagged (`DraftedOrFlagged` exempts crashes).
- Two requests find every section terminal and both synthesize: the slower one saves its document
  again after the ticket is done, against "the completed document cannot be changed"
  (`services/rfp/README.md:147`). Two requests start the CEO thread: the rows keep an id that is not
  the pending one, and the CEO's approval of it is recorded as a rejection.
- With two requests at once, `UndecidedCanDecide`, `InterruptNamesDraft`, `ReworkIsBounded`,
  `CeoLinePrinted` and `PublishedAsApproved` fail as well: two changes of one
  section each load the checkpoint before the other wrote it, a change writes its draft over one
  that was just approved, and a late write of the evaluation restores the arbitration from before
  the CEO's decision. They are checked and proved for requests one after the other, dying ones included. What
  survives any overlap is `DoneIsComplete` and the lifecycle, and these are proved.
- When the CEO's approval has reached only some of the rows and the request dies, a later decision
  can start the CEO thread over: the CEO is asked again about what was approved. This needs three
  departments and five deaths. `CeoGatesDocument` is about the rows and the moment, not the thread.
- A section rejected until its budget ran out also has `approved_at` set, and is printed with the
  stamp "approved by" (`approval_orchestration.py:293`, `approval_driver.py:523-529`).
- A decision carries no version of the draft it was made about (`approval_driver.py:441`): one that
  arrives after a regeneration approves the new draft.
- `forced_request_changes` is shown to the approver and not enforced: a forced section can be
  approved as it was (`approval_graph.py:124`). The arbitration is computed once, before the first
  rework, and not again for regenerated drafts.
- A ticket whose task could not be enqueued stays at `analyzing`, and uploading the file again
  finds the ticket and does not enqueue (`routers/rfp.py:55-94`).
- The note that a department worker leaves in place of its aspects when its call fails is taken for
  a key aspect later, and a draft that repeats it satisfies the evaluator.

Other services:

- Two Celery runs, or one and the nightly run, can both be `Running` for a week: the guard is a
  `SELECT` and an `INSERT`. The older extract can then be loaded last (`ReportKeepsUp` names this case).
- An insert whose answer is lost makes the retry of the task meet its own `Running` row; the run is
  refused and the row stays `Running` until the next finish.
- `pendingLoginFailureIndex` is not reset when the queue is flushed or its 60 s window passes,
  against `docs/telemetry/telemetry-plan.md:415`: the next aggregated failure replaces whatever
  stands at that place in the new queue (`EventsAccounted` names this case).
- A form whose answer is lost tracks "failed" for an order that was stored, and sending it again
  stores a second one. The abandonment timer fires also while a request is on its way.
- The supplier directory assumes one writer (`services/supplier-directory/supplier_directory/repository.py:15-20`), and
  its handlers run in a thread pool; `SuppliersStand` says what is left when two overlap.
- `consolidate_location` may write back a row that was written over meanwhile (`MemoryKeepsUp`).
- Two indexers of one profile can leave the chunks of both in its collection (`IndexHoldsCorpus`).
- A price older than four weeks counts as missing for a waste, by the window that is extracted.

## Proofs

TLAPS proves these for every value of the constants: any set of departments, requests, processes,
tasks, accounts, handlers, turns, callers or forms, any limit, and any number of messages, crashes,
failures, decisions, deaths, retries, events, links, orders, suppliers, incidents, documents, sources and
builds. The assumptions
are those the modules name, which the passing runs evaluate: bounds are natural numbers, marks are
not values, texts are strings (`StoreAssumption`, `WorkerAssumption`, `DecisionsAssumption`,
`JobsAssumption`, `SessionsAssumption`, `IncidentDeskAssumption`, `InventoryAssumption`,
`TelemetryAssumption`, `SuppliersAssumption`, `BackofficeAssumption`, `SupportAgentAssumption`,
`CompanyToolsAssumption`, `AssistantAssumption`, `DraftingAssumption`, `KnowledgeAssumption`,
`KpisAssumption`), and a table of accounts to start from is one that
requests wrote one at a time (`FirstTablesAssumption`: finite, ids ascending, emails distinct).

| Theorem | States |
| --- | --- |
| `RfpWorkerProofs!TypeCorrect` | `[]TypeOK` |
| `RfpWorkerProofs!StoresAgree` | `[]InterruptsAreLive` |
| `RfpWorkerProofs!ApprovalStaysFrozen` | `ApprovalFrozen` |
| `RfpWorkerProofs!OfferedWasDrafted` | `[]DraftedOrFlagged`, if no statement of a response task fails |
| `RfpWorkerProofs!WorkerImplementsLifecycle` | `ImplementsLifecycle` |
| `RfpDecisionsProofs!TypeCorrect` | `[]TypeOK` |
| `RfpDecisionsProofs!DoneStaysComplete` | `[]DoneIsComplete` |
| `RfpDecisionsProofs!DecisionsImplementLifecycle` | `ImplementsLifecycle` |
| `RfpDecisionsProofs!DocumentFollowsLifecycle` | of `TicketLifecycle`: `[](PublishedOnlyInApproval /\ DoneIsPublished)` |
| `RfpDecisionsProofs!SerialInvariance` | `[]SInv`, one request at a time |
| `RfpDecisionsProofs!InterruptNamesDraftSerially` | `[]InterruptNamesDraft`, one request at a time |
| `RfpDecisionsProofs!UndecidedCanDecideSerially` | `[]UndecidedCanDecide`, one request at a time |
| `RfpDecisionsProofs!ReworkIsBoundedSerially` | `[]ReworkIsBounded`, one request at a time |
| `RfpDecisionsProofs!CeoLinePrintedSerially` | `[]CeoLinePrinted`, one request at a time |
| `RfpDecisionsProofs!PublishedAsApprovedSerially` | `[]PublishedAsApproved`, one request at a time |
| `RfpDecisionsProofs!CeoGatesDocumentSerially` | `CeoGatesDocument`, one request at a time |
| `RfpDecisionsProofs!DoneDocumentFrozenSerially` | `DoneDocumentFrozen`, one request at a time |
| `JobsProofs!TypeCorrect` | `[]JobsTypeOK` |
| `JobsProofs!CompletedIsBacked` | `[]CompletedMeansDone` |
| `JobsProofs!FileIsWhole` | `[]CsvIsWhole` |
| `JobsProofs!RunningRowsRaced` | `[]OneRunningUnlessRaced` |
| `JobsProofs!CompletedStaysFinal` | `CompletedIsFinal` |
| `JobsProofs!ReportNeverFallsBack` | `ReportKeepsUp` |
| `SessionsProofs!ParentIsDead` | `[]RotationRevokesParent` |
| `SessionsProofs!RotatedOnce` | `[]RotatesOnce` |
| `SessionsProofs!ResetIsFinal` | `[]ResetEndsSessions` |
| `SessionsProofs!LinkSpentOnce` | `[]LinkIsSpent` |
| `SessionsProofs!AccountsApart` | `[]AccountsDistinct` |
| `BackofficeProofs!StockIsThere` | `[]StockNeverNegative` |
| `BackofficeProofs!ReportIsTrue` | `[]OrdersReported` |
| `BackofficeProofs!SuppliersKeepRows` | `SuppliersStand` |
| `AssistantProofs!AssistantInvariant` | `[]AssistantInv` |
| `AssistantProofs!EveryProposalAccounted` | `[]ProposalsAccounted` |
| `AssistantProofs!OnlyApprovedRemembered` | `[]MemoryIsApproved` |
| `AssistantProofs!MemoryStays` | `MemoryKeepsUp` |
| `AssistantProofs!NoGoodTokenDropped` | `TokenDiscipline` |
| `AssistantProofs!ToldWhatWasTrue` | `TicketAnswersTrue` |
| `AssistantProofs!IncidentsStayClosed` | `ClosedStaysClosed` |
| `PipelinesProofs!PipelinesInvariant` | `[]PipelinesInv` |
| `PipelinesProofs!DraftsAreJudged` | `[]DraftsJudged` |
| `PipelinesProofs!IndexesHoldTheirCorpus` | `[]IndexHoldsCorpus` |
| `PipelinesProofs!GuestsGetWhatIsPublic` | `[]GuestsGetPublic` |
| `PipelinesProofs!KpisAreAsDefined` | `[]KpisAsDefined` |

`RowsProofs` holds lemmas that several of these rest on.

**The lifecycle.** `DocumentFollowsLifecycle` says what every implementation of the abstract
specification inherits: a document exists only from `waiting_for_approval` on, and `done` has one.

**The worker.** `InterruptsAreLive` is not inductive by itself: nothing in it says why a task that
writes drafts or starts threads cannot meet a row with an interrupt. `IInv` adds, to `TypeOK`,
`StatusOfTask` (a task that drafts or flags sections runs under `drafting`, one that stamps them
under `under_evaluation`, one that starts threads under `waiting_for_approval`; inductive because
the worker runs one task at a time and a refused task knows no department), `SectionsThere` (the
departments a loop of the approval visits have rows) and `StartingInOrder` (while threads are
started, those left to do have no interrupt, and the last one started holds the draft of its
row). So the only writers of drafts run before any interrupt is stored, wherever tasks crash and
are delivered again. `ApprovalFrozen` follows from `IInv` by cases over the actions.

`DraftedOrFlagged` needs `DInv` on top, which says, as long as the process has not died, that the
intake of a ticket runs once, that the departments of the metadata have rows, and that a loop of
the response has drafted or flagged what it has behind it. Looking for this invariant showed that
the property needs a condition that the run meets and the code does not: after a failed statement
the crash path of `process_rfp_response` writes nothing, the ticket stays at `drafting`, and a
second message of the same task, if one is in the queue, is refused and advances it as it is.
`OfferedWasDrafted` therefore assumes `[][~ResponseStatementFails]_vars`; every other failure and
every repeated message is allowed.

**The decisions.** `DoneIsComplete` is not inductive: a document is saved from a snapshot that may
be old. The argument is that a section that came to an end never goes back to `pending`, and that
every request on its way to a document or to the CEO has already found all sections non-pending.
`IInv` says that (`RequestHeard`: a request at a CEO step, and every snapshot that carries a CEO
interrupt, implies `AllHeard`; a request at `save_document` has a snapshot in which every needed
section is heard; one at `complete` has published), and, for the rows, that an interrupt of the
CEO in any row implies `AllHeard` (`RowsHeard`). Snapshots matter because the evaluation is
written back from them: without the clause on snapshots a stale write could bring an interrupt
back. For the types, a request that goes by a snapshot has loaded it (`RequestOK`), and a thread
that has `regen` next has rework budget left (`ThreadsOK`).

**One request after the other.** Seven properties of the decisions fail where requests overlap, and
the code does not keep them from overlapping; they are proved for behaviours in which no two
requests are under way at once (`Spec /\ []Alone`), a death at every step included. It is a condition
on the behaviour, so `Requests` is any set here too. `SInv` says how the two stores fit after any death.
`RowFits`: an interrupt id in a row was issued by its thread; if it is the one the thread pauses at,
the thread shows the draft of the row; a section that is not pending has a thread that ended. So a
request that died between checkpoint and commit leaves a row that names an older interrupt, and the next
request on it meets the mismatch or the end of the thread: it copies the thread's draft and
interrupt, or its outcome, into the row and asks for no other draft. `ThreadFits`:
a thread has issued one interrupt more than it was reworked. `DocFits` and the clause that all rows
agree on whether the CEO is asked give what is printed. `RequestFits`: what a request has loaded is what
is there, because nobody else writes, and a request at `save_document` holds the CEO's approval when
one is required. `CeoGatesDocument` and `DoneDocumentFrozen` are steps out of `SInv` (`GateStep`).

**The jobs.** None of the properties is inductive: they speak of rows and files, and what keeps
them true is where the processes stand. `IInv` says whose each thing is. `RowsOwned`: a process
between the insert and the end of its run owns a `Running` row, no two the same one. `Guarded`: a
process that passed the guard and has not inserted has looked past every row that is `Running` now,
and of two `Running` rows the later one was looked for before the earlier one stood there; this is
`OneRunningUnlessRaced` with its reason. `KeptUp`: what a flow holds extracted is not older than the
report, unless two runs raced. `JobBacked`: a process past its export has the file, and one about to
complete the job has a completed run, so that whoever marks the row may. `OneHolder`: while no lock
was taken from a process at work, at most one process works, and the row is `processing` for it; so
the temporary file has one writer.

**The accounts.** The argument rests on the marks: a write marks every other request in flight as
late, hence what a request that is *not* late has read is still so. `Types` gives the shape of the
tables and of each request at each step. `Chains` has four parts: `Owns` (what a rotation that is not
late read is still live, and what it is about to issue has no other successor), `Parents` (a token
with a successor is dead), `Once` (`RotatesOnce`), and `Ended` (`ResetEndsSessions`, for tokens and for
those about to be issued). `Spent` counts for each link who stores it, spends it and where it is
linked: a link that stands in a row has not been used, and only one that was read there without
overlap counts as used.

`AccountsDistinct` is not inductive either. A lookup returns the first row with an email, and the
write goes to every row with the id, so that with accounts that already share an id or an email a
request that was overtaken by nobody could seem to make two good rows collide. `Apart` says why it does not:
a row that was not written late has a greater id than all rows before it (`LaterIds`), and of two rows
with one email and different ids either the later row was written late, or every row with the id of the
earlier one was (`EmailsApart`). The last clause is what a change of email by a request in time
needs: the first row it found has the same id, so what shares its email is covered.

**The back office.** The pages share nothing but what the forms track, and a step of a page is a step of
each part by itself or leaves it alone; so each part has its own invariant. *Stock* (`StockInv`): under
the lock what an order takes is there (`LockedIsThere`), and two requests never hold the lock of one
location (`OneLocked`). *Telemetry* (`EventInv`): no event stands twice in the queue, in a batch or among the
stored rows (`Fits`), and each is in one of them, was given up or was replaced (`EventsAccounted`); the
index of the pending failure is good until it was moved (`PendingFits`). *Both* (`Balanced`): an order out is still to be heard of by a form, or at most one event
reports it, counted by cardinalities; this is where `OrdersReported` comes from. *Suppliers*
(`SupplierInv`): until two changes overlap an id stands in one row (`IdsApart`) and a change that is not
late has read the table as it is (`ReadAsIs`).

**The assistant.** A step is a step of the agent, of the tokens and calls, of the desk, or of the lookup
that joins them, and each has its invariant.
*Proposals* (`ClosedOnce`): a proposal over which nobody met is held by one turn at most, only while
it is pending, and the log has closed it once or not yet, depending on whether it is pending or at the node
that clears it. *Memory* (`MemoryGood`): every entry, and every row in the hands of a turn, was approved in
the log, or the turn that wrote it is on its way to say so (`Justified`, `Vouches`); `KeptUp`: a label has one
entry, and a row that is being tidied and not late is as new as its entry. *Tokens* (`TokenInv`): a token
that a call was refused with is dead, and the call does not go on with it, neither by what it holds nor by what
the cache has for it. *Lookups* (`LookupInv`): a turn that asked waits at its node, and its call is under way
for the ticket it asked for, or has ended with something that was seen. *Incidents* (`DeskInv`): a change
that no write has overtaken was checked against the status its row still has (`CheckedOn`), so a closed
incident changes only by a change that was overtaken, whoever asked for it.

**The pipelines.** A behaviour is about one of the topics, and a step of one leaves the others alone; so
`PipelinesInv` is the conjunction of their invariants.
*Drafts* (`DraftingInv`): a document gets to the extraction only when the triage lets it (`TriageInv`); the
departments that are needed are known ones, each has at most one section, and none is without one when the
intake is complete (`SectionsInv`; `SectionsCounted` makes cardinalities of it); a worker that is done was
judged on the draft it has (`WorkersInv`). The arbitration is one step, in which a department is sent back
only by a rule that found a figure (`ForcedByFigure`).
*Guests* (`PointsInv`, `GuestsInv`): wherever the points of a profile are, in an indexer or a collection, they
come from its corpus, and those of guests from sources for guests; so what a question finds is for guests
whatever happens between its calls.
*Indexes* (`IndexInv`): what an indexer holds is all that one build made of one source of its profile
(`OneBuild`), and of the present source if it is of the present version. A collection is such a build too, or
empty, until two indexers overlap in it: an indexer that is about to fill it has found it cleared (`Cleared`),
and no two write into one unless that was marked (`InOneHand`). Versions only grow, so a build stays what it
was (`StaysOneBuild`).
*Chunks.* What a build makes of a text is the part about data. `RunningJoin` gives the sequence of the partial
joins behind `FlattenSeq`, `FlattenPlaces` says which place of which part each element of the joined sequence
comes from, and that the order is kept; `PiecesApart`, `ExpandedApart` and `GroupedApart` follow for the three
ways to cut a text (by paragraphs, by sentences, and in about three groups, where the division needs
`Stretches`): no chunk is empty, no sentence is in two, and all sentences of the paragraphs are there
(`ChunksHoldText`). No bound on the length of the text is left.
*Figures* (`KpisInv`): the ids of a run are an ordered query of the events (`Listed`), with nothing of the period
left out (`Complete`), and its row, every row of the cache and the row of the table are what the events behind
them are defined to come to (`Good`). `TransformAsDefined` has the computation. A sum over the rows is the sum
over the events they come from, in whatever order (`SumReordered`, by the number of rows added). The last supply
before the loop leaves off is one of the latest before the waste, since the rows are in the order of their times
(`WasteAsDefined`). Every sequence of prices can be sorted (`Sorted`), and the element in a place of a sorted
sequence is the n-th lowest (`Nth`), so twice the median is that of the definition. A figure reads only the events behind it, and
stored events do not change (`GoodKept`): hence a cached row is as good as a computed one, and late events
spoil neither; they only make the key of the next run another one.

**Rows.** `SumOf` and `Where` are recursive functions; `RowsProofs` proves what they return for every sequence,
each time by the least number at which it would fail. So induction over data can be done where the step is a
first-order statement; lemmas with an operator as a parameter, and `SelectSeq`, remain out of reach, and the
modules use `Where(rows, set)` in its place.

There is one lemma per action, or per group of actions that move alike; the lemmas on frames
(`RequestsKept`, `StoreSame`, `CheckpointsWritten`, `RowSaved`, `Moved`, `Read`, `Written`) say what an
action that writes only part of the state keeps. Each invariant was checked with TLC before it was
proved. A proof that failed showed that definitions written as `CASE` with guards that overlap have no
value in TLA+, whatever TLC picks; these are `IF` chains in the order of the code now.

**Only model-checked**: liveness (fairness and `ENABLED` are outside what the provers do), that is
`AnalyzingEnds`, `DraftingEnds`, `ApprovalsOpen`, `FinalizationHappens` and `TasksSettle`. Every invariant and every action
property that a passing run checks is a theorem. TLC also checks, on one request at a time, what is proved
under that condition.

## What is not modelled

- *Sales forecast*: training and evaluation of statistical models over data frames, numeric code.
- *Incident analysis*: counts over one uploaded file, and a store of results in one process.
- *Token verification and client addresses*: stateless checks of one request. Signing and expiry of
  access tokens, rate limits, ownership checks and mail are left out with them.
- *Read-only routes* (status of a ticket, reports, listings) and the usage counters of the public
  knowledge route.
- *Texts*: prompts, regular expressions, parsing of model output and its self-correction appear as
  choices of their outcomes; a document or a question is the facts the code asks of it.
- *Other front ends, static sites, scripts*: views and one-off scripts without protocol state.
- *Two tickets, two dates, two ingredients, two sessions*: no state is shared between them.
- *A worker crash that overlaps a decision request*: the worker half ends where the decisions half
  begins, except for `process_rfp_approval` between its flip and its last interrupt, when the first
  sections can be decided already.
- *Several workers*: the deployment has one with a solo pool.

## Plan

Done: the two halves of the RFP service with their abstract specification and proofs, serial decisions
included; what their graphs compute; jobs and weekly report with proofs; accounts with proofs; the agent
with its tools and the incident desk, with proofs; the back office, with proofs; the drafts, the indexes,
the questions of guests and the figures of the report, with proofs.

Left, in this order:

1. A refinement of `Sessions` to an abstract register of sessions without overlap.
2. The composition of worker and decisions on one store, with decisions while threads are still
   started.
