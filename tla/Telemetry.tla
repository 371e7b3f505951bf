----------------------------- MODULE Telemetry -----------------------------
(***************************************************************************)
(* Telemetry from one page of the back office (lib/telemetry.ts) to the    *)
(* service that stores and reports it (services/telemetry).  Events wait   *)
(* in a queue of the page and leave it in batches.  A batch is posted up   *)
(* to MAX_FLUSH_RETRIES more times and then dropped; a beacon is sent      *)
(* once.  A batch may arrive without its answer coming back, and then      *)
(* arrives again.  Repeated failures to log in within a window are one     *)
(* event, which is replaced in the queue where it was put.                 *)
(***************************************************************************)
EXTENDS Naturals, Sequences, SequencesExt, FiniteSets, Rows

CONSTANTS
    QUEUE_FLUSH_SIZE, MAX_FLUSH_RETRIES,
    MaxEvents,   \* events of one behaviour
    MaxPosts,    \* batches that are under way at once
    MaxReports   \* reports that are computed in one behaviour

ASSUME TelemetryAssumption ==
    /\ {QUEUE_FLUSH_SIZE, MAX_FLUSH_RETRIES, MaxEvents, MaxPosts, MaxReports} \subseteq Nat
    /\ QUEUE_FLUSH_SIZE > 0

VARIABLES
    eventQueue,
    pendingLoginFailureIndex,  \* or NoIndex
    loginFailureState,         \* failures in the window, 0 when there is none
    posts,    \* the batches under way: [batch, attempt, beacon]
    rows,     \* the table, in the order of the inserts
    report,   \* the cached report, and how often one was computed
    tracked,  \* events so far: they are numbered
    given,    \* events that were given up with their batch
    replaced, \* events that another one took the place of
    moved     \* the queue was emptied or the window passed since the index
              \* was set

telemetry_vars == <<eventQueue, pendingLoginFailureIndex, loginFailureState, posts, rows,
                    report, tracked, given, replaced, moved>>

NoIndex == 0
NoReport == [there |-> FALSE, created |-> 0, failed |-> 0, made |-> 0]

CATALOG_EVENT_TYPES ==
    {"supply_order_created", "supply_order_failed", "consumption_order_created",
     "consumption_order_failed", "stock_threshold_triggered", "direct_stock_edit_rejected",
     "user_login_failed", "session_expired", "order_form_abandoned", "ingredient_list_viewed",
     "user_login_succeeded"}

buildEnvelope(type) == [id |-> tracked + 1, type |-> type]

(***************************************************************************)
(* The queue.                                                              *)
(***************************************************************************)
Sent(batch, beacon) ==
    /\ Len(posts) < MaxPosts
    /\ posts' = Append(posts, [batch |-> batch, attempt |-> 0, beacon |-> beacon])
    /\ moved' = TRUE

\* An event that fills the queue sends it.
enqueue(e) ==
    LET full == Append(eventQueue, e) IN
    IF Len(full) >= QUEUE_FLUSH_SIZE
    THEN Sent(full, FALSE) /\ eventQueue' = <<>>
    ELSE eventQueue' = full /\ UNCHANGED <<posts, moved>>

track(type) ==
    /\ tracked < MaxEvents /\ tracked' = tracked + 1
    /\ enqueue(buildEnvelope(type))
    /\ IF type = "user_login_succeeded"
       THEN pendingLoginFailureIndex' = NoIndex /\ loginFailureState' = 0
       ELSE UNCHANGED <<pendingLoginFailureIndex, loginFailureState>>
    /\ UNCHANGED <<rows, report, given, replaced>>

recordLoginFailure == loginFailureState' = loginFailureState + 1

Displaced(at) ==
    replaced \cup {[id |-> eventQueue[at].id, type |-> eventQueue[at].type, stale |-> moved]}

\* The event of the window is replaced where it was put; the index is not
\* forgotten when the queue goes.
handleLoginFailure ==
    /\ tracked < MaxEvents /\ tracked' = tracked + 1
    /\ recordLoginFailure
    /\ LET at == pendingLoginFailureIndex IN
       IF at # NoIndex /\ at <= Len(eventQueue)
       THEN /\ eventQueue' = [eventQueue EXCEPT ![at] = buildEnvelope("user_login_failed")]
            /\ replaced' = Displaced(at)
            /\ UNCHANGED <<pendingLoginFailureIndex, posts, moved>>
       ELSE /\ pendingLoginFailureIndex' = Len(eventQueue) + 1
            /\ IF Len(eventQueue) + 1 >= QUEUE_FLUSH_SIZE
               THEN enqueue(buildEnvelope("user_login_failed"))
               ELSE /\ eventQueue' = Append(eventQueue, buildEnvelope("user_login_failed"))
                    /\ moved' = FALSE
                    /\ UNCHANGED posts
            /\ UNCHANGED replaced
    /\ UNCHANGED <<rows, report, given>>

\* BURST_WINDOW_MS passes: the next failure counts from one again.
WindowPasses ==
    /\ loginFailureState > 0
    /\ loginFailureState' = 0
    /\ moved' = TRUE
    /\ UNCHANGED <<eventQueue, pendingLoginFailureIndex, posts, rows, report, tracked, given,
                   replaced>>

\* The interval timer, and the page that is hidden.
flushQueue(beacon) ==
    /\ eventQueue # <<>>
    /\ Sent(eventQueue, beacon)
    /\ eventQueue' = <<>>
    /\ UNCHANGED <<pendingLoginFailureIndex, loginFailureState, rows, report, tracked, given,
                   replaced>>

(***************************************************************************)
(* The service.  An event that its envelope or the allow-list refuses is   *)
(* left out; the rest of the batch is inserted in one statement, which     *)
(* skips the event ids that are there.                                     *)
(***************************************************************************)
validate_event_properties(e) == e.type \in CATALOG_EVENT_TYPES

Ids(batch) == {batch[i].id : i \in DOMAIN batch}

\* Mutant: a batch that arrives again is inserted again.
InsertAll(batch) == rows' = rows \o batch

bulk_insert_events(batch) ==
    rows' = rows \o Where(batch, {e \in ToSet(batch) : e.id \notin Ids(rows)})

ingest_events(k) ==
    LET batch == posts[k].batch
    IN  bulk_insert_events(Where(batch, {e \in ToSet(batch) : validate_event_properties(e)}))

Done(k) == posts' = RemoveAt(posts, k)

\* One attempt of postEvents that is answered.
postEvents(k) ==
    /\ ingest_events(k)
    /\ Done(k)
    /\ UNCHANGED <<eventQueue, pendingLoginFailureIndex, loginFailureState, report, tracked,
                   given, replaced, moved>>

\* One that is not, or is answered with an error: it arrived or it did not.
PostFails(k) ==
    /\ \/ UNCHANGED rows
       \/ ingest_events(k)
    /\ IF posts[k].beacon \/ posts[k].attempt = MAX_FLUSH_RETRIES
       THEN Done(k) /\ given' = given \cup Ids(posts[k].batch)
       ELSE /\ posts' = [posts EXCEPT ![k].attempt = @ + 1]
            /\ UNCHANGED given
    /\ UNCHANGED <<eventQueue, pendingLoginFailureIndex, loginFailureState, report, tracked,
                   replaced, moved>>

(***************************************************************************)
(* The report of the default period, kept for TTL_SECONDS.                 *)
(***************************************************************************)
CountOf(type) == Cardinality({k \in DOMAIN rows : rows[k].type = type})

run_report_pipeline ==
    [there |-> TRUE, created |-> CountOf("consumption_order_created"),
     failed |-> CountOf("consumption_order_failed"), made |-> report.made + 1]

get_report ==
    /\ ~report.there /\ report.made < MaxReports
    /\ report' = run_report_pipeline
    /\ UNCHANGED <<eventQueue, pendingLoginFailureIndex, loginFailureState, posts, rows,
                   tracked, given, replaced, moved>>

ReportExpires ==
    /\ report.there
    /\ report' = [NoReport EXCEPT !.made = report.made]
    /\ UNCHANGED <<eventQueue, pendingLoginFailureIndex, loginFailureState, posts, rows,
                   tracked, given, replaced, moved>>

-----------------------------------------------------------------------------
TelemetryInit ==
    /\ eventQueue = <<>> /\ posts = <<>> /\ rows = <<>>
    /\ pendingLoginFailureIndex = NoIndex /\ loginFailureState = 0
    /\ report = NoReport
    /\ tracked = 0 /\ given = {} /\ moved = FALSE
    /\ replaced = {}

TelemetryStep ==
    \/ \E beacon \in BOOLEAN : flushQueue(beacon)
    \/ \E k \in DOMAIN posts : postEvents(k) \/ PostFails(k)
    \/ WindowPasses
    \/ get_report \/ ReportExpires

-----------------------------------------------------------------------------
(* An event is stored at most once, however often its batch arrives; and   *)
(* it is not lost: until it is stored it waits in the queue or in a batch, *)
(* unless the batch was given up or a failure to log in took its place.    *)
(* Only such an event is replaced, unless the queue it waited in has gone  *)
(* or its window has passed.                                               *)
EventsAccounted ==
    /\ \A j, k \in DOMAIN rows : rows[j].id = rows[k].id => j = k
    /\ \A e \in 1..tracked :
          \/ e \in Ids(rows) \cup Ids(eventQueue) \cup given
          \/ \E k \in DOMAIN posts : e \in Ids(posts[k].batch)
          \/ \E r \in replaced : r.id = e
    /\ \A r \in replaced : r.type = "user_login_failed" \/ r.stale
=============================================================================
