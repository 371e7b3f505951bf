----------------------------- MODULE WeeklyKpis -----------------------------
(***************************************************************************)
(* The weekly location report (data/pipelines/pipeline.py, transform.py):  *)
(* what the telemetry of a location comes to in the week that starts at    *)
(* day 0.  Events arrive in any order, also while the flow runs and after  *)
(* it ran, and with fields missing; the transform is cached.  Each figure  *)
(* is computed by the loops of the code, over the records in the order of  *)
(* the query, and compared with its definition over the events.            *)
(* Jobs has the runs of the flow, their failures and their overlaps.       *)
(*                                                                         *)
(* One location and one ingredient; times are days.                        *)
(***************************************************************************)
EXTENDS Rows, SequencesExt, FiniteSets, FiniteSetsExt

CONSTANTS
    Records,    \* the telemetry events that may arrive
    MaxRecords,
    MaxFlows    \* runs of the flow in one behaviour

WEEK == 7
BASELINE == 28   \* PRICE_ALERT_BASELINE_WEEKS
Missing == -1

\* What an event names: its location and ingredient, or only the location.
Record == [event_type : {"supply", "waste", "consumption", "stockout"}, ts : Int,
           names : {"both", "location", "neither"}, quantity : Nat \cup {Missing},
           unit_cost : Nat \cup {Missing}]

ASSUME KpisAssumption ==
    Records \subseteq Record /\ MaxRecords \in Nat /\ MaxFlows \in Nat

VARIABLES
    events,  \* telemetry_events; an event's id is its index
    flow,    \* [pc, ids, row]: ids in the order the query returned them
    cache,   \* transform_kpis: [key, row]
    kpis,    \* the row of weekly_location_performance, and the events behind it
    flows

kpis_vars == <<events, flow, cache, kpis, flows>>

NoRow == [purchase |-> 0, waste |-> 0, missing |-> 0, stockouts |-> 0, alerts |-> 0]
NoFlow == [pc |-> "idle", ids |-> <<>>, row |-> NoRow]
NoKpis == [loaded |-> FALSE, row |-> NoRow, of |-> {}]

\* Mutant: the first instant of the next week is in this one too.
InWeekClosed(ts, from, to) == from <= ts /\ ts <= to

in_window(ts, from, to) == from <= ts /\ ts < to

(***************************************************************************)
(* The loops of transform.py.  A loop goes on (continue) at the rows that  *)
(* are not in its set.                                                     *)
(***************************************************************************)
Adds(amounts, rows) == SumOf([k \in DOMAIN amounts |-> IF k \in rows THEN amounts[k] ELSE 0])
Counts(all, rows) == SumOf([k \in DOMAIN all |-> IF k \in rows THEN 1 ELSE 0])

InWeek(r) == in_window(r.ts, 0, WEEK)
Located(r) == r.names # "neither"
Named(r) == r.names = "both"

compute_purchase_costs(rs) ==
    LET orders == {k \in DOMAIN rs : /\ rs[k].event_type = "supply" /\ InWeek(rs[k])
                                     /\ Located(rs[k]) /\ rs[k].quantity # Missing}
        priced == {k \in orders : rs[k].unit_cost # Missing}
    IN  [total |-> Adds([k \in DOMAIN rs |-> rs[k].quantity * rs[k].unit_cost], priced),
         missing |-> Counts(rs, orders \ priced)]

\* In the order of their times, as the query returns them.
Supplies(rs) ==
    {k \in DOMAIN rs : rs[k].event_type = "supply" /\ Named(rs[k]) /\ rs[k].unit_cost # Missing}

\* The loop leaves off at the first supply that is later than the waste.
latest_cost(rs, ts) ==
    LET visited == {k \in Supplies(rs) : \A j \in Supplies(rs) : j <= k => rs[j].ts <= ts}
    IN  IF visited = {} THEN Missing ELSE rs[Max(visited)].unit_cost

compute_waste_costs(rs) ==
    LET exits == {k \in DOMAIN rs : /\ rs[k].event_type = "waste" /\ InWeek(rs[k])
                                    /\ Named(rs[k]) /\ rs[k].quantity # Missing}
        cost == [k \in DOMAIN rs |-> latest_cost(rs, rs[k].ts)]
        valued == {k \in exits : cost[k] # Missing}
    IN  [total |-> Adds([k \in DOMAIN rs |-> rs[k].quantity * cost[k]], valued),
         missing |-> Counts(rs, exits \ valued)]

compute_stockout_counts(rs) ==
    Counts(rs, {k \in DOMAIN rs : rs[k].event_type = "stockout" /\ Located(rs[k]) /\ InWeek(rs[k])})

\* Twice the median, so that it is a whole number: the middle of the sorted
\* costs, or between the two in the middle.
Median_doubled(costs) ==
    LET n == Len(costs)
        order == CHOOSE p \in Bijection(1..n, 1..n) :
                    \A j, k \in 1..n : j < k => costs[p[j]] <= costs[p[k]]
    IN  costs[order[(n + 1) \div 2]] + costs[order[n \div 2 + 1]]

\* An alert needs two earlier prices, and a baseline that is not zero; the
\* threshold is a quarter of it.
compute_price_alert_counts(rs) ==
    LET history == Where([k \in DOMAIN rs |-> k],
                         {k \in Supplies(rs) : in_window(rs[k].ts, -BASELINE, 0)})
        prior == [k \in DOMAIN history |-> rs[history[k]].unit_cost]
        base == IF Len(prior) < 2 THEN 0 ELSE Median_doubled(prior)
        away(c) == IF 2 * c > base THEN 2 * c - base ELSE base - 2 * c
    IN  IF base = 0 THEN 0
        ELSE Counts(rs, {k \in Supplies(rs) : /\ InWeek(rs[k])
                                              /\ 4 * away(rs[k].unit_cost) > base})

transform_week(rs) ==
    LET purchase == compute_purchase_costs(rs)
        waste == compute_waste_costs(rs)
    IN  [purchase |-> purchase.total, waste |-> waste.total,
         missing |-> purchase.missing + waste.missing,
         stockouts |-> compute_stockout_counts(rs),
         alerts |-> compute_price_alert_counts(rs)]

(***************************************************************************)
(* The flow.                                                               *)
(***************************************************************************)
transform_cache_key_fn(ids) == ToSet(ids)

\* The events of the week, and the supplies of the four weeks before.
Fetched ==
    {k \in DOMAIN events :
        \/ in_window(events[k].ts, 0, WEEK)
        \/ events[k].event_type = "supply" /\ in_window(events[k].ts, -BASELINE, WEEK)}

\* Events of the same time come in any order.
extract_week ==
    /\ flow.pc = "idle" /\ flows < MaxFlows
    /\ flows' = flows + 1
    /\ \E ids \in SetToSeqs(Fetched) :
          /\ \A j, k \in DOMAIN ids : j < k => events[ids[j]].ts <= events[ids[k]].ts
          /\ flow' = [pc |-> "transform", ids |-> ids, row |-> NoRow]
    /\ UNCHANGED <<events, cache, kpis>>

transform_kpis ==
    /\ flow.pc = "transform"
    /\ LET key == transform_cache_key_fn(flow.ids)
           hit == {c \in cache : c.key = key}
           row == IF hit # {} THEN (CHOOSE c \in hit : TRUE).row
                  ELSE transform_week([k \in DOMAIN flow.ids |-> events[flow.ids[k]]]) IN
       /\ flow' = [flow EXCEPT !.pc = "load", !.row = row]
       /\ cache' = cache \cup {[key |-> key, row |-> row]}
    /\ UNCHANGED <<events, kpis, flows>>

load_weekly_performance ==
    /\ flow.pc = "load"
    /\ kpis' = [loaded |-> TRUE, row |-> flow.row, of |-> ToSet(flow.ids)]
    /\ flow' = NoFlow
    /\ UNCHANGED <<events, cache, flows>>

\* An hour after the transform.
CacheExpires == cache # {} /\ cache' = {} /\ UNCHANGED <<events, flow, kpis, flows>>

EventStored(r) ==
    /\ Len(events) < MaxRecords
    /\ events' = Append(events, r)
    /\ UNCHANGED <<flow, cache, kpis, flows>>

-----------------------------------------------------------------------------
KpisInit ==
    events = <<>> /\ flow = NoFlow /\ cache = {} /\ flows = 0 /\ kpis = NoKpis

KpisNext ==
    \/ extract_week \/ transform_kpis \/ load_weekly_performance
    \/ CacheExpires
    \/ \E r \in Records : EventStored(r)

-----------------------------------------------------------------------------
\* The events of a type that a row is about, out of those behind it.
Of(of, type) == {k \in of : /\ events[k].event_type = type /\ events[k].ts \in 0..WEEK - 1
                            /\ events[k].names # "neither"}

Counted(of, type) == {k \in Of(of, type) : events[k].quantity # Missing}

Priced(of, from, to) ==
    {k \in of : /\ events[k].event_type = "supply" /\ events[k].ts \in from..to
                /\ events[k].names = "both" /\ events[k].unit_cost # Missing}

\* The supplies that give a waste its price: the latest of four weeks.
ValuedAt(of, k) ==
    LET before == Priced(of, -BASELINE, events[k].ts)
    IN  {j \in before : \A i \in before : events[i].ts <= events[j].ts}

\* The n-th lowest of the earlier prices.
Nth(prior, n) ==
    CHOOSE c \in {prior[k] : k \in DOMAIN prior} :
        /\ Cardinality({k \in DOMAIN prior : prior[k] < c}) < n
        /\ n <= Cardinality({k \in DOMAIN prior : prior[k] <= c})

\* More than a quarter away from the median of at least two earlier prices.
OutOfLine(prior, c) ==
    LET n == Cardinality(DOMAIN prior)
        twice == Nth(prior, (n + 1) \div 2) + Nth(prior, n \div 2 + 1)
    IN  n >= 2 /\ twice > 0 /\ (8 * c > 5 * twice \/ 8 * c < 3 * twice)

Bought(of) == {k \in Counted(of, "supply") : events[k].unit_cost # Missing}
Wasted(of) == {k \in Counted(of, "waste") : events[k].names = "both"}
Valued(of) == {k \in Wasted(of) : ValuedAt(of, k) # {}}
EarlierPrices(of) == [k \in Priced(of, -BASELINE, -1) |-> events[k].unit_cost]

\* A purchase counts once, in the week of its time; a waste is valued at the
\* latest price before it, and one without a price is counted as missing and
\* never as free.
AsDefined(row, of) ==
    /\ row.purchase = SumOf([k \in DOMAIN events |->
           IF k \in Bought(of) THEN events[k].quantity * events[k].unit_cost ELSE 0])
    /\ \E at \in [Valued(of) -> of] :
          /\ \A k \in Valued(of) : at[k] \in ValuedAt(of, k)
          /\ row.waste = SumOf([k \in DOMAIN events |->
                 IF k \in Valued(of) THEN events[k].quantity * events[at[k]].unit_cost ELSE 0])
    /\ row.missing = Cardinality(Counted(of, "supply") \ Bought(of))
                        + Cardinality(Wasted(of) \ Valued(of))
    /\ row.stockouts = Cardinality(Of(of, "stockout"))
    /\ row.alerts = Cardinality({k \in Priced(of, 0, WEEK - 1) :
                                    OutOfLine(EarlierPrices(of), events[k].unit_cost)})

\* All that was stored of the period at some time.
Complete(of) ==
    \E stored \in 0..Len(events) :
        of = {k \in 1..stored : \/ events[k].ts \in 0..WEEK - 1
                                \/ /\ events[k].event_type = "supply"
                                   /\ events[k].ts \in -BASELINE..-1}

(* The row of a week is what its events are defined to come to, in         *)
(* whatever order they were stored and read, and whether or not the cache  *)
(* answered; and none of the events that were there is left out.           *)
KpisAsDefined == kpis.loaded => AsDefined(kpis.row, kpis.of) /\ Complete(kpis.of)
=============================================================================
