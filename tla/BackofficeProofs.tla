-------------------------- MODULE BackofficeProofs --------------------------
(***************************************************************************)
(* For every number of pages, forms, threads and suppliers: no location    *)
(* gives out more than it received, the report counts no order that was    *)
(* not stored and no event is stored twice or lost, and a supplier keeps   *)
(* its row.                                                                *)
(*                                                                         *)
(* Each part is proved by itself, over the steps it can take; a step of    *)
(* the page is such a step of one part or two, and leaves the others.      *)
(***************************************************************************)
EXTENDS Backoffice, RowsProofs, FiniteSetTheorems, TLAPS

-----------------------------------------------------------------------------
(* The orders.                                                             *)

OrdersAlone ==
    \/ InventoryStep
    \/ \E f \in Forms, s \in Threads : OrderCreated(f, s) \/ OrderFailed(f, s)
    \/ \E f \in Forms : scheduleAbandon(f)

Order == [kind : {"in", "out"}, loc : Locations \cup {"none"}, qty : Nat]
Request == [pc : {"free", "arrived", "locked", "refused", "stored"}, kind : {"in", "out"},
            loc : Locations \cup {"none"}, qty : Nat, allowed : BOOLEAN,
            from : Forms \cup {NoForm}, id : Nat]

OrderTypes ==
    /\ postgres \in BOOLEAN
    /\ orders \in Seq(Order)
    /\ thread \in [Threads -> Request]

(* Under the lock, what a request is about to take is there; no two of     *)
(* them hold the lock of one location.                                     *)
LockedIsThere ==
    \A s \in Threads :
        Doing(s, "locked") =>
            /\ thread[s].kind = "out"
            /\ postgres => current_stock(thread[s].loc) - thread[s].qty >= 0
OneLocked ==
    postgres => \A r, s \in Threads :
        Doing(r, "locked") /\ Doing(s, "locked") /\ r # s => thread[r].loc # thread[s].loc

StockInv == OrderTypes /\ LockedIsThere /\ OneLocked /\ StockNeverNegative

LEMMA TotalOfOneMore ==
  ASSUME NEW table \in Seq(Order), NEW row \in Order, NEW kind, NEW loc
  PROVE  /\ Total(table, kind, loc) \in Int
         /\ Total(Append(table, row), kind, loc) =
               Total(table, kind, loc) + (IF row.kind = kind /\ row.loc = loc THEN row.qty ELSE 0)
<1> DEFINE amount(r) == IF r.kind = kind /\ r.loc = loc THEN r.qty ELSE 0
           a == Amounts(table, kind, loc)
           longer == Append(table, row)
<1>1. amount(row) \in Int /\ \A r \in Order : amount(r) \in Int
  BY DEF Order
<1>2. /\ DOMAIN longer = 1..(Len(table) + 1)
      /\ longer[Len(table) + 1] = row
      /\ \A i \in 1..Len(table) : longer[i] = table[i]
  OBVIOUS
<1>3. /\ a = [i \in 1..Len(table) |-> amount(table[i])]
      /\ Amounts(longer, kind, loc) = [i \in 1..(Len(table) + 1) |-> amount(longer[i])]
  <2> HIDE DEF longer
  <2> QED
    BY <1>2 DEF Amounts
<1> HIDE DEF amount, a, longer
<1>4. /\ a \in Seq(Int) /\ Len(a) = Len(table) /\ Len(table) \in Nat
      /\ \A i \in 1..Len(table) : a[i] = amount(table[i])
  BY <1>1, <1>3
<1>5. Amounts(longer, kind, loc) = Append(a, amount(row))
  <2> DEFINE more == Append(a, amount(row))
  <2>1. /\ more = [i \in 1..(Len(table) + 1) |-> more[i]]
        /\ more[Len(table) + 1] = amount(row)
        /\ \A i \in 1..Len(table) : more[i] = a[i]
    <3>1. /\ more \in Seq(Int) /\ Len(more) = Len(a) + 1 /\ more[Len(a) + 1] = amount(row)
          /\ \A i \in 1..Len(a) : more[i] = a[i]
      BY <1>1, <1>4
    <3> HIDE DEF more
    <3>2. more = [i \in 1..Len(more) |-> more[i]]
      BY <3>1
    <3> QED
      BY <3>1, <3>2, <1>4
  <2> HIDE DEF more
  <2>2. \A i \in 1..(Len(table) + 1) : more[i] = amount(longer[i])
    <3> TAKE i \in 1..(Len(table) + 1)
    <3>1. i \in 1..Len(table) \/ i = Len(table) + 1
      BY <1>4
    <3> QED
      BY <3>1, <1>2, <1>4, <2>1
  <2> QED
    BY <1>3, <2>1, <2>2 DEF more
<1>6. SumOf(a) \in Int /\ SumOf(Append(a, amount(row))) = SumOf(a) + amount(row)
  BY <1>1, <1>4, SumOfOneMore
<1>7. /\ Total(table, kind, loc) \in Int
      /\ Total(longer, kind, loc) = Total(table, kind, loc) + amount(row)
  BY <1>5, <1>6 DEF Total, a
<1> QED
  BY <1>7 DEF amount, longer

LEMMA StockInit == InventoryInit => StockInv
<1> SUFFICES ASSUME InventoryInit PROVE StockInv
  OBVIOUS
<1>1. OrderTypes
  BY DEF InventoryInit, OrderTypes, NoRequest, Request
<1>2. \A s \in Threads : thread[s].pc = "free"
  BY DEF InventoryInit, NoRequest
<1>3. \A kind, loc : Total(orders, kind, loc) = 0
  <2> TAKE kind, loc
  <2>1. orders = <<>> /\ DOMAIN orders = {}
    BY DEF InventoryInit
  <2>2. Amounts(orders, kind, loc) = <<>>
    BY <2>1 DEF Amounts
  <2> QED
    BY <2>2, SumOfNone DEF Total
<1> QED
  BY <1>1, <1>2, <1>3 DEF StockInv, LockedIsThere, OneLocked, StockNeverNegative, Doing,
                          current_stock

(* A step that stores nothing and locks nothing leaves the stock alone.    *)
LEMMA StockAlone ==
  ASSUME StockInv, UNCHANGED <<postgres, orders>>, OrderTypes',
         \A s \in Threads : Doing(s, "locked")' =>
            /\ Doing(s, "locked")
            /\ thread'[s].loc = thread[s].loc /\ thread'[s].qty = thread[s].qty
            /\ thread'[s].kind = thread[s].kind
  PROVE  StockInv'
<1>1. \A loc : current_stock(loc)' = current_stock(loc)
  BY DEF current_stock
<1>2. LockedIsThere'
  BY <1>1 DEF StockInv, LockedIsThere, Doing
<1>3. OneLocked'
  BY DEF StockInv, OneLocked, Doing
<1>4. StockNeverNegative'
  BY <1>1 DEF StockInv, StockNeverNegative
<1> QED
  BY <1>2, <1>3, <1>4 DEF StockInv

(* An answer takes a thread out of the lock.                               *)
LEMMA AnswerKeeps ==
  ASSUME OrderTypes, NEW s \in Threads, NEW pc \in {"refused", "stored"}, NEW id \in Nat,
         Answers(s, pc, id)
  PROVE  /\ thread' \in [Threads -> Request]
         /\ thread'[s].pc \in {"free", pc}
         /\ thread'[s].pc = "free" \/ thread'[s].kind = thread[s].kind
         /\ \A r \in Threads \ {s} : thread'[r] = thread[r]
<1> DEFINE q == IF thread[s].from = NoForm THEN NoRequest
                ELSE [[thread[s] EXCEPT !.pc = pc] EXCEPT !.id = id]
<1>1. thread[s] \in Request
  BY DEF OrderTypes
<1>2. q \in Request /\ q.pc \in {"free", pc} /\ (q.pc = "free" \/ q.kind = thread[s].kind)
  <2>1. NoRequest \in Request /\ NoRequest.pc = "free"
    BY DEF NoRequest, Request
  <2>2. [[thread[s] EXCEPT !.pc = pc] EXCEPT !.id = id] \in Request
    BY <1>1 DEF Request
  <2>3. /\ [[thread[s] EXCEPT !.pc = pc] EXCEPT !.id = id].pc = pc
        /\ [[thread[s] EXCEPT !.pc = pc] EXCEPT !.id = id].kind = thread[s].kind
    BY <1>1 DEF Request
  <2> QED
    BY <2>1, <2>2, <2>3
<1>3. thread' = [thread EXCEPT ![s] = q]
  BY DEF Answers, OrderTypes
<1> HIDE DEF q
<1> QED
  BY <1>2, <1>3 DEF OrderTypes

LEMMA StoredKeeps ==
  ASSUME StockInv, NEW s \in Threads, Stored(s), UNCHANGED postgres,
         thread[s].kind = "out" => Doing(s, "locked")
  PROVE  StockInv'
<1> DEFINE row == [kind |-> thread[s].kind, loc |-> thread[s].loc, qty |-> thread[s].qty]
<1>1. OrderTypes /\ thread[s] \in Request /\ row \in Order
      /\ row.kind = thread[s].kind /\ row.loc = thread[s].loc /\ row.qty = thread[s].qty
  BY DEF StockInv, OrderTypes, Request, Order
<1>2. orders \in Seq(Order) /\ orders' = Append(orders, row)
  BY <1>1 DEF OrderTypes, Stored
<1> HIDE DEF row
<1>3. orders' \in Seq(Order) /\ Len(orders') \in Nat
  BY <1>1, <1>2
<1>4. /\ thread' \in [Threads -> Request]
      /\ thread'[s].pc \in {"free", "stored"}
      /\ \A r \in Threads \ {s} : thread'[r] = thread[r]
  BY <1>1, <1>3, AnswerKeeps DEF Stored
<1>5. OrderTypes'
  BY <1>1, <1>3, <1>4 DEF OrderTypes
<1>6. ASSUME NEW loc
      PROVE  /\ current_stock(loc) \in Int
             /\ current_stock(loc)' \in Int
             /\ loc # row.loc => current_stock(loc)' = current_stock(loc)
             /\ row.kind = "in" => current_stock(loc)' >= current_stock(loc)
             /\ row.kind = "out" /\ loc = row.loc =>
                   current_stock(loc)' = current_stock(loc) - row.qty
  <2>1. row.qty \in Nat /\ row.kind \in {"in", "out"}
    BY <1>1 DEF Order
  <2>2. /\ Total(orders, "in", loc) \in Int /\ Total(orders, "out", loc) \in Int
        /\ Total(orders', "in", loc) = Total(orders, "in", loc)
               + (IF row.kind = "in" /\ row.loc = loc THEN row.qty ELSE 0)
        /\ Total(orders', "out", loc) = Total(orders, "out", loc)
               + (IF row.kind = "out" /\ row.loc = loc THEN row.qty ELSE 0)
    BY <1>1, <1>2, TotalOfOneMore
  <2> QED
    BY <2>1, <2>2 DEF current_stock
<1>7. \A r \in Threads : Doing(r, "locked")' => r # s /\ Doing(r, "locked") /\ thread'[r] = thread[r]
  BY <1>4 DEF Doing
<1>8. row.kind \in {"in", "out"} /\ row.qty \in Nat
  BY <1>1 DEF Order
<1>9. LockedIsThere'
  <2> SUFFICES ASSUME NEW r \in Threads, Doing(r, "locked")'
               PROVE  /\ thread'[r].kind = "out"
                      /\ postgres => current_stock(thread[r].loc)' - thread[r].qty >= 0
    BY <1>7 DEF LockedIsThere
  <2>1. /\ r # s /\ Doing(r, "locked") /\ thread'[r] = thread[r] /\ thread[r].kind = "out"
        /\ thread[r].qty \in Nat
        /\ postgres => current_stock(thread[r].loc) - thread[r].qty >= 0
    BY <1>7 DEF StockInv, LockedIsThere, OrderTypes, Request
  <2>2. CASE row.kind = "in"
    BY <2>1, <2>2, <1>5, <1>6
  <2>3. CASE row.kind = "out"
    <3>1. postgres => thread[r].loc # row.loc
      BY <2>1, <2>3, <1>1 DEF StockInv, OneLocked
    <3> QED
      BY <3>1, <2>1, <1>6
  <2> QED
    BY <2>2, <2>3, <1>8
<1>10. OneLocked'
  BY <1>7 DEF StockInv, OneLocked
<1>11. StockNeverNegative'
  <2> SUFFICES ASSUME postgres, NEW loc \in Locations
               PROVE  current_stock(loc)' >= 0
    BY DEF StockNeverNegative
  <2>1. current_stock(loc) >= 0
    BY DEF StockInv, StockNeverNegative
  <2>2. CASE row.kind = "out" /\ loc = row.loc
    <3>1. current_stock(loc) - row.qty >= 0
      BY <2>2, <1>1 DEF StockInv, LockedIsThere
    <3> QED
      BY <3>1, <2>2, <1>6
  <2>3. CASE ~(row.kind = "out" /\ loc = row.loc)
    <3>1. CASE row.kind = "in"
      BY <3>1, <2>1, <1>6
    <3>2. CASE row.kind = "out"
      BY <3>2, <2>1, <2>3, <1>6
    <3> QED
      BY <3>1, <3>2, <1>8
  <2> QED
    BY <2>2, <2>3
<1> QED
  BY <1>5, <1>9, <1>10, <1>11 DEF StockInv

LEMMA StockStep == StockInv /\ [OrdersAlone]_inventory_vars => StockInv'
<1> SUFFICES ASSUME StockInv, [OrdersAlone]_inventory_vars
             PROVE  StockInv'
  OBVIOUS
<1> USE DEF Doing
<1>1. OrderTypes /\ \A s \in Threads : thread[s] \in Request
  BY DEF StockInv, OrderTypes
<1>2. NoRequest \in Request
  BY DEF NoRequest, Request
<1>3. ASSUME create_product \/ UNCHANGED inventory_vars
             \/ \E f \in Forms : onFieldChange(f) \/ scheduleAbandon(f)
      PROVE  StockInv'
  <2>1. UNCHANGED <<postgres, orders, thread>>
    BY <1>3 DEF create_product, inventory_vars, onFieldChange, scheduleAbandon
  <2> QED
    BY <1>1, <2>1, StockAlone DEF OrderTypes
<1>4. ASSUME NEW s \in Threads, Refuse(s) PROVE StockInv'
  <2>1. /\ thread' \in [Threads -> Request]
        /\ thread'[s].pc \in {"free", "refused"}
        /\ \A r \in Threads \ {s} : thread'[r] = thread[r]
    BY <1>1, <1>4, AnswerKeeps DEF Refuse
  <2>2. UNCHANGED <<postgres, orders>>
    BY <1>4 DEF Refuse
  <2> QED
    BY <1>1, <2>1, <2>2, StockAlone DEF OrderTypes
<1>5. ASSUME NEW s \in Threads, create_inbound_order(s) PROVE StockInv'
  BY <1>5, StoredKeeps DEF create_inbound_order
<1>6. ASSUME NEW s \in Threads, create_outbound_order(s) PROVE StockInv'
  BY <1>6, StoredKeeps DEF create_outbound_order
<1>7. ASSUME NEW s \in Threads, OutboundChecks(s) PROVE StockInv'
  <2>1. UNCHANGED <<postgres, orders>> /\ thread[s].kind = "out" /\ Doing(s, "arrived")
    BY <1>7 DEF OutboundChecks, Admitted
  <2>2. CASE Answers(s, "refused", 0)
    <3>1. /\ thread' \in [Threads -> Request]
          /\ thread'[s].pc \in {"free", "refused"}
          /\ \A r \in Threads \ {s} : thread'[r] = thread[r]
      BY <1>1, <2>2, AnswerKeeps
    <3> QED
      BY <1>1, <2>1, <3>1, StockAlone DEF OrderTypes
  <2>3. CASE ~Answers(s, "refused", 0)
    <3>1. /\ ~(current_stock(thread[s].loc) - thread[s].qty < 0)
          /\ thread' = [thread EXCEPT ![s].pc = "locked"]
          /\ postgres => \A r \in Threads \ {s} :
                            Doing(r, "locked") => thread[r].loc # thread[s].loc
      BY <1>7, <2>3 DEF OutboundChecks, _acquire_location_stock_lock
    <3>2. [thread[s] EXCEPT !.pc = "locked"] \in Request
      BY <1>1 DEF Request
    <3>3. /\ thread' \in [Threads -> Request]
          /\ thread'[s] = [thread[s] EXCEPT !.pc = "locked"]
          /\ \A r \in Threads \ {s} : thread'[r] = thread[r]
      BY <1>1, <3>1, <3>2 DEF OrderTypes
    <3>4. /\ thread'[s].kind = thread[s].kind /\ thread'[s].loc = thread[s].loc
          /\ thread'[s].qty = thread[s].qty
      BY <1>1, <3>3 DEF Request
    <3>5. \A loc : current_stock(loc)' = current_stock(loc) /\ current_stock(loc) \in Int
      <4>1. [kind |-> "in", loc |-> "none", qty |-> 0] \in Order
        BY DEF Order
      <4>2. \A loc : Total(orders, "in", loc) \in Int /\ Total(orders, "out", loc) \in Int
        BY <4>1, <1>1, TotalOfOneMore DEF OrderTypes
      <4> QED
        BY <4>2, <2>1 DEF current_stock
    <3>6. thread[s].qty \in Nat
      BY <1>1 DEF Request
    <3>7. LockedIsThere'
      <4> SUFFICES ASSUME NEW r \in Threads, Doing(r, "locked")'
                   PROVE  /\ thread'[r].kind = "out"
                          /\ postgres => current_stock(thread'[r].loc) - thread'[r].qty >= 0
        BY <3>5, <2>1 DEF LockedIsThere
      <4>1. CASE r = s
        BY <4>1, <2>1, <3>1, <3>4, <3>5, <3>6
      <4>2. CASE r # s
        BY <4>2, <3>3 DEF StockInv, LockedIsThere
      <4> QED
        BY <4>1, <4>2
    <3>8. OneLocked'
      BY <2>1, <3>1, <3>3, <3>4 DEF StockInv, OneLocked
    <3> QED
      BY <1>1, <2>1, <3>3, <3>5, <3>7, <3>8 DEF StockInv, OrderTypes, StockNeverNegative
  <2> QED
    BY <2>2, <2>3
<1>8. ASSUME NEW f \in Forms, handleSubmit(f) PROVE StockInv'
  <2>1. UNCHANGED <<postgres, orders>>
    BY <1>8 DEF handleSubmit
  <2>2. PICK s \in Threads, kind \in {"in", "out"}, loc \in Locations, qty \in Quantities :
           Post(f, s, kind, loc, qty)
    BY <1>8 DEF handleSubmit
  <2> DEFINE q == [pc |-> "arrived", kind |-> kind, loc |-> loc, qty |-> qty,
                   allowed |-> loc \in Claims[f], from |-> f, id |-> 0]
  <2>3. q \in Request /\ q.pc = "arrived"
    BY InventoryAssumption DEF Request
  <2>4. thread' = [thread EXCEPT ![s] = q]
    BY <2>2 DEF Post
  <2> HIDE DEF q
  <2> QED
    BY <1>1, <2>1, <2>3, <2>4, StockAlone DEF OrderTypes
<1>9. ASSUME NEW f \in Forms, NEW s \in Threads, OrderCreated(f, s) PROVE StockInv'
  <2>1. UNCHANGED <<postgres, orders>> /\ thread' = [thread EXCEPT ![s] = NoRequest]
    BY <1>9 DEF OrderCreated
  <2>2. NoRequest.pc = "free"
    BY DEF NoRequest
  <2> QED
    BY <1>1, <1>2, <2>1, <2>2, StockAlone DEF OrderTypes
<1>10. ASSUME NEW f \in Forms, NEW s \in Threads, OrderFailed(f, s) PROVE StockInv'
  <2>1. UNCHANGED <<postgres, orders>>
    BY <1>10 DEF OrderFailed
  <2>2. CASE thread' = [thread EXCEPT ![s] = NoRequest]
    <3>1. NoRequest.pc = "free"
      BY DEF NoRequest
    <3> QED
      BY <1>1, <1>2, <2>1, <2>2, <3>1, StockAlone DEF OrderTypes
  <2>3. CASE thread' = [thread EXCEPT ![s].from = NoForm]
    <3> DEFINE q == [thread[s] EXCEPT !.from = NoForm]
    <3>1. q \in Request /\ q.pc = thread[s].pc /\ q.loc = thread[s].loc
          /\ q.qty = thread[s].qty /\ q.kind = thread[s].kind
      BY <1>1 DEF Request
    <3>2. thread' = [thread EXCEPT ![s] = q]
      BY <2>3 DEF OrderTypes
    <3> HIDE DEF q
    <3> QED
      BY <1>1, <2>1, <3>1, <3>2, StockAlone DEF OrderTypes
  <2> QED
    BY <1>10, <2>2, <2>3 DEF OrderFailed
<1> QED
  BY <1>3, <1>4, <1>5, <1>6, <1>7, <1>8, <1>9, <1>10 DEF OrdersAlone, InventoryStep

-----------------------------------------------------------------------------
(* The telemetry of a page.                                                *)

ORDER_OUT == "consumption_order_created"

\* Every step but the one that tracks an order out.
TelemetryQuiet ==
    \/ \E type \in CATALOG_EVENT_TYPES \ {ORDER_OUT} : track(type)
    \/ handleLoginFailure
    \/ TelemetryStep

Event == [id : Nat, type : CATALOG_EVENT_TYPES]
Batch == [batch : Seq(Event), attempt : Nat, beacon : BOOLEAN]

\* Events of which no two have one number, all of them tracked before n.
Fits(events, n) ==
    /\ events \in Seq(Event)
    /\ \A i \in DOMAIN events : events[i].id \in 1..n
    /\ \A i, j \in DOMAIN events : events[i].id = events[j].id => i = j

BatchesOf(queue) == {queue[k].batch : k \in DOMAIN queue}
Posted == BatchesOf(posts)

PendingFits ==
    pendingLoginFailureIndex # NoIndex /\ ~moved =>
        /\ pendingLoginFailureIndex \in DOMAIN eventQueue
        /\ eventQueue[pendingLoginFailureIndex].type = "user_login_failed"

EventTypes ==
    /\ tracked \in Nat /\ pendingLoginFailureIndex \in Nat /\ moved \in BOOLEAN
    /\ posts \in Seq(Batch)
    /\ \A events \in {eventQueue, rows} \cup Posted : Fits(events, tracked)

EventInv == EventTypes /\ PendingFits /\ EventsAccounted

\* The events that report an order out, wherever they are.
CreatedIn(events) == {events[i].id : i \in {j \in DOMAIN events : events[j].type = ORDER_OUT}}
Created == UNION {CreatedIn(events) : events \in {eventQueue, rows} \cup Posted}

LEMMA EmptyFits == ASSUME NEW n PROVE Fits(<<>>, n) /\ Ids(<<>>) = {} /\ CreatedIn(<<>>) = {}
<1>1. <<>> \in Seq(Event) /\ DOMAIN <<>> = {}
  OBVIOUS
<1> QED
  BY <1>1 DEF Fits, Ids, CreatedIn

LEMMA OneMoreFits ==
  ASSUME NEW n \in Nat, NEW events, Fits(events, n), NEW e \in Event, e.id = n + 1
  PROVE  LET more == Append(events, e) IN
         /\ Fits(more, n + 1)
         /\ Ids(more) = Ids(events) \cup {n + 1}
         /\ e.type # ORDER_OUT => CreatedIn(more) = CreatedIn(events)
         /\ CreatedIn(more) \subseteq CreatedIn(events) \cup {n + 1}
         /\ DOMAIN events \subseteq DOMAIN more /\ Len(events) + 1 \in DOMAIN more
         /\ \A i \in DOMAIN events : more[i] = events[i]
         /\ more[Len(events) + 1] = e
<1> DEFINE more == Append(events, e)
           N == Len(events)
<1>1. events \in Seq(Event) /\ N \in Nat /\ DOMAIN events = 1..N
  BY DEF Fits
<1>2. /\ more \in Seq(Event) /\ DOMAIN more = DOMAIN events \cup {N + 1}
      /\ N + 1 \notin DOMAIN events
      /\ more[N + 1] = e /\ \A i \in DOMAIN events : more[i] = events[i]
  BY <1>1
<1> HIDE DEF more, N
<1>3. \A i \in DOMAIN events : events[i].id \in 1..n /\ events[i].id # n + 1
                               /\ events[i].id \in 1..(n + 1)
  BY DEF Fits
<1>4. Fits(more, n + 1)
  <2>1. n + 1 \in 1..(n + 1)
    OBVIOUS
  <2> QED
    BY <1>2, <1>3, <2>1 DEF Fits
<1>5. Ids(more) = Ids(events) \cup {n + 1}
  BY <1>2 DEF Ids
<1>6. e.type # ORDER_OUT => CreatedIn(more) = CreatedIn(events)
  BY <1>2 DEF CreatedIn
<1>7. CreatedIn(more) \subseteq CreatedIn(events) \cup {n + 1}
  BY <1>2 DEF CreatedIn
<1> QED
  BY <1>2, <1>4, <1>5, <1>6, <1>7 DEF more, N

LEMMA ReplacedFits ==
  ASSUME NEW n \in Nat, NEW events, Fits(events, n), NEW e \in Event, e.id = n + 1,
         e.type # ORDER_OUT, NEW at \in DOMAIN events
  PROVE  LET new == [events EXCEPT ![at] = e] IN
         /\ Fits(new, n + 1)
         /\ Ids(events) \cup {n + 1} \subseteq Ids(new) \cup {events[at].id}
         /\ n + 1 \in Ids(new)
         /\ CreatedIn(new) \subseteq CreatedIn(events)
         /\ DOMAIN new = DOMAIN events /\ new[at] = e
<1> DEFINE new == [events EXCEPT ![at] = e]
<1>1. events \in Seq(Event)
  BY DEF Fits
<1>2. /\ new \in Seq(Event) /\ DOMAIN new = DOMAIN events
      /\ new[at] = e /\ \A i \in DOMAIN events : i # at => new[i] = events[i]
  BY <1>1
<1> HIDE DEF new
<1>3. \A i \in DOMAIN events : events[i].id \in 1..n /\ events[i].id # n + 1
                               /\ events[i].id \in 1..(n + 1)
  BY DEF Fits
<1>4. Fits(new, n + 1)
  <2>1. n + 1 \in 1..(n + 1)
    OBVIOUS
  <2> QED
    BY <1>2, <1>3, <2>1 DEF Fits
<1>5. /\ Ids(events) \cup {n + 1} \subseteq Ids(new) \cup {events[at].id}
      /\ n + 1 \in Ids(new)
  BY <1>2 DEF Ids
<1>6. CreatedIn(new) \subseteq CreatedIn(events)
  BY <1>2 DEF CreatedIn
<1> QED
  BY <1>2, <1>4, <1>5, <1>6 DEF new

LEMMA LaterFits ==
  ASSUME NEW n \in Nat, NEW events, Fits(events, n)
  PROVE  Fits(events, n + 1)
<1>1. \A i \in 1..n : i \in 1..(n + 1)
  OBVIOUS
<1> QED
  BY <1>1 DEF Fits

(* What the service makes of its table when a batch arrives.               *)
LEMMA IngestFits ==
  ASSUME NEW n \in Nat, EventTypes, n = tracked, NEW k \in DOMAIN posts, ingest_events(k)
  PROVE  /\ Fits(rows', n)
         /\ Ids(rows') = Ids(rows) \cup Ids(posts[k].batch)
         /\ CreatedIn(rows') \subseteq CreatedIn(rows) \cup CreatedIn(posts[k].batch)
<1> DEFINE b == posts[k].batch
           valid == {e \in ToSet(b) : validate_event_properties(e)}
           v == Where(b, valid)
           fresh == {e \in ToSet(v) : e.id \notin Ids(rows)}
           w == Where(v, fresh)
<1>1. Fits(b, n) /\ Fits(rows, n) /\ b \in Seq(Event) /\ rows \in Seq(Event)
  BY DEF EventTypes, Posted, BatchesOf, Fits
<1>2. rows' = rows \o w
  BY DEF ingest_events, bulk_insert_events
<1>3. /\ v \in Seq(Event)
      /\ \A i \in 1..Len(b) : b[i] \in valid => \E j \in 1..Len(v) : v[j] = b[i]
      /\ \E at \in [1..Len(v) -> 1..Len(b)] :
            /\ \A i \in 1..Len(v) : v[i] = b[at[i]] /\ b[at[i]] \in valid
            /\ \A i, j \in 1..Len(v) : i < j => at[i] < at[j]
  <2> HIDE DEF valid, b
  <2> QED
    BY <1>1, WhereKeeps
<1>4. /\ w \in Seq(Event)
      /\ \A i \in 1..Len(v) : v[i] \in fresh => \E j \in 1..Len(w) : w[j] = v[i]
      /\ \E at \in [1..Len(w) -> 1..Len(v)] :
            /\ \A i \in 1..Len(w) : w[i] = v[at[i]] /\ v[at[i]] \in fresh
            /\ \A i, j \in 1..Len(w) : i < j => at[i] < at[j]
  <2> HIDE DEF v, fresh
  <2> QED
    BY <1>3, WhereKeeps
<1>5. /\ DOMAIN b = 1..Len(b) /\ DOMAIN v = 1..Len(v) /\ DOMAIN w = 1..Len(w)
      /\ Len(b) \in Nat /\ Len(v) \in Nat /\ Len(w) \in Nat
  <2> HIDE DEF b, v, w
  <2> QED
    BY <1>1, <1>3, <1>4
<1>6. \A i \in DOMAIN b : b[i] \in valid
  <2> SUFFICES ASSUME NEW i \in DOMAIN b PROVE b[i] \in ToSet(b) /\ b[i].type \in CATALOG_EVENT_TYPES
    BY DEF validate_event_properties
  <2>1. b[i] \in Event
    <3> HIDE DEF b
    <3> QED
      BY <1>1
  <2> QED
    BY <2>1 DEF ToSet, Event
<1> HIDE DEF b, v, w, valid
<1>7. PICK at \in [1..Len(v) -> 1..Len(b)] :
            /\ \A i \in 1..Len(v) : v[i] = b[at[i]]
            /\ \A i, j \in 1..Len(v) : i < j => at[i] < at[j]
  BY <1>3
<1>8. PICK to \in [1..Len(w) -> 1..Len(v)] :
            /\ \A i \in 1..Len(w) : w[i] = v[to[i]] /\ v[to[i]] \in fresh
            /\ \A i, j \in 1..Len(w) : i < j => to[i] < to[j]
  BY <1>4
<1> DEFINE of == [i \in 1..Len(w) |-> at[to[i]]]
<1>9. /\ \A i \in 1..Len(w) : of[i] \in 1..Len(b) /\ w[i] = b[of[i]] /\ w[i].id \notin Ids(rows)
      /\ \A i, j \in 1..Len(w) : i < j => of[i] < of[j]
  <2>1. \A i \in 1..Len(w) : to[i] \in 1..Len(v) /\ of[i] = at[to[i]]
    BY <1>8
  <2>2. \A i \in 1..Len(w) : w[i].id \notin Ids(rows)
    BY <1>8
  <2> HIDE DEF of
  <2>3. \A i \in 1..Len(w) : of[i] \in 1..Len(b) /\ w[i] = b[of[i]]
    BY <1>7, <1>8, <2>1
  <2>4. \A i, j \in 1..Len(w) : i < j => of[i] < of[j]
    BY <1>7, <1>8, <2>1
  <2> QED
    BY <2>2, <2>3, <2>4
<1> HIDE DEF of
<1>10. \A i, j \in 1..Len(w) : w[i].id = w[j].id => i = j
  <2> SUFFICES ASSUME NEW i \in 1..Len(w), NEW j \in 1..Len(w), w[i].id = w[j].id
               PROVE  i = j
    OBVIOUS
  <2>1. of[i] = of[j]
    BY <1>1, <1>5, <1>9 DEF Fits
  <2>2. of[i] \in Nat /\ ~(of[i] < of[j]) /\ ~(of[j] < of[i])
    BY <2>1, <1>9
  <2> QED
    BY <2>2, <1>9
<1>11. \A i \in 1..Len(b) : b[i].id \in Ids(rows) \/ \E j \in 1..Len(w) : w[j] = b[i]
  <2> SUFFICES ASSUME NEW i \in 1..Len(b), b[i].id \notin Ids(rows)
               PROVE  \E j \in 1..Len(w) : w[j] = b[i]
    OBVIOUS
  <2>1. PICK j \in 1..Len(v) : v[j] = b[i]
    BY <1>3, <1>5, <1>6
  <2>2. v[j] \in fresh
    BY <2>1, <1>5 DEF ToSet
  <2> QED
    BY <2>1, <2>2, <1>4
<1> HIDE DEF fresh
<1> DEFINE R == Len(rows)
<1>12. /\ R \in Nat /\ DOMAIN rows = 1..R
       /\ rows' \in Seq(Event) /\ DOMAIN rows' = 1..(R + Len(w))
       /\ \A i \in 1..R : rows'[i] = rows[i]
       /\ \A i \in 1..Len(w) : rows'[R + i] = w[i]
  BY <1>1, <1>2, <1>4, <1>5
<1> HIDE DEF R
<1>13. /\ \A i \in 1..(R + Len(w)) : i \in 1..R \/ \E j \in 1..Len(w) : i = R + j
       /\ \A i \in 1..R : i \in 1..(R + Len(w))
       /\ \A j \in 1..Len(w) : R + j \in 1..(R + Len(w))
  <2>1. ASSUME NEW i \in 1..(R + Len(w)), i \notin 1..R PROVE i - R \in 1..Len(w) /\ i = R + (i - R)
    BY <2>1, <1>5, <1>12
  <2> QED
    BY <2>1, <1>5, <1>12
<1>14. \A i \in DOMAIN rows' : rows'[i].id \in 1..n
  <2> SUFFICES ASSUME NEW i \in DOMAIN rows' PROVE rows'[i].id \in 1..n
    OBVIOUS
  <2>1. CASE i \in 1..R
    BY <2>1, <1>1, <1>12 DEF Fits
  <2>2. CASE i \notin 1..R
    <3>1. PICK j \in 1..Len(w) : i = R + j
      BY <2>2, <1>12, <1>13
    <3>2. rows'[i] = b[of[j]] /\ of[j] \in 1..Len(b)
      BY <3>1, <1>9, <1>12
    <3> QED
      BY <3>2, <1>1, <1>5 DEF Fits
  <2> QED
    BY <2>1, <2>2
<1>15. \A i, j \in DOMAIN rows' : rows'[i].id = rows'[j].id => i = j
  <2> SUFFICES ASSUME NEW i \in DOMAIN rows', NEW j \in DOMAIN rows',
                      rows'[i].id = rows'[j].id
               PROVE  i = j
    OBVIOUS
  <2>0. \A x \in 1..R, y \in 1..Len(w) : rows'[x].id # rows'[R + y].id
    <3>1. \A x \in 1..R : rows'[x].id \in Ids(rows)
      BY <1>12 DEF Ids
    <3>2. \A y \in 1..Len(w) : rows'[R + y].id \notin Ids(rows)
      BY <1>9, <1>12
    <3> QED
      BY <3>1, <3>2
  <2>1. CASE i \in 1..R /\ j \in 1..R
    BY <2>1, <1>1, <1>12 DEF Fits
  <2>2. CASE i \notin 1..R /\ j \in 1..R
    <3>1. PICK y \in 1..Len(w) : i = R + y
      BY <2>2, <1>12, <1>13
    <3> QED
      BY <2>0, <2>2, <3>1
  <2>3. CASE i \in 1..R /\ j \notin 1..R
    <3>1. PICK y \in 1..Len(w) : j = R + y
      BY <2>3, <1>12, <1>13
    <3> QED
      BY <2>0, <2>3, <3>1
  <2>4. CASE i \notin 1..R /\ j \notin 1..R
    <3>1. PICK x \in 1..Len(w) : i = R + x
      BY <2>4, <1>12, <1>13
    <3>2. PICK y \in 1..Len(w) : j = R + y
      BY <2>4, <1>12, <1>13
    <3>3. x = y
      BY <3>1, <3>2, <1>10, <1>12
    <3> QED
      BY <3>1, <3>2, <3>3
  <2> QED
    BY <2>1, <2>2, <2>3, <2>4
<1>16. Ids(rows') = Ids(rows) \cup Ids(b)
  <2>1. Ids(rows') \subseteq Ids(rows) \cup Ids(b)
    <3> SUFFICES ASSUME NEW i \in DOMAIN rows' PROVE rows'[i].id \in Ids(rows) \cup Ids(b)
      BY DEF Ids
    <3>1. CASE i \in 1..R
      BY <3>1, <1>12 DEF Ids
    <3>2. CASE i \notin 1..R
      <4>1. PICK j \in 1..Len(w) : i = R + j
        BY <3>2, <1>12, <1>13
      <4>2. rows'[i] = b[of[j]] /\ of[j] \in DOMAIN b
        BY <4>1, <1>5, <1>9, <1>12
      <4> QED
        BY <4>2 DEF Ids
    <3> QED
      BY <3>1, <3>2
  <2>2. Ids(rows) \subseteq Ids(rows')
    BY <1>12, <1>13 DEF Ids
  <2>3. Ids(b) \subseteq Ids(rows')
    <3> SUFFICES ASSUME NEW i \in 1..Len(b) PROVE b[i].id \in Ids(rows')
      BY <1>5 DEF Ids
    <3>1. CASE b[i].id \in Ids(rows)
      BY <3>1, <2>2
    <3>2. CASE b[i].id \notin Ids(rows)
      <4>1. PICK j \in 1..Len(w) : w[j] = b[i]
        BY <3>2, <1>11
      <4>2. R + j \in DOMAIN rows' /\ rows'[R + j] = b[i]
        BY <4>1, <1>12, <1>13
      <4> QED
        BY <4>2 DEF Ids
    <3> QED
      BY <3>1, <3>2
  <2> QED
    BY <2>1, <2>2, <2>3
<1>17. CreatedIn(rows') \subseteq CreatedIn(rows) \cup CreatedIn(b)
  <2> SUFFICES ASSUME NEW i \in DOMAIN rows', rows'[i].type = ORDER_OUT
               PROVE  rows'[i].id \in CreatedIn(rows) \cup CreatedIn(b)
    BY DEF CreatedIn
  <2>1. CASE i \in 1..R
    BY <2>1, <1>12 DEF CreatedIn
  <2>2. CASE i \notin 1..R
    <3>1. PICK j \in 1..Len(w) : i = R + j
      BY <2>2, <1>12, <1>13
    <3>2. rows'[i] = b[of[j]] /\ of[j] \in DOMAIN b
      BY <3>1, <1>5, <1>9, <1>12
    <3> QED
      BY <3>2 DEF CreatedIn
  <2> QED
    BY <2>1, <2>2
<1>18. Fits(rows', n)
  BY <1>12, <1>14, <1>15 DEF Fits
<1> QED
  BY <1>16, <1>17, <1>18 DEF b

(* Every event is around, was given up or was replaced.                    *)
Around == UNION {Ids(events) : events \in {eventQueue, rows} \cup Posted}
Rest == given \cup {r.id : r \in replaced}

AccountedAround ==
    /\ \A j, k \in DOMAIN rows : rows[j].id = rows[k].id => j = k
    /\ \A e \in 1..tracked : e \in Around \cup Rest
    /\ \A r \in replaced : r.type = "user_login_failed" \/ r.stale

LEMMA AllAround == EventsAccounted <=> AccountedAround
<1>1. ASSUME NEW e
      PROVE  e \in Around \cup Rest <=>
                \/ e \in Ids(rows) \cup Ids(eventQueue) \cup given
                \/ \E k \in DOMAIN posts : e \in Ids(posts[k].batch)
                \/ \E r \in replaced : r.id = e
  <2>1. e \in Around <=> \/ e \in Ids(rows) \cup Ids(eventQueue)
                         \/ \E k \in DOMAIN posts : e \in Ids(posts[k].batch)
    BY DEF Around, Posted, BatchesOf
  <2>2. e \in Rest <=> e \in given \/ \E r \in replaced : r.id = e
    BY DEF Rest
  <2> QED
    BY <2>1, <2>2
<1> QED
  BY <1>1, Zenon DEF EventsAccounted, AccountedAround

(* The batches under way, when one more is sent, one is done with or one   *)
(* is tried again.                                                         *)
LEMMA SentBatch ==
  ASSUME NEW q \in Seq(Batch), NEW p \in Batch
  PROVE  Append(q, p) \in Seq(Batch) /\ BatchesOf(Append(q, p)) = BatchesOf(q) \cup {p.batch}
<1> DEFINE more == Append(q, p)
<1>1. /\ more \in Seq(Batch) /\ DOMAIN more = DOMAIN q \cup {Len(q) + 1}
      /\ Len(q) + 1 \notin DOMAIN q
      /\ more[Len(q) + 1] = p /\ \A i \in DOMAIN q : more[i] = q[i]
  OBVIOUS
<1> HIDE DEF more
<1>2. BatchesOf(more) = BatchesOf(q) \cup {p.batch}
  BY <1>1 DEF BatchesOf
<1> QED
  BY <1>1, <1>2 DEF more

LEMMA DoneBatch ==
  ASSUME NEW q \in Seq(Batch), NEW k \in DOMAIN q
  PROVE  /\ RemoveAt(q, k) \in Seq(Batch)
         /\ BatchesOf(RemoveAt(q, k)) \subseteq BatchesOf(q)
         /\ BatchesOf(q) \subseteq BatchesOf(RemoveAt(q, k)) \cup {q[k].batch}
<1> DEFINE left == SubSeq(q, 1, k - 1)
           right == SubSeq(q, k + 1, Len(q))
           less == left \o right
           N == Len(q)
<1>1. N \in Nat /\ k \in 1..N /\ DOMAIN q = 1..N
  OBVIOUS
<1>2. left \in Seq(Batch) /\ Len(left) = k - 1 /\ \A i \in 1..(k - 1) : left[i] = q[i]
  OBVIOUS
<1>3. right \in Seq(Batch) /\ Len(right) = N - k /\ \A i \in 1..(N - k) : right[i] = q[k + i]
  OBVIOUS
<1> HIDE DEF left, right, N
<1>4. /\ less \in Seq(Batch) /\ DOMAIN less = 1..(N - 1)
      /\ \A i \in 1..(k - 1) : less[i] = q[i]
      /\ \A i \in k..(N - 1) : less[i] = q[i + 1]
  <2>0. /\ left \in Seq(Batch) /\ right \in Seq(Batch)
        /\ Len(left) \in Nat /\ Len(right) \in Nat
    BY <1>2, <1>3
  <2>1. /\ less \in Seq(Batch) /\ DOMAIN less = 1..(Len(left) + Len(right))
        /\ \A i \in 1..Len(left) : less[i] = left[i]
        /\ \A i \in 1..Len(right) : less[Len(left) + i] = right[i]
    BY <2>0
  <2> HIDE DEF less
  <2>2. ASSUME NEW i \in k..(N - 1) PROVE less[i] = q[i + 1]
    <3>1. /\ i - (k - 1) \in 1..Len(right) /\ i = Len(left) + (i - (k - 1))
          /\ i + 1 = k + (i - (k - 1))
      BY <1>1, <1>2, <1>3
    <3>2. less[Len(left) + (i - (k - 1))] = right[i - (k - 1)]
      BY <2>1, <3>1
    <3>3. right[i - (k - 1)] = q[k + (i - (k - 1))]
      BY <1>3, <3>1
    <3> QED
      BY <3>1, <3>2, <3>3
  <2> QED
    BY <1>1, <1>2, <1>3, <2>1, <2>2
<1> HIDE DEF less
<1>5. BatchesOf(less) \subseteq BatchesOf(q)
  <2> SUFFICES ASSUME NEW i \in 1..(N - 1) PROVE \E j \in 1..N : less[i] = q[j]
    BY <1>1, <1>4 DEF BatchesOf
  <2>1. i \in 1..(k - 1) \/ i \in k..(N - 1)
    BY <1>1
  <2>2. i \in 1..N /\ i + 1 \in 1..N
    BY <1>1
  <2> QED
    BY <1>4, <2>1, <2>2
<1>6. BatchesOf(q) \subseteq BatchesOf(less) \cup {q[k].batch}
  <2> SUFFICES ASSUME NEW j \in 1..N
               PROVE  j = k \/ \E i \in 1..(N - 1) : less[i] = q[j]
    <3>1. \A x \in BatchesOf(q) : \E j \in 1..N : x = q[j].batch
      BY <1>1 DEF BatchesOf
    <3>2. \A i \in 1..(N - 1) : less[i].batch \in BatchesOf(less)
      BY <1>4 DEF BatchesOf
    <3> QED
      BY <3>1, <3>2
  <2>1. CASE j < k
    <3>1. j \in 1..(k - 1) /\ j \in 1..(N - 1)
      BY <2>1, <1>1
    <3> QED
      BY <3>1, <1>4
  <2>2. CASE j > k
    <3>1. j - 1 \in k..(N - 1) /\ j - 1 \in 1..(N - 1) /\ (j - 1) + 1 = j
      BY <2>2, <1>1
    <3>2. less[j - 1] = q[(j - 1) + 1]
      BY <3>1, <1>4
    <3> QED
      BY <3>1, <3>2
  <2> QED
    BY <2>1, <2>2, <1>1
<1> QED
  BY <1>4, <1>5, <1>6 DEF RemoveAt, less, left, right, N

LEMMA RetriedBatch ==
  ASSUME NEW q \in Seq(Batch), NEW k \in DOMAIN q
  PROVE  LET new == [q EXCEPT ![k].attempt = @ + 1] IN
         new \in Seq(Batch) /\ BatchesOf(new) = BatchesOf(q)
<1> DEFINE b == q[k]
           p == [b EXCEPT !.attempt = @ + 1]
           new == [q EXCEPT ![k] = p]
<1>1. b \in Batch
  OBVIOUS
<1>2. p \in Batch /\ p.batch = b.batch
  <2> HIDE DEF b
  <2>1. b.attempt + 1 \in Nat
    BY <1>1 DEF Batch
  <2> QED
    BY <1>1, <2>1 DEF Batch
<1>3. [q EXCEPT ![k].attempt = @ + 1] = new
  OBVIOUS
<1> HIDE DEF p
<1>4. /\ new \in Seq(Batch) /\ DOMAIN new = DOMAIN q
      /\ new[k] = p /\ \A i \in DOMAIN q : i # k => new[i] = q[i]
  BY <1>2
<1> HIDE DEF new
<1>5. \A i \in DOMAIN q : new[i].batch = q[i].batch
  BY <1>2, <1>4
<1>6. BatchesOf(new) = BatchesOf(q)
  BY <1>4, <1>5 DEF BatchesOf
<1> QED
  BY <1>3, <1>4, <1>6

(* One more event, which waits in the queue or fills it and leaves it.     *)
Appends(e) ==
    LET full == Append(eventQueue, e) IN
    \/ eventQueue' = full /\ posts' = posts
    \/ eventQueue' = <<>> /\ \E p \in Batch : p.batch = full /\ posts' = Append(posts, p)

LEMMA AppendsKeep ==
  ASSUME EventTypes, NEW e \in Event, e.id = tracked + 1, tracked' = tracked + 1,
         rows' = rows, Appends(e)
  PROVE  /\ posts' \in Seq(Batch)
         /\ \A events \in {eventQueue', rows'} \cup Posted' : Fits(events, tracked')
         /\ Around' = Around \cup {tracked'}
         /\ Created' \subseteq Created \cup {tracked'}
         /\ e.type # ORDER_OUT => Created' \subseteq Created
<1> DEFINE full == Append(eventQueue, e)
<1>1. /\ tracked \in Nat /\ posts \in Seq(Batch) /\ Fits(eventQueue, tracked)
      /\ \A events \in {eventQueue, rows} \cup Posted : Fits(events, tracked + 1)
  BY LaterFits DEF EventTypes
<1>2. /\ Fits(full, tracked + 1) /\ Ids(full) = Ids(eventQueue) \cup {tracked + 1}
      /\ e.type # ORDER_OUT => CreatedIn(full) = CreatedIn(eventQueue)
      /\ CreatedIn(full) \subseteq CreatedIn(eventQueue) \cup {tracked + 1}
  BY <1>1, OneMoreFits
<1> HIDE DEF full
<1>3. Fits(<<>>, tracked + 1) /\ Ids(<<>>) = {} /\ CreatedIn(<<>>) = {}
  BY EmptyFits
<1>4. /\ posts' \in Seq(Batch)
      /\ \/ eventQueue' = full /\ Posted' = Posted
         \/ eventQueue' = <<>> /\ Posted' = Posted \cup {full}
  <2>1. CASE eventQueue' = full /\ posts' = posts
    BY <2>1, <1>1 DEF Posted
  <2>2. CASE eventQueue' = <<>> /\ \E p \in Batch : p.batch = full /\ posts' = Append(posts, p)
    BY <2>2, <1>1, SentBatch DEF Posted
  <2> QED
    BY <2>1, <2>2 DEF Appends, full
<1>5. /\ \A events \in {eventQueue', rows'} \cup Posted' :
            events \in {eventQueue, rows, full, <<>>} \cup Posted
      /\ rows \in {eventQueue', rows'} \cup Posted'
      /\ Posted \subseteq Posted' /\ full \in {eventQueue'} \cup Posted'
  BY <1>4
<1>6. \A events \in {eventQueue', rows'} \cup Posted' : Fits(events, tracked')
  BY <1>1, <1>2, <1>3, <1>5
<1>7. Around' = UNION {Ids(events) : events \in {eventQueue', rows'} \cup Posted'}
  BY DEF Around, Ids
<1>8. Around' = Around \cup {tracked'}
  <2>1. \A events \in {eventQueue', rows'} \cup Posted' :
          Ids(events) \subseteq Around \cup {tracked'}
    BY <1>2, <1>3, <1>5 DEF Around
  <2>2. \A events \in {eventQueue, rows} \cup Posted : Ids(events) \subseteq Around'
    BY <1>2, <1>5, <1>7
  <2>3. tracked' \in Around'
    BY <1>2, <1>5, <1>7
  <2>4. Around' \subseteq Around \cup {tracked'}
    BY <2>1, <1>7
  <2>5. Around \subseteq Around'
    BY <2>2 DEF Around
  <2> QED
    BY <2>3, <2>4, <2>5
<1>9. Created' = UNION {CreatedIn(events) : events \in {eventQueue', rows'} \cup Posted'}
  BY DEF Created, CreatedIn
<1>10. Created' \subseteq Created \cup {tracked'}
  <2>1. \A events \in {eventQueue', rows'} \cup Posted' :
           CreatedIn(events) \subseteq Created \cup {tracked'}
    BY <1>2, <1>3, <1>5 DEF Created
  <2> QED
    BY <2>1, <1>9
<1>11. e.type # ORDER_OUT => Created' \subseteq Created
  <2> SUFFICES ASSUME e.type # ORDER_OUT PROVE Created' \subseteq Created
    OBVIOUS
  <2>1. \A events \in {eventQueue', rows'} \cup Posted' : CreatedIn(events) \subseteq Created
    BY <1>2, <1>3, <1>5 DEF Created
  <2> QED
    BY <2>1, <1>9
<1> QED
  BY <1>4, <1>6, <1>8, <1>10, <1>11

(* What keeps every event accounted for.                                   *)
LEMMA StillAccounted ==
  ASSUME EventsAccounted, Fits(rows', tracked'),
         Around \cup Rest \subseteq Around' \cup Rest',
         \A i \in 1..tracked' : i \in 1..tracked \/ i \in Around' \cup Rest',
         \A r \in replaced' : r \in replaced \/ r.type = "user_login_failed" \/ r.stale
  PROVE  EventsAccounted'
<1>1. AccountedAround
  BY AllAround
<1>2. \A i \in 1..tracked' : i \in Around' \cup Rest'
  BY <1>1 DEF AccountedAround
<1>3. \A j, k \in DOMAIN rows' : rows'[j].id = rows'[k].id => j = k
  BY DEF Fits
<1>4. \A r \in replaced' : r.type = "user_login_failed" \/ r.stale
  BY <1>1, Zenon DEF AccountedAround
<1>5. AccountedAround'
  BY <1>2, <1>3, <1>4, Zenon DEF AccountedAround
<1> QED
  BY <1>5, AllAround, PTL

LEMMA TrackKeeps ==
  ASSUME EventInv, NEW type \in CATALOG_EVENT_TYPES, track(type)
  PROVE  /\ EventInv'
         /\ Created' \subseteq Created \cup {tracked'}
         /\ type # ORDER_OUT => Created' \subseteq Created
<1> DEFINE e == buildEnvelope(type)
<1>1. EventTypes /\ PendingFits /\ EventsAccounted /\ tracked \in Nat
  BY DEF EventInv, EventTypes
<1>2. e \in Event /\ e.id = tracked + 1 /\ e.type = type
  BY <1>1 DEF buildEnvelope, Event
<1>3. tracked' = tracked + 1 /\ rows' = rows /\ enqueue(e)
      /\ given' = given /\ replaced' = replaced
      /\ \/ pendingLoginFailureIndex' = NoIndex
         \/ pendingLoginFailureIndex' = pendingLoginFailureIndex
  BY DEF track
<1> HIDE DEF e
<1>4. /\ Appends(e)
      /\ ~moved' => ~moved /\ eventQueue' = Append(eventQueue, e)
      /\ moved' \in BOOLEAN
  <2>1. CASE Len(Append(eventQueue, e)) >= QUEUE_FLUSH_SIZE
    <3>1. Sent(Append(eventQueue, e), FALSE) /\ eventQueue' = <<>>
      BY <1>3, <2>1 DEF enqueue
    <3> DEFINE p == [batch |-> Append(eventQueue, e), attempt |-> 0, beacon |-> FALSE]
    <3>2. posts' = Append(posts, p) /\ moved' = TRUE
      BY <3>1 DEF Sent
    <3>3. p \in Batch /\ p.batch = Append(eventQueue, e)
      <4>1. Append(eventQueue, e) \in Seq(Event)
        BY <1>1, <1>2 DEF EventTypes, Fits
      <4> QED
        BY <4>1 DEF Batch
    <3> HIDE DEF p
    <3>4. moved' /\ moved' \in BOOLEAN
      BY <3>2
    <3> QED
      BY <3>1, <3>2, <3>3, <3>4 DEF Appends
  <2>2. CASE ~(Len(Append(eventQueue, e)) >= QUEUE_FLUSH_SIZE)
    <3>1. eventQueue' = Append(eventQueue, e) /\ posts' = posts /\ moved' = moved
      BY <1>3, <2>2 DEF enqueue
    <3>2. moved' \in BOOLEAN
      BY <1>1, <3>1, Zenon DEF EventTypes
    <3>3. ~moved' => ~moved
      BY <3>1, Zenon
    <3>4. Appends(e)
      BY <3>1 DEF Appends
    <3> QED
      BY <3>1, <3>2, <3>3, <3>4
  <2> QED
    BY <2>1, <2>2
<1>5. /\ posts' \in Seq(Batch)
      /\ \A events \in {eventQueue', rows'} \cup Posted' : Fits(events, tracked')
      /\ Around' = Around \cup {tracked'}
      /\ Created' \subseteq Created \cup {tracked'}
      /\ e.type # ORDER_OUT => Created' \subseteq Created
  BY <1>1, <1>2, <1>3, <1>4, AppendsKeep
<1>6. EventTypes'
  <2>1. tracked' \in Nat /\ pendingLoginFailureIndex' \in Nat
    BY <1>1, <1>3 DEF EventTypes, NoIndex
  <2> QED
    BY <2>1, <1>4, <1>5 DEF EventTypes, Fits
<1>7. PendingFits'
  <2> SUFFICES ASSUME pendingLoginFailureIndex' # NoIndex, ~moved'
               PROVE  /\ pendingLoginFailureIndex' \in DOMAIN eventQueue'
                      /\ eventQueue'[pendingLoginFailureIndex'].type = "user_login_failed"
    BY DEF PendingFits, NoIndex
  <2>1. ~moved /\ eventQueue' = Append(eventQueue, e)
    BY <1>4, Zenon
  <2>2. /\ DOMAIN eventQueue \subseteq DOMAIN eventQueue'
        /\ \A i \in DOMAIN eventQueue : eventQueue'[i] = eventQueue[i]
    BY <1>1, <1>2, <2>1, OneMoreFits DEF EventTypes
  <2> QED
    BY <1>1, <1>3, <2>1, <2>2 DEF PendingFits
<1>8. EventsAccounted'
  <2>1. \A i \in 1..tracked' : i \in 1..tracked \/ i = tracked'
    BY <1>1, <1>3
  <2>2. \A i \in 1..tracked' : i \in 1..tracked \/ i \in Around' \cup Rest'
    BY <1>5, <2>1
  <2>3. Around \cup Rest \subseteq Around' \cup Rest'
    BY <1>3, <1>5 DEF Rest
  <2>4. Fits(rows', tracked')
    BY <1>5
  <2> QED
    BY <1>1, <1>3, <2>2, <2>3, <2>4, StillAccounted
<1> QED
  BY <1>2, <1>5, <1>6, <1>7, <1>8 DEF EventInv

LEMMA FailureKeeps ==
  ASSUME EventInv, handleLoginFailure
  PROVE  EventInv' /\ Created' \subseteq Created
<1> DEFINE e == buildEnvelope("user_login_failed")
           at == pendingLoginFailureIndex
<1>1. EventTypes /\ PendingFits /\ EventsAccounted /\ tracked \in Nat /\ at \in Nat
      /\ Fits(eventQueue, tracked) /\ eventQueue \in Seq(Event)
  BY DEF EventInv, EventTypes, Fits
<1>2. e \in Event /\ e.id = tracked + 1 /\ e.type = "user_login_failed" /\ e.type # ORDER_OUT
  BY <1>1 DEF buildEnvelope, Event, CATALOG_EVENT_TYPES, ORDER_OUT
<1>3. tracked' = tracked + 1 /\ rows' = rows /\ given' = given
  BY DEF handleLoginFailure
<1>4. \A i \in 1..tracked' : i \in 1..tracked \/ i = tracked'
  BY <1>1, <1>3
<1> HIDE DEF e
<1>5. CASE at # NoIndex /\ at <= Len(eventQueue)
  <2>1. /\ eventQueue' = [eventQueue EXCEPT ![at] = e]
        /\ replaced' = Displaced(at)
        /\ at' = at /\ posts' = posts /\ moved' = moved
    BY <1>5 DEF handleLoginFailure, e
  <2>2. at \in DOMAIN eventQueue
    BY <1>1, <1>5 DEF NoIndex
  <2>3. /\ Fits(eventQueue', tracked')
        /\ Ids(eventQueue) \cup {tracked'} \subseteq Ids(eventQueue') \cup {eventQueue[at].id}
        /\ tracked' \in Ids(eventQueue')
        /\ CreatedIn(eventQueue') \subseteq CreatedIn(eventQueue)
        /\ DOMAIN eventQueue' = DOMAIN eventQueue /\ eventQueue'[at] = e
    BY <1>1, <1>2, <1>3, <2>1, <2>2, ReplacedFits
  <2>4. Posted' = Posted
    BY <2>1 DEF Posted
  <2>5. /\ Fits(rows', tracked')
        /\ \A events \in {eventQueue', rows'} \cup Posted' : Fits(events, tracked')
    BY <1>1, <1>3, <2>3, <2>4, LaterFits DEF EventTypes
  <2>6. EventTypes'
    <3>1. tracked' \in Nat /\ at' \in Nat /\ posts' \in Seq(Batch)
      BY <1>1, <1>3, <2>1 DEF EventTypes
    <3>2. moved' \in BOOLEAN
      BY <1>1, <2>1, Zenon DEF EventTypes
    <3> QED
      BY <3>1, <3>2, <2>5 DEF EventTypes
  <2>7. PendingFits'
    BY <1>2, <2>1, <2>2, <2>3 DEF PendingFits
  <2>8. EventsAccounted'
    <3>1. eventQueue[at].id \in Rest' /\ Rest \subseteq Rest'
      <4> DEFINE gone == [id |-> eventQueue[at].id, type |-> eventQueue[at].type,
                          stale |-> moved]
      <4>1. replaced' = replaced \cup {gone} /\ gone.id = eventQueue[at].id
        BY <2>1 DEF Displaced
      <4> HIDE DEF gone
      <4>2. Rest' = given' \cup {r.id : r \in replaced'}
        BY DEF Rest
      <4> QED
        BY <1>3, <4>1, <4>2 DEF Rest
    <3>2. Around' = UNION {Ids(events) : events \in {eventQueue', rows'} \cup Posted'}
      BY DEF Around, Ids
    <3>3. Around \cup {tracked'} \subseteq Around' \cup {eventQueue[at].id}
      BY <1>3, <2>3, <2>4, <3>2 DEF Around
    <3>4. tracked' \in Around'
      BY <2>3, <3>2
    <3>5. \A r \in replaced' : r \in replaced \/ r.type = "user_login_failed" \/ r.stale
      <4>1. eventQueue[at].type = "user_login_failed" \/ moved
        BY <1>1, <1>5 DEF PendingFits
      <4>2. \A r \in replaced' : r \in replaced \/
               (r.type = eventQueue[at].type /\ r.stale = moved)
        BY <2>1 DEF Displaced
      <4> QED
        BY <4>1, <4>2, Zenon
    <3> QED
      BY <1>1, <1>4, <2>5, <3>1, <3>3, <3>4, <3>5, StillAccounted
  <2>9. Created' \subseteq Created
    <3>1. Created' = UNION {CreatedIn(events) : events \in {eventQueue', rows'} \cup Posted'}
      BY DEF Created, CreatedIn
    <3> QED
      BY <1>3, <2>3, <2>4, <3>1 DEF Created
  <2> QED
    BY <2>6, <2>7, <2>8, <2>9 DEF EventInv
<1>6. CASE ~(at # NoIndex /\ at <= Len(eventQueue))
  <2>1. /\ at' = Len(eventQueue) + 1 /\ replaced' = replaced
        /\ IF Len(eventQueue) + 1 >= QUEUE_FLUSH_SIZE
           THEN enqueue(e)
           ELSE eventQueue' = Append(eventQueue, e) /\ moved' = FALSE /\ posts' = posts
    BY <1>6 DEF handleLoginFailure, e
  <2>2. Len(eventQueue) \in Nat /\ Len(Append(eventQueue, e)) = Len(eventQueue) + 1
        /\ Append(eventQueue, e) \in Seq(Event)
    BY <1>1, <1>2
  <2>3. /\ Appends(e)
        /\ ~moved' => eventQueue' = Append(eventQueue, e)
        /\ moved' \in BOOLEAN
    <3>1. CASE Len(eventQueue) + 1 >= QUEUE_FLUSH_SIZE
      <4> DEFINE p == [batch |-> Append(eventQueue, e), attempt |-> 0, beacon |-> FALSE]
      <4>1. posts' = Append(posts, p) /\ moved' = TRUE /\ eventQueue' = <<>>
        BY <2>1, <2>2, <3>1 DEF enqueue, Sent
      <4>2. p \in Batch /\ p.batch = Append(eventQueue, e)
        BY <2>2 DEF Batch
      <4> HIDE DEF p
      <4> QED
        BY <4>1, <4>2 DEF Appends
    <3>2. CASE ~(Len(eventQueue) + 1 >= QUEUE_FLUSH_SIZE)
      BY <2>1, <3>2 DEF Appends
    <3> QED
      BY <3>1, <3>2
  <2>4. /\ posts' \in Seq(Batch)
        /\ \A events \in {eventQueue', rows'} \cup Posted' : Fits(events, tracked')
        /\ Around' = Around \cup {tracked'}
        /\ Created' \subseteq Created
    BY <1>1, <1>2, <1>3, <2>3, AppendsKeep
  <2>5. EventTypes'
    BY <1>1, <1>3, <2>1, <2>2, <2>3, <2>4 DEF EventTypes
  <2>6. PendingFits'
    <3>1. /\ Len(eventQueue) + 1 \in DOMAIN Append(eventQueue, e)
          /\ Append(eventQueue, e)[Len(eventQueue) + 1] = e
      BY <1>1, <1>2, OneMoreFits
    <3> QED
      BY <1>2, <2>1, <2>3, <3>1 DEF PendingFits
  <2>7. EventsAccounted'
    <3>1. Around \cup Rest \subseteq Around' \cup Rest'
      BY <1>3, <2>1, <2>4 DEF Rest
    <3> QED
      BY <1>1, <1>4, <2>1, <2>4, <3>1, StillAccounted
  <2> QED
    BY <2>4, <2>5, <2>6, <2>7 DEF EventInv
<1> QED
  BY <1>5, <1>6

(* A step that tracks nothing leaves events where they are or takes them   *)
(* on to the table.                                                        *)
LEMMA SteadyKeeps ==
  ASSUME EventInv, UNCHANGED <<tracked, pendingLoginFailureIndex, replaced>>,
         posts' \in Seq(Batch), moved' \in BOOLEAN,
         ~moved' => ~moved /\ eventQueue' = eventQueue,
         eventQueue' \in {eventQueue, <<>>},
         Fits(rows', tracked),
         Posted' \subseteq {eventQueue} \cup Posted,
         Around \cup Rest \subseteq Around' \cup Rest',
         CreatedIn(rows') \subseteq Created
  PROVE  EventInv' /\ Created' \subseteq Created
<1>1. EventTypes /\ PendingFits /\ EventsAccounted
  BY DEF EventInv
<1>2. Fits(<<>>, tracked) /\ CreatedIn(<<>>) = {}
  BY EmptyFits
<1>3. \A events \in {eventQueue', rows'} \cup Posted' :
         events \in {eventQueue, rows, rows', <<>>} \cup Posted
  OBVIOUS
<1>4. \A events \in {eventQueue', rows'} \cup Posted' : Fits(events, tracked')
  BY <1>1, <1>2, <1>3 DEF EventTypes
<1>5. EventTypes'
  BY <1>1, <1>4 DEF EventTypes
<1>6. PendingFits'
  BY <1>1 DEF PendingFits
<1>7. EventsAccounted'
  BY <1>1, <1>4, StillAccounted
<1>8. Created' \subseteq Created
  <2>1. Created' = UNION {CreatedIn(events) : events \in {eventQueue', rows'} \cup Posted'}
    BY DEF Created, CreatedIn
  <2>2. \A events \in {eventQueue', rows'} \cup Posted' : CreatedIn(events) \subseteq Created
    BY <1>2, <1>3 DEF Created
  <2> QED
    BY <2>1, <2>2
<1> QED
  BY <1>5, <1>6, <1>7, <1>8 DEF EventInv

LEMMA FlushKeeps ==
  ASSUME EventInv, NEW beacon \in BOOLEAN, flushQueue(beacon)
  PROVE  EventInv' /\ Created' \subseteq Created
<1> DEFINE p == [batch |-> eventQueue, attempt |-> 0, beacon |-> beacon]
<1>1. /\ posts' = Append(posts, p) /\ moved' = TRUE /\ eventQueue' = <<>>
      /\ UNCHANGED <<tracked, pendingLoginFailureIndex, replaced, rows, given>>
  BY DEF flushQueue, Sent
<1>2. p \in Batch /\ p.batch = eventQueue
  BY DEF EventInv, EventTypes, Fits, Batch
<1> HIDE DEF p
<1>3. posts \in Seq(Batch) /\ Fits(rows, tracked)
  BY DEF EventInv, EventTypes
<1>4. posts' \in Seq(Batch) /\ Posted' = Posted \cup {eventQueue}
  BY <1>1, <1>2, <1>3, SentBatch DEF Posted
<1>5. Around \cup Rest \subseteq Around' \cup Rest'
  <2>1. Around' = UNION {Ids(events) : events \in {eventQueue', rows'} \cup Posted'}
    BY DEF Around, Ids
  <2> QED
    BY <1>1, <1>4, <2>1 DEF Around, Rest
<1>6. CreatedIn(rows') \subseteq Created
  BY <1>1 DEF Created
<1> QED
  BY <1>1, <1>3, <1>4, <1>5, <1>6, SteadyKeeps

(* One attempt: what arrives is stored, the batch is kept unless it was    *)
(* stored or given up.                                                     *)
LEMMA AttemptKeeps ==
  ASSUME EventInv, NEW k \in DOMAIN posts, rows' = rows \/ ingest_events(k),
         UNCHANGED <<tracked, pendingLoginFailureIndex, replaced, moved, eventQueue>>,
         \/ ingest_events(k) /\ Done(k) /\ UNCHANGED given
         \/ Done(k) /\ given' = given \cup Ids(posts[k].batch)
         \/ posts' = [posts EXCEPT ![k].attempt = @ + 1] /\ UNCHANGED given
  PROVE  EventInv' /\ Created' \subseteq Created
<1>1. EventTypes /\ posts \in Seq(Batch) /\ Fits(rows, tracked) /\ tracked \in Nat
  BY DEF EventInv, EventTypes
<1>2. posts[k].batch \in Posted
  BY DEF Posted, BatchesOf
<1>3. /\ Fits(rows', tracked)
      /\ Ids(rows) \subseteq Ids(rows')
      /\ ingest_events(k) => Ids(posts[k].batch) \subseteq Ids(rows')
      /\ CreatedIn(rows') \subseteq CreatedIn(rows) \cup CreatedIn(posts[k].batch)
  BY <1>1, IngestFits
<1>4. CreatedIn(rows') \subseteq Created
  BY <1>2, <1>3 DEF Created
<1>5. /\ posts' \in Seq(Batch) /\ Posted' \subseteq Posted
      /\ \/ Posted \subseteq Posted' /\ UNCHANGED given
         \/ /\ Posted \subseteq Posted' \cup {posts[k].batch}
            /\ given \subseteq given'
            /\ Ids(posts[k].batch) \subseteq Ids(rows') \cup given'
  <2>1. CASE Done(k)
    <3>1. posts' = RemoveAt(posts, k)
      BY <2>1 DEF Done
    <3>2. /\ posts' \in Seq(Batch) /\ Posted' \subseteq Posted
          /\ Posted \subseteq Posted' \cup {posts[k].batch}
      BY <1>1, <3>1, DoneBatch DEF Posted
    <3>3. \/ ingest_events(k) /\ UNCHANGED given
          \/ given' = given \cup Ids(posts[k].batch)
          \/ posts' = [posts EXCEPT ![k].attempt = @ + 1] /\ UNCHANGED given
      OBVIOUS
    <3>4. CASE posts' = [posts EXCEPT ![k].attempt = @ + 1] /\ UNCHANGED given
      BY <3>4, <1>1, RetriedBatch DEF Posted
    <3>5. CASE \/ ingest_events(k) /\ UNCHANGED given
               \/ given' = given \cup Ids(posts[k].batch)
      BY <3>2, <3>5, <1>3
    <3> QED
      BY <3>3, <3>4, <3>5
  <2>2. CASE posts' = [posts EXCEPT ![k].attempt = @ + 1] /\ UNCHANGED given
    BY <2>2, <1>1, RetriedBatch DEF Posted
  <2> QED
    BY <2>1, <2>2
<1>6. Around' = UNION {Ids(events) : events \in {eventQueue', rows'} \cup Posted'}
  BY DEF Around, Ids
<1>7. Rest' = given' \cup {r.id : r \in replaced'}
  BY DEF Rest
<1>8. Around \cup Rest \subseteq Around' \cup Rest'
  <2>1. CASE Posted \subseteq Posted' /\ UNCHANGED given
    BY <2>1, <1>3, <1>6, <1>7 DEF Around, Rest
  <2>2. CASE /\ Posted \subseteq Posted' \cup {posts[k].batch}
             /\ given \subseteq given'
             /\ Ids(posts[k].batch) \subseteq Ids(rows') \cup given'
    BY <2>2, <1>3, <1>6, <1>7 DEF Around, Rest
  <2> QED
    BY <2>1, <2>2, <1>5
<1>9. moved' \in BOOLEAN /\ (~moved' => ~moved)
  BY <1>1, Zenon DEF EventTypes
<1> QED
  BY <1>3, <1>4, <1>5, <1>8, <1>9, SteadyKeeps

LEMMA EventStep ==
  ASSUME EventInv, [TelemetryQuiet]_telemetry_vars
  PROVE  EventInv' /\ Created' \subseteq Created
<1>1. ASSUME NEW type \in CATALOG_EVENT_TYPES \ {ORDER_OUT}, track(type)
      PROVE  EventInv' /\ Created' \subseteq Created
  BY <1>1, TrackKeeps
<1>2. ASSUME handleLoginFailure PROVE EventInv' /\ Created' \subseteq Created
  BY <1>2, FailureKeeps
<1>3. ASSUME NEW beacon \in BOOLEAN, flushQueue(beacon)
      PROVE  EventInv' /\ Created' \subseteq Created
  BY <1>3, FlushKeeps
<1>4. ASSUME NEW k \in DOMAIN posts, postEvents(k) \/ PostFails(k)
      PROVE  EventInv' /\ Created' \subseteq Created
  <2>1. UNCHANGED <<tracked, pendingLoginFailureIndex, replaced, moved, eventQueue>>
    BY <1>4 DEF postEvents, PostFails
  <2>2. rows' = rows \/ ingest_events(k)
    BY <1>4 DEF postEvents, PostFails
  <2>3. \/ ingest_events(k) /\ Done(k) /\ UNCHANGED given
        \/ Done(k) /\ given' = given \cup Ids(posts[k].batch)
        \/ posts' = [posts EXCEPT ![k].attempt = @ + 1] /\ UNCHANGED given
    BY <1>4 DEF postEvents, PostFails
  <2> QED
    BY <2>1, <2>2, <2>3, AttemptKeeps
<1>5. ASSUME WindowPasses \/ get_report \/ ReportExpires \/ UNCHANGED telemetry_vars
      PROVE  EventInv' /\ Created' \subseteq Created
  <2>1. UNCHANGED <<tracked, pendingLoginFailureIndex, replaced, eventQueue, rows, posts, given>>
    BY <1>5 DEF WindowPasses, get_report, ReportExpires, telemetry_vars
  <2>2. moved' = TRUE \/ moved' = moved
    BY <1>5 DEF WindowPasses, get_report, ReportExpires, telemetry_vars
  <2>3. moved' \in BOOLEAN /\ (~moved' => ~moved)
    BY <2>2, Zenon DEF EventInv, EventTypes
  <2>4. posts' \in Seq(Batch) /\ Posted' = Posted /\ Fits(rows', tracked)
        /\ CreatedIn(rows') \subseteq Created
    BY <2>1 DEF EventInv, EventTypes, Posted, Created
  <2>5. Around' = Around /\ Rest' = Rest
    BY <2>1, <2>4 DEF Around, Rest
  <2> QED
    BY <2>1, <2>3, <2>4, <2>5, SteadyKeeps
<1> QED
  BY <1>1, <1>2, <1>3, <1>4, <1>5 DEF TelemetryQuiet, TelemetryStep

LEMMA EventInit == TelemetryInit => EventInv /\ Created = {}
<1> SUFFICES ASSUME TelemetryInit PROVE EventInv /\ Created = {}
  OBVIOUS
<1>1. /\ eventQueue = <<>> /\ posts = <<>> /\ rows = <<>> /\ tracked = 0
      /\ pendingLoginFailureIndex = 0 /\ replaced = {}
  BY DEF TelemetryInit, NoIndex
<1>2. DOMAIN posts = {} /\ DOMAIN rows = {} /\ Posted = {}
  BY <1>1 DEF Posted, BatchesOf
<1>3. posts \in Seq(Batch)
  <2>1. <<>> \in Seq(Batch)
    OBVIOUS
  <2> QED
    BY <1>1, <2>1, Zenon
<1>4. Fits(<<>>, tracked) /\ CreatedIn(<<>>) = {}
  BY EmptyFits
<1>5. moved \in BOOLEAN
  BY Zenon DEF TelemetryInit
<1>6. tracked \in Nat /\ pendingLoginFailureIndex \in Nat
  BY <1>1
<1>7. \A events \in {eventQueue, rows} \cup Posted : events = <<>>
  BY <1>1, <1>2
<1>8. EventTypes
  BY <1>3, <1>4, <1>5, <1>6, <1>7 DEF EventTypes
<1>9. EventsAccounted
  <2>1. 1..tracked = {}
    BY <1>1
  <2> QED
    BY <1>1, <1>2, <2>1 DEF EventsAccounted
<1>10. Created = {}
  BY <1>4, <1>7 DEF Created
<1> QED
  BY <1>1, <1>8, <1>9, <1>10 DEF EventInv, PendingFits, NoIndex

(* The report counts a row for each number.                                *)
LEMMA CountedOnce ==
  ASSUME EventInv
  PROVE  /\ IsFiniteSet(Created) /\ Cardinality(Created) \in Nat
         /\ CountOf(ORDER_OUT) \in Nat
         /\ CountOf(ORDER_OUT) <= Cardinality(Created)
         /\ tracked + 1 \notin Created
<1>1. tracked \in Nat /\ \A events \in {eventQueue, rows} \cup Posted : Fits(events, tracked)
  BY DEF EventInv, EventTypes
<1>2. Created \subseteq 1..tracked
  BY <1>1 DEF Created, CreatedIn, Fits
<1>3. IsFiniteSet(Created) /\ Cardinality(Created) \in Nat
  <2>1. IsFiniteSet(1..tracked)
    BY <1>1, FS_Interval
  <2>2. IsFiniteSet(Created)
    <3>1. Created \in SUBSET (1..tracked)
      BY <1>2
    <3> HIDE DEF Created
    <3> QED
      BY <2>1, <3>1, FS_Subset
  <2> QED
    BY <2>2, FS_CardinalityType
<1> DEFINE K == {k \in DOMAIN rows : rows[k].type = ORDER_OUT}
           f == [k \in K |-> rows[k].id]
<1>4. f \in Injection(K, Created)
  <2>1. \A k \in K : rows[k].id \in Created
    BY DEF Created, CreatedIn
  <2>2. \A j, k \in K : rows[j].id = rows[k].id => j = k
    BY <1>1 DEF Fits
  <2> HIDE DEF K
  <2>3. f \in [K -> Created] /\ \A j, k \in K : f[j] = f[k] => j = k
    BY <2>1, <2>2
  <2> QED
    BY <2>3 DEF Injection, IsInjective
<1>5. IsFiniteSet(K) /\ Cardinality(K) <= Cardinality(Created)
  <2> HIDE DEF K, f
  <2> QED
    BY <1>3, <1>4, FS_Injection
<1>6. Cardinality(K) \in Nat
  <2> HIDE DEF K
  <2> QED
    BY <1>5, FS_CardinalityType
<1>7. tracked + 1 \notin Created
  BY <1>1, <1>2
<1> QED
  BY <1>3, <1>5, <1>6, <1>7 DEF CountOf, K
-----------------------------------------------------------------------------
(* The supplier directory.                                                 *)

Supplier == [id : Nat, name : Names \cup {"none"}, rate : {0, 1}, status : {0, 1}]
Change == [pc : {"free", "contains", "change", "write"},
           kind : {"none", "insert", "update", "delete"}, id : Nat,
           name : Names \cup {"none"}, field : {"none", "rate", "status"},
           rows : Seq(Supplier), late : BOOLEAN]

SupplierTypes ==
    /\ suppliers \in Seq(Supplier)
    /\ server \in [Servers -> Change]
    /\ overlapped \in BOOLEAN

(* Until two changes overlap, an id stands in one row; a thread that is    *)
(* not late has read the table as it is, and the id it is about to insert  *)
(* is still free.                                                          *)
IdsApart(table) == \A j, k \in DOMAIN table : table[j].id = table[k].id => j = k
ReadAsIs ==
    \A s \in Servers :
        ~server[s].late =>
            /\ server[s].pc = "write" => server[s].rows = suppliers
            /\ server[s].kind = "insert" => server[s].id \notin Ids_of(suppliers)

SupplierInv == SupplierTypes /\ (~overlapped => IdsApart(suppliers) /\ ReadAsIs)

LEMMA NewId ==
  ASSUME NEW table \in Seq(Supplier)
  PROVE  _next_id(table) \in Nat /\ _next_id(table) \notin Ids_of(table)
<1> DEFINE ids == [k \in 1..Len(table) |-> table[k].id]
<1>1. Len(table) \in Nat /\ DOMAIN table = 1..Len(table)
      /\ \A k \in 1..Len(table) : table[k].id \in Nat
  <2>1. \A k \in 1..Len(table) : table[k] \in Supplier
    OBVIOUS
  <2> QED
    BY <2>1 DEF Supplier
<1>2. CASE table = <<>>
  BY <1>2 DEF _next_id, Ids_of
<1>3. CASE table # <<>>
  <2>1. ids \in Seq(Nat) /\ Len(ids) = Len(table) /\ ids # <<>>
    BY <1>1, <1>3
  <2>2. PICK m \in 1..Len(table) : \A k \in 1..Len(table) : ids[k] <= ids[m]
    <3> HIDE DEF ids
    <3> QED
      BY <2>1, Largest
  <2> DEFINE S == Ids_of(table)
             top == CHOOSE x \in S : \A y \in S : x >= y
  <2>3. S \subseteq Nat /\ table[m].id \in S
    BY <1>1 DEF Ids_of
  <2>4. \A y \in S : table[m].id >= y
    BY <1>1, <2>2 DEF Ids_of
  <2> HIDE DEF S
  <2>5. top \in S /\ \A y \in S : top >= y
    BY <2>3, <2>4
  <2> HIDE DEF top
  <2>6. top \in Nat /\ top + 1 \in Nat /\ top + 1 \notin S
    BY <2>3, <2>5
  <2>7. _next_id(table) = top + 1
    BY <1>3 DEF _next_id, Max, top, S
  <2> QED
    BY <2>6, <2>7 DEF S
<1> QED
  BY <1>2, <1>3

LEMMA BlankChange ==
  NoChange \in Change /\ NoChange.pc = "free" /\ NoChange.kind = "none"
BY DEF NoChange, Change

LEMMA SupplierInit == SuppliersInit => SupplierInv
<1> SUFFICES ASSUME SuppliersInit PROVE SupplierInv
  OBVIOUS
<1>1. NoChange \in Change /\ NoChange.pc = "free" /\ NoChange.kind = "none"
  BY BlankChange
<1>2. SupplierTypes
  <2>1. suppliers \in Seq(Supplier) /\ overlapped \in BOOLEAN
    <3>1. suppliers = <<>> /\ <<>> \in Seq(Supplier)
      BY DEF SuppliersInit
    <3>2. suppliers \in Seq(Supplier)
      BY <3>1, Zenon
    <3>3. overlapped \in BOOLEAN
      BY Zenon DEF SuppliersInit
    <3> QED
      BY <3>2, <3>3
  <2>2. server \in [Servers -> Change]
    BY <1>1 DEF SuppliersInit
  <2> QED
    BY <2>1, <2>2 DEF SupplierTypes
<1>3. IdsApart(suppliers) /\ ReadAsIs
  BY <1>1 DEF SuppliersInit, IdsApart, ReadAsIs
<1> QED
  BY <1>2, <1>3 DEF SupplierInv

(* What a change makes of a table that it read as it is.                   *)
LEMMA InsertedRow ==
  ASSUME NEW c \in Change, c.kind = "insert"
  PROVE  LET new == Changed(c) IN
         /\ new \in Seq(Supplier)
         /\ DOMAIN new = DOMAIN c.rows \cup {Len(c.rows) + 1}
         /\ Len(c.rows) + 1 \notin DOMAIN c.rows
         /\ \A k \in DOMAIN c.rows : new[k] = c.rows[k]
         /\ new[Len(c.rows) + 1].id = c.id
<1> DEFINE row == [id |-> c.id, name |-> c.name, rate |-> 0, status |-> 0]
<1>1. row \in Supplier /\ row.id = c.id /\ c.rows \in Seq(Supplier)
  BY DEF Supplier, Change
<1>2. Changed(c) = Append(c.rows, row)
  BY DEF Changed
<1> HIDE DEF row
<1> QED
  BY <1>1, <1>2

LEMMA DeletedRows ==
  ASSUME NEW c \in Change, c.kind = "delete"
  PROVE  LET new == Changed(c) IN
         /\ new \in Seq(Supplier)
         /\ \A k \in DOMAIN new : \E j \in DOMAIN c.rows : new[k] = c.rows[j]
         /\ IdsApart(c.rows) => IdsApart(new)
<1> DEFINE keep == {r \in ToSet(c.rows) : r.id # c.id}
           new == Where(c.rows, keep)
<1>1. c.rows \in Seq(Supplier)
  BY DEF Change
<1>2. Changed(c) = new
  BY DEF Changed
<1> HIDE DEF keep
<1>3. /\ new \in Seq(Supplier)
      /\ \E at \in [1..Len(new) -> 1..Len(c.rows)] :
            /\ \A i \in 1..Len(new) : new[i] = c.rows[at[i]] /\ c.rows[at[i]] \in keep
            /\ \A i, j \in 1..Len(new) : i < j => at[i] < at[j]
  BY <1>1, WhereKeeps
<1>4. PICK at \in [1..Len(new) -> 1..Len(c.rows)] :
            /\ \A i \in 1..Len(new) : new[i] = c.rows[at[i]]
            /\ \A i, j \in 1..Len(new) : i < j => at[i] < at[j]
  BY <1>3
<1> HIDE DEF new
<1>5. DOMAIN new = 1..Len(new) /\ DOMAIN c.rows = 1..Len(c.rows)
      /\ Len(new) \in Nat /\ Len(c.rows) \in Nat
  BY <1>1, <1>3
<1>6. IdsApart(c.rows) => IdsApart(new)
  <2> SUFFICES ASSUME IdsApart(c.rows), NEW j \in 1..Len(new), NEW k \in 1..Len(new),
                      new[j].id = new[k].id
               PROVE  j = k
    BY <1>5 DEF IdsApart
  <2>1. at[j] = at[k]
    BY <1>4, <1>5 DEF IdsApart
  <2>2. at[j] \in Nat /\ ~(at[j] < at[k]) /\ ~(at[k] < at[j])
    BY <1>4, <1>5, <2>1
  <2> QED
    BY <1>4, <1>5, <2>2
<1> QED
  BY <1>2, <1>3, <1>4, <1>5, <1>6

LEMMA UpdatedRows ==
  ASSUME NEW c \in Change, c.kind \notin {"insert", "delete"}
  PROVE  LET new == Changed(c) IN
         /\ new \in Seq(Supplier) /\ DOMAIN new = DOMAIN c.rows
         /\ \A k \in DOMAIN c.rows :
               /\ new[k].id = c.rows[k].id /\ new[k].name = c.rows[k].name
               /\ new[k].rate = c.rows[k].rate \/ new[k].status = c.rows[k].status
               /\ new[k] # c.rows[k] => c.rows[k].id = c.id
<1> DEFINE flip(r) == CASE r.id # c.id -> r
                        [] r.id = c.id /\ c.field = "rate" -> [r EXCEPT !.rate = 1 - @]
                        [] OTHER -> [r EXCEPT !.status = 1 - @]
<1>1. c.rows \in Seq(Supplier)
  BY DEF Change
<1>2. ASSUME NEW r \in Supplier
      PROVE  /\ flip(r) \in Supplier /\ flip(r).id = r.id /\ flip(r).name = r.name
             /\ flip(r).rate = r.rate \/ flip(r).status = r.status
             /\ flip(r) # r => r.id = c.id
  <2>1. CASE r.id # c.id
    BY <2>1
  <2>2. CASE r.id = c.id /\ c.field = "rate"
    <3>1. flip(r) = [r EXCEPT !.rate = 1 - @]
      BY <2>2
    <3> QED
      BY <2>2, <3>1 DEF Supplier
  <2>3. CASE r.id = c.id /\ c.field # "rate"
    <3>1. flip(r) = [r EXCEPT !.status = 1 - @]
      BY <2>3
    <3> QED
      BY <2>3, <3>1 DEF Supplier
  <2> QED
    BY <2>1, <2>2, <2>3
<1>3. Changed(c) = [k \in DOMAIN c.rows |-> flip(c.rows[k])]
  BY DEF Changed
<1> HIDE DEF flip
<1>4. \A k \in DOMAIN c.rows : c.rows[k] \in Supplier
  BY <1>1
<1>5. Changed(c) \in Seq(Supplier)
  BY <1>1, <1>2, <1>3
<1> QED
  BY <1>2, <1>3, <1>4, <1>5

(* What the table becomes when a thread that is not late writes it.        *)
LEMMA WriteAsRead ==
  ASSUME SupplierInv, ~overlapped, NEW s \in Servers, WriteTable(s), ~server[s].late
  PROVE  /\ suppliers' \in Seq(Supplier)
         /\ IdsApart(suppliers')
         /\ \A j \in DOMAIN suppliers, k \in DOMAIN suppliers' :
               suppliers'[k].id = suppliers[j].id =>
                  /\ suppliers'[k].name = suppliers[j].name
                  /\ \/ suppliers'[k].rate = suppliers[j].rate
                     \/ suppliers'[k].status = suppliers[j].status
                  /\ suppliers'[k] # suppliers[j] => server[s].id = suppliers[j].id
<1> DEFINE c == server[s]
<1>1. /\ c \in Change /\ c.rows = suppliers /\ suppliers' = Changed(c)
      /\ IdsApart(suppliers) /\ suppliers \in Seq(Supplier)
      /\ c.kind = "insert" => c.id \notin Ids_of(suppliers)
  BY DEF SupplierInv, SupplierTypes, ReadAsIs, WriteTable, Serves
<1> HIDE DEF c
<1>2. CASE c.kind = "insert"
  <2>1. /\ suppliers' \in Seq(Supplier)
        /\ DOMAIN suppliers' = DOMAIN suppliers \cup {Len(suppliers) + 1}
        /\ Len(suppliers) + 1 \notin DOMAIN suppliers
        /\ \A k \in DOMAIN suppliers : suppliers'[k] = suppliers[k]
        /\ suppliers'[Len(suppliers) + 1].id = c.id
    BY <1>1, <1>2, InsertedRow
  <2>2. \A k \in DOMAIN suppliers : suppliers[k].id # c.id
    BY <1>1, <1>2 DEF Ids_of
  <2> QED
    BY <1>1, <2>1, <2>2 DEF IdsApart
<1>3. CASE c.kind = "delete"
  BY <1>1, <1>3, DeletedRows DEF IdsApart
<1>4. CASE c.kind \notin {"insert", "delete"}
  <2>1. /\ suppliers' \in Seq(Supplier) /\ DOMAIN suppliers' = DOMAIN suppliers
        /\ \A k \in DOMAIN suppliers :
              /\ suppliers'[k].id = suppliers[k].id /\ suppliers'[k].name = suppliers[k].name
              /\ \/ suppliers'[k].rate = suppliers[k].rate
                 \/ suppliers'[k].status = suppliers[k].status
              /\ suppliers'[k] # suppliers[k] => suppliers[k].id = c.id
    BY <1>1, <1>4, UpdatedRows
  <2> QED
    BY <1>1, <2>1 DEF IdsApart, c
<1> QED
  BY <1>2, <1>3, <1>4

(* A step that does not write the table leaves what was read as it is.     *)
LEMMA StartKeeps ==
  ASSUME SupplierInv, UNCHANGED <<suppliers, overlapped>>, NEW s \in Servers,
         NEW c \in Change, server' = [server EXCEPT ![s] = c],
         ~overlapped /\ ~c.late =>
            /\ c.pc = "write" => c.rows = suppliers
            /\ c.kind = "insert" => c.id \notin Ids_of(suppliers)
  PROVE  SupplierInv'
<1>1. SupplierTypes'
  BY DEF SupplierInv, SupplierTypes
<1>2. ASSUME ~overlapped PROVE ReadAsIs'
  <2> SUFFICES ASSUME NEW t \in Servers, ~server'[t].late
               PROVE  /\ server'[t].pc = "write" => server'[t].rows = suppliers
                      /\ server'[t].kind = "insert" => server'[t].id \notin Ids_of(suppliers)
    BY DEF ReadAsIs, Ids_of
  <2>1. CASE t = s
    BY <2>1, <1>2 DEF SupplierInv, SupplierTypes
  <2>2. CASE t # s
    BY <2>2, <1>2 DEF SupplierInv, SupplierTypes, ReadAsIs
  <2> QED
    BY <2>1, <2>2
<1> QED
  BY <1>1, <1>2 DEF SupplierInv, IdsApart

LEMMA WriteKeeps ==
  ASSUME SupplierInv, NEW s \in Servers, WriteTable(s)
  PROVE  SupplierInv'
<1>1. SupplierTypes /\ \A t \in Servers : server[t] \in Change
  BY DEF SupplierInv, SupplierTypes
<1>2. NoChange \in Change /\ NoChange.pc = "free" /\ NoChange.kind = "none"
  BY BlankChange
<1>3. \A t \in Servers :
         /\ [server[t] EXCEPT !.late = TRUE] \in Change
         /\ [server[t] EXCEPT !.late = TRUE].late
  BY <1>1 DEF Change
<1>4. suppliers' \in Seq(Supplier)
  <2>1. server[s] \in Change /\ suppliers' = Changed(server[s])
    BY <1>1 DEF WriteTable
  <2> QED
    BY <2>1, InsertedRow, DeletedRows, UpdatedRows
<1>5. ASSUME NEW t \in Servers
      PROVE  /\ server'[t] \in Change
             /\ ~server'[t].late => server'[t].pc # "write" /\ server'[t].kind # "insert"
  <2>1. CASE t = s
    BY <2>1, <1>2 DEF WriteTable
  <2>2. CASE t # s /\ (Serves(t, "write") \/ server[t].kind = "insert")
    BY <2>2, <1>3 DEF WriteTable
  <2>3. CASE t # s /\ ~(Serves(t, "write") \/ server[t].kind = "insert")
    BY <2>3, <1>1 DEF WriteTable, Serves
  <2> QED
    BY <2>1, <2>2, <2>3
<1>6. server' \in [Servers -> Change] /\ overlapped' \in BOOLEAN
  <2>1. overlapped' = (overlapped \/ server[s].late)
    BY DEF WriteTable
  <2>2. server' = [t \in Servers |-> server'[t]]
    BY DEF WriteTable
  <2>3. server' \in [Servers -> Change]
    BY <1>5, <2>2
  <2> QED
    BY <2>1, <2>3
<1>7. ASSUME ~overlapped' PROVE IdsApart(suppliers')
  <2>1. ~overlapped /\ ~server[s].late
    BY <1>7 DEF WriteTable
  <2> QED
    BY <2>1, WriteAsRead
<1>8. ReadAsIs'
  BY <1>5 DEF ReadAsIs
<1> QED
  BY <1>4, <1>6, <1>7, <1>8 DEF SupplierInv, SupplierTypes, IdsApart

LEMMA SupplierStep == SupplierInv /\ [SuppliersNext]_supplier_vars => SupplierInv'
<1> SUFFICES ASSUME SupplierInv, [SuppliersNext]_supplier_vars
             PROVE  SupplierInv'
  OBVIOUS
<1>1. SupplierTypes /\ (~overlapped => ReadAsIs) /\ \A t \in Servers : server[t] \in Change
  BY DEF SupplierInv, SupplierTypes
<1>2. ASSUME NEW s \in Servers, NEW name \in Names, create(s, name) PROVE SupplierInv'
  <2> DEFINE c == [NoChange EXCEPT !.pc = "change", !.kind = "insert", !.name = name,
                                   !.id = _next_id(suppliers)]
  <2>1. _next_id(suppliers) \in Nat /\ _next_id(suppliers) \notin Ids_of(suppliers)
    BY <1>1, NewId DEF SupplierTypes
  <2>2. c \in Change /\ c.pc = "change" /\ c.id = _next_id(suppliers)
    BY <2>1, BlankChange DEF Change
  <2>3. UNCHANGED <<suppliers, overlapped>> /\ server' = [server EXCEPT ![s] = c]
    BY <1>2 DEF create, Starts
  <2> HIDE DEF c
  <2> QED
    BY <2>1, <2>2, <2>3, StartKeeps
<1>3. ASSUME NEW s \in Servers, NEW id \in Nat, NEW field \in {"rate", "status"},
             update_field(s, id, field)
      PROVE  SupplierInv'
  <2> DEFINE c == [NoChange EXCEPT !.pc = "contains", !.kind = "update", !.id = id,
                                   !.field = field]
  <2>1. c \in Change /\ c.pc = "contains" /\ c.kind = "update"
    BY BlankChange DEF Change
  <2>2. UNCHANGED <<suppliers, overlapped>> /\ server' = [server EXCEPT ![s] = c]
    BY <1>3 DEF update_field, Starts
  <2> HIDE DEF c
  <2> QED
    BY <2>1, <2>2, StartKeeps
<1>4. ASSUME NEW s \in Servers, NEW id \in Nat, delete_supplier(s, id) PROVE SupplierInv'
  <2> DEFINE c == [NoChange EXCEPT !.pc = "change", !.kind = "delete", !.id = id]
  <2>1. c \in Change /\ c.pc = "change" /\ c.kind = "delete"
    BY BlankChange DEF Change
  <2>2. UNCHANGED <<suppliers, overlapped>> /\ server' = [server EXCEPT ![s] = c]
    BY <1>4 DEF delete_supplier, Starts
  <2> HIDE DEF c
  <2> QED
    BY <2>1, <2>2, StartKeeps
<1>5. ASSUME NEW s \in Servers, contains(s) PROVE SupplierInv'
  <2> DEFINE c == IF server[s].id \in Ids_of(suppliers)
                  THEN [server[s] EXCEPT !.pc = "change"] ELSE NoChange
  <2>1. /\ c \in Change /\ c.pc # "write"
        /\ c.kind = "insert" => server[s].kind = "insert" /\ c.id = server[s].id
                                /\ c.late = server[s].late
    <3>1. NoChange \in Change /\ NoChange.pc = "free" /\ NoChange.kind = "none"
      BY BlankChange
    <3> DEFINE d == [server[s] EXCEPT !.pc = "change"]
    <3>2. /\ d \in Change /\ d.pc = "change" /\ d.kind = server[s].kind
          /\ d.id = server[s].id /\ d.late = server[s].late
      BY <1>1 DEF Change
    <3> HIDE DEF d
    <3> QED
      BY <3>1, <3>2 DEF d
  <2>2. UNCHANGED <<suppliers, overlapped>> /\ server' = [server EXCEPT ![s] = c]
    BY <1>5, <1>1 DEF contains, SupplierTypes
  <2> HIDE DEF c
  <2> QED
    BY <1>1, <2>1, <2>2, StartKeeps DEF ReadAsIs
<1>6. ASSUME NEW s \in Servers, ReadTable(s) PROVE SupplierInv'
  <2> DEFINE c == [[server[s] EXCEPT !.pc = "write"] EXCEPT !.rows = suppliers]
  <2>1. /\ c \in Change /\ c.rows = suppliers /\ c.kind = server[s].kind
        /\ c.id = server[s].id /\ c.late = server[s].late
    BY <1>1 DEF Change, SupplierTypes
  <2>2. UNCHANGED <<suppliers, overlapped>> /\ server' = [server EXCEPT ![s] = c]
    BY <1>6, <1>1 DEF ReadTable, SupplierTypes
  <2> HIDE DEF c
  <2> QED
    BY <1>1, <2>1, <2>2, StartKeeps DEF ReadAsIs
<1>7. ASSUME NEW s \in Servers, WriteTable(s) PROVE SupplierInv'
  BY <1>7, WriteKeeps
<1>8. CASE UNCHANGED supplier_vars
  BY <1>8 DEF supplier_vars, SupplierInv, SupplierTypes, IdsApart, ReadAsIs
<1>9. 1..MaxSuppliers + 1 \subseteq Nat
  BY SuppliersAssumption
<1> QED
  BY <1>2, <1>3, <1>4, <1>5, <1>6, <1>7, <1>8, <1>9 DEF SuppliersNext, seed_batch_row

(* The directory by itself.                                                *)
DirectorySpec == SuppliersInit /\ [][SuppliersNext]_supplier_vars

(* Until two changes overlap, an id names one supplier, and only a change  *)
(* to its id changes its row, in the field it is about.                    *)
LEMMA DirectoryStands == DirectorySpec => SuppliersStand
<1> DEFINE Stands ==
      overlapped' \/
      (/\ \A id \in Ids_of(suppliers) : Cardinality(Row(suppliers, id)) = 1
       /\ \A id \in Ids_of(suppliers) \cap Ids_of(suppliers') :
             \A r \in Row(suppliers, id), q \in Row(suppliers', id) :
                 /\ r.name = q.name
                 /\ r.rate = q.rate \/ r.status = q.status
                 /\ r # q => \E s \in Servers : server[s].id = id /\ server'[s] = NoChange)
<1>1. DirectorySpec => []SupplierInv
  BY SupplierInit, SupplierStep, PTL DEF DirectorySpec
<1>2. SupplierInv /\ SuppliersNext => Stands
  <2> SUFFICES ASSUME SupplierInv, SuppliersNext, ~overlapped'
               PROVE  Stands
    OBVIOUS
  <2>1. ~overlapped /\ ((UNCHANGED suppliers) \/ \E s \in Servers : WriteTable(s) /\ ~server[s].late)
    <3>1. CASE \E s \in Servers : WriteTable(s)
      <4>1. PICK s \in Servers : WriteTable(s)
        BY <3>1
      <4>2. overlapped' = (overlapped \/ server[s].late)
        BY <4>1 DEF WriteTable
      <4>3. ~overlapped /\ ~server[s].late
        BY <4>2, Zenon
      <4> QED
        BY <4>1, <4>3
    <3>2. CASE ~ \E s \in Servers : WriteTable(s)
      <4>1. UNCHANGED <<suppliers, overlapped>>
        BY <3>2 DEF SuppliersNext, create, seed_batch_row, update_field, delete_supplier, Starts,
                    contains, ReadTable
      <4> QED
        BY <4>1, Zenon
    <3> QED
      BY <3>1, <3>2
  <2>2. suppliers \in Seq(Supplier) /\ IdsApart(suppliers)
    BY <2>1 DEF SupplierInv, SupplierTypes
  <2>3. ASSUME NEW id \in Ids_of(suppliers)
        PROVE  Cardinality(Row(suppliers, id)) = 1
    <3>1. PICK k \in DOMAIN suppliers : suppliers[k].id = id
      BY <2>3 DEF Ids_of
    <3>2. {j \in DOMAIN suppliers : suppliers[j].id = id} = {k}
      BY <2>2, <3>1 DEF IdsApart
    <3>3. Row(suppliers, id) = {suppliers[k]}
      BY <3>2 DEF Row
    <3> QED
      BY <3>3, FS_Singleton
  <2>4. ASSUME NEW id, NEW r \in Row(suppliers, id), NEW q \in Row(suppliers', id)
        PROVE  /\ r.name = q.name
               /\ r.rate = q.rate \/ r.status = q.status
               /\ r # q => \E s \in Servers : server[s].id = id /\ server'[s] = NoChange
    <3>1. PICK j \in DOMAIN suppliers, k \in DOMAIN suppliers' :
             /\ suppliers[j].id = id /\ r = suppliers[j]
             /\ suppliers'[k].id = id /\ q = suppliers'[k]
      BY <2>4 DEF Row
    <3>2. CASE UNCHANGED suppliers
      BY <2>2, <3>1, <3>2 DEF IdsApart
    <3>3. CASE \E s \in Servers : WriteTable(s) /\ ~server[s].late
      <4>1. PICK s \in Servers : WriteTable(s) /\ ~server[s].late
        BY <3>3
      <4>2. server'[s] = NoChange
        BY <4>1 DEF WriteTable
      <4> QED
        BY <2>1, <3>1, <4>1, <4>2, WriteAsRead
    <3> QED
      BY <2>1, <3>2, <3>3
  <2> QED
    BY <2>3, <2>4
<1> QED
  BY <1>1, <1>2, PTL DEF DirectorySpec, SuppliersStand

-----------------------------------------------------------------------------
(* The pages together.                                                     *)

Outs == {i \in DOMAIN orders : orders[i].kind = "out"}
StoredOut == {s \in Threads : Doing(s, "stored") /\ thread[s].kind = "out"}

(* Each order out is one that a form has still to hear of, or one that at  *)
(* most one event reports.                                                 *)
Balanced ==
    /\ IsFiniteSet(StoredOut)
    /\ Cardinality(Created) + Cardinality(StoredOut) <= Cardinality(Outs)
    /\ report.created \in Nat /\ report.created <= Cardinality(Outs)

LEMMA OutsFinite ==
  ASSUME NEW table \in Seq(Order)
  PROVE  LET O == {i \in DOMAIN table : table[i].kind = "out"}
         IN  IsFiniteSet(O) /\ Cardinality(O) \in Nat
<1> DEFINE O == {i \in DOMAIN table : table[i].kind = "out"}
<1>1. Len(table) \in Nat /\ O \in SUBSET (1..Len(table))
  OBVIOUS
<1> HIDE DEF O
<1>2. IsFiniteSet(1..Len(table))
  BY <1>1, FS_Interval
<1>3. IsFiniteSet(O)
  BY <1>1, <1>2, FS_Subset
<1> QED
  BY <1>3, FS_CardinalityType DEF O

(* A step of the orders stores at most one, which its thread then answers. *)
OneStored ==
    \E i, s : /\ i \notin Outs /\ Outs' = Outs \cup {i}
              /\ StoredOut' \subseteq StoredOut \cup {s}

LEMMA OutStep ==
  ASSUME StockInv, [OrdersAlone]_inventory_vars
  PROVE  (Outs' = Outs /\ StoredOut' \subseteq StoredOut) \/ OneStored
<1> DEFINE Goal == (Outs' = Outs /\ StoredOut' \subseteq StoredOut) \/ OneStored
<1> USE DEF Doing
<1>1. OrderTypes /\ orders \in Seq(Order) /\ \A s \in Threads : thread[s] \in Request
  BY DEF StockInv, OrderTypes
<1>2. StoredOut' = {s \in Threads : thread'[s].pc = "stored" /\ thread'[s].kind = "out"}
  BY DEF StoredOut
<1>3. ASSUME UNCHANGED orders,
             \A s \in Threads : thread'[s].pc = "stored" => thread'[s] = thread[s]
      PROVE  Goal
  BY <1>2, <1>3 DEF Outs, StoredOut
<1>4. ASSUME NEW s \in Threads, Stored(s)
      PROVE  Goal
  <2> DEFINE row == [kind |-> thread[s].kind, loc |-> thread[s].loc, qty |-> thread[s].qty]
  <2>1. row \in Order /\ row.kind = thread[s].kind /\ row.kind \in {"in", "out"}
    BY <1>1 DEF Request, Order
  <2>2. orders' = Append(orders, row)
    BY <1>4 DEF Stored
  <2> HIDE DEF row
  <2>3. /\ Len(orders) + 1 \notin DOMAIN orders
        /\ DOMAIN orders' = DOMAIN orders \cup {Len(orders) + 1}
        /\ \A i \in DOMAIN orders : orders'[i] = orders[i]
        /\ orders'[Len(orders) + 1] = row /\ Len(orders') \in Nat
    BY <1>1, <2>1, <2>2
  <2>4. /\ thread'[s].pc \in {"free", "stored"}
        /\ thread'[s].pc = "free" \/ thread'[s].kind = thread[s].kind
        /\ \A r \in Threads \ {s} : thread'[r] = thread[r]
    BY <1>1, <1>4, <2>3, AnswerKeeps DEF Stored
  <2>5. StoredOut' \subseteq StoredOut \cup {s}
        /\ (row.kind = "in" => StoredOut' \subseteq StoredOut)
    BY <1>2, <2>1, <2>4 DEF StoredOut
  <2>6. CASE row.kind = "in"
    <3>1. Outs' = Outs
      BY <2>3, <2>6 DEF Outs
    <3> QED
      BY <2>5, <2>6, <3>1
  <2>7. CASE row.kind = "out"
    <3>1. Len(orders) + 1 \notin Outs /\ Outs' = Outs \cup {Len(orders) + 1}
      BY <2>3, <2>7 DEF Outs
    <3> QED
      BY <2>5, <3>1 DEF OneStored
  <2> QED
    BY <2>1, <2>6, <2>7
<1>5. ASSUME create_product \/ UNCHANGED inventory_vars
             \/ \E f \in Forms : onFieldChange(f) \/ scheduleAbandon(f)
      PROVE  Goal
  <2>1. UNCHANGED <<orders, thread>>
    BY <1>5 DEF create_product, inventory_vars, onFieldChange, scheduleAbandon
  <2> QED
    BY <2>1, <1>3
<1>6. ASSUME NEW s \in Threads, Refuse(s) \/ OutboundChecks(s) PROVE Goal
  <2>1. UNCHANGED orders
    BY <1>6 DEF Refuse, OutboundChecks
  <2>2. CASE Answers(s, "refused", 0)
    <3>1. /\ thread'[s].pc \in {"free", "refused"}
          /\ \A r \in Threads \ {s} : thread'[r] = thread[r]
      BY <1>1, <2>2, AnswerKeeps
    <3> QED
      BY <2>1, <3>1, <1>3
  <2>3. CASE ~Answers(s, "refused", 0)
    <3>1. thread' = [thread EXCEPT ![s].pc = "locked"]
      BY <1>6, <2>3 DEF Refuse, OutboundChecks
    <3>2. /\ thread'[s].pc = "locked"
          /\ \A r \in Threads \ {s} : thread'[r] = thread[r]
      BY <1>1, <3>1 DEF OrderTypes, Request
    <3> QED
      BY <2>1, <3>2, <1>3
  <2> QED
    BY <2>2, <2>3
<1>7. ASSUME NEW s \in Threads, create_inbound_order(s) \/ create_outbound_order(s) PROVE Goal
  BY <1>4, <1>7 DEF create_inbound_order, create_outbound_order
<1>8. ASSUME NEW f \in Forms, handleSubmit(f) PROVE Goal
  <2>1. UNCHANGED orders
    BY <1>8 DEF handleSubmit
  <2>2. PICK s \in Threads, kind \in {"in", "out"}, loc \in Locations, qty \in Quantities :
           Post(f, s, kind, loc, qty)
    BY <1>8 DEF handleSubmit
  <2>3. /\ thread'[s].pc = "arrived"
        /\ \A r \in Threads \ {s} : thread'[r] = thread[r]
    BY <1>1, <2>2 DEF Post, OrderTypes
  <2> QED
    BY <2>1, <2>3, <1>3
<1>9. ASSUME NEW f \in Forms, NEW s \in Threads, OrderCreated(f, s) \/ OrderFailed(f, s)
      PROVE  Goal
  <2>1. UNCHANGED orders
    BY <1>9 DEF OrderCreated, OrderFailed
  <2>2. CASE thread' = [thread EXCEPT ![s] = NoRequest]
    <3>1. /\ thread'[s].pc = "free"
          /\ \A r \in Threads \ {s} : thread'[r] = thread[r]
      BY <1>1, <2>2 DEF OrderTypes, NoRequest
    <3> QED
      BY <2>1, <3>1, <1>3
  <2>3. CASE thread[s].pc \in {"arrived", "locked"} /\ thread' = [thread EXCEPT ![s].from = NoForm]
    <3>1. /\ thread'[s].pc \in {"arrived", "locked"}
          /\ \A r \in Threads \ {s} : thread'[r] = thread[r]
      BY <1>1, <2>3 DEF OrderTypes, Request
    <3> QED
      BY <2>1, <3>1, <1>3
  <2> QED
    BY <1>9, <2>2, <2>3 DEF OrderCreated, OrderFailed
<1> QED
  BY <1>5, <1>6, <1>7, <1>8, <1>9 DEF OrdersAlone, InventoryStep

(* The form that hears of an order out takes it from its thread.           *)
TrackOut ==
    \E f \in Forms, s \in Threads :
        OrderCreated(f, s) /\ thread[s].kind = "out" /\ track(ORDER_OUT)

LEMMA HeardOf ==
  ASSUME StockInv, NEW f \in Forms, NEW s \in Threads, OrderCreated(f, s), thread[s].kind = "out"
  PROVE  Outs' = Outs /\ s \in StoredOut /\ StoredOut' \subseteq StoredOut \ {s}
<1>1. orders' = orders /\ thread' = [thread EXCEPT ![s] = NoRequest] /\ Doing(s, "stored")
  BY DEF OrderCreated
<1>2. thread \in [Threads -> Request] /\ NoRequest.pc = "free"
  BY DEF StockInv, OrderTypes, NoRequest
<1>3. StoredOut' = {r \in Threads : thread'[r].pc = "stored" /\ thread'[r].kind = "out"}
  BY DEF StoredOut, Doing
<1> QED
  BY <1>1, <1>2, <1>3 DEF Outs, StoredOut, Doing

(* What the report may become.                                             *)
LEMMA ReportStep ==
  ASSUME EventInv, [TelemetryQuiet]_telemetry_vars
  PROVE  report'.created \in {report.created, 0, CountOf(ORDER_OUT)}
<1>1. CASE report' = report
  BY <1>1
<1>2. CASE get_report
  BY <1>2 DEF get_report, run_report_pipeline, ORDER_OUT
<1>3. CASE ReportExpires
  BY <1>3 DEF ReportExpires, NoReport
<1> QED
  BY <1>1, <1>2, <1>3 DEF TelemetryQuiet, TelemetryStep, telemetry_vars, track,
        handleLoginFailure, flushQueue, postEvents, PostFails, WindowPasses

LEMMA BalanceStep ==
  ASSUME StockInv, EventInv, Balanced, StockInv', EventInv',
         [OrdersAlone]_inventory_vars, [TelemetryQuiet]_telemetry_vars \/ TrackOut
  PROVE  Balanced'
<1> DEFINE C == Created
           P == StoredOut
           O == Outs
<1>1. /\ IsFiniteSet(C) /\ Cardinality(C) \in Nat
      /\ CountOf(ORDER_OUT) \in Nat /\ CountOf(ORDER_OUT) <= Cardinality(C)
  BY CountedOnce
<1>2. IsFiniteSet(O) /\ Cardinality(O) \in Nat
  BY OutsFinite DEF StockInv, OrderTypes, Outs
<1>3. /\ IsFiniteSet(P) /\ Cardinality(C) + Cardinality(P) <= Cardinality(O)
      /\ report.created \in Nat /\ report.created <= Cardinality(O)
      /\ Cardinality(P) \in Nat
  BY FS_CardinalityType DEF Balanced
<1>4. SUFFICES /\ IsFiniteSet(P') /\ Cardinality(C') + Cardinality(P') <= Cardinality(O')
               /\ report'.created \in Nat /\ report'.created <= Cardinality(O')
  BY DEF Balanced
<1>5. CASE [TelemetryQuiet]_telemetry_vars
  <2>1. C' \subseteq C
    BY <1>5, EventStep
  <2>2. report'.created \in {report.created, 0, CountOf(ORDER_OUT)}
    BY <1>5, ReportStep
  <2>3. report'.created \in Nat /\ report'.created <= Cardinality(O)
    BY <2>2, <1>1, <1>2, <1>3
  <2>4. (O' = O /\ P' \subseteq P) \/ \E i, s : /\ i \notin O /\ O' = O \cup {i}
                                                /\ P' \subseteq P \cup {s}
    BY OutStep DEF OneStored
  <2> HIDE DEF C, P, O
  <2>5. Cardinality(C') \in Nat /\ Cardinality(C') <= Cardinality(C)
    BY <1>1, <2>1, FS_Subset, FS_CardinalityType
  <2>6. CASE O' = O /\ P' \subseteq P
    <3>1. IsFiniteSet(P') /\ Cardinality(P') \in Nat /\ Cardinality(P') <= Cardinality(P)
      BY <1>3, <2>6, FS_Subset, FS_CardinalityType
    <3> QED
      BY <1>1, <1>2, <1>3, <2>3, <2>5, <2>6, <3>1
  <2>7. ASSUME NEW i, NEW s, i \notin O, O' = O \cup {i}, P' \subseteq P \cup {s}
        PROVE  /\ IsFiniteSet(P') /\ Cardinality(C') + Cardinality(P') <= Cardinality(O')
               /\ report'.created \in Nat /\ report'.created <= Cardinality(O')
    <3>1. Cardinality(O') = Cardinality(O) + 1
      BY <1>2, <2>7, FS_AddElement
    <3>2. IsFiniteSet(P \cup {s}) /\ Cardinality(P \cup {s}) <= Cardinality(P) + 1
          /\ Cardinality(P \cup {s}) \in Nat
      <4>1. /\ IsFiniteSet(P \cup {s})
            /\ \/ Cardinality(P \cup {s}) = Cardinality(P)
               \/ Cardinality(P \cup {s}) = Cardinality(P) + 1
        BY <1>3, FS_AddElement
      <4> QED
        BY <1>3, <4>1
    <3>3. IsFiniteSet(P') /\ Cardinality(P') \in Nat /\ Cardinality(P') <= Cardinality(P \cup {s})
      BY <2>7, <3>2, FS_Subset, FS_CardinalityType
    <3> QED
      BY <1>1, <1>2, <1>3, <2>3, <2>5, <3>1, <3>2, <3>3
  <2> QED
    BY <2>4, <2>6, <2>7
<1>6. CASE TrackOut
  <2>1. PICK f \in Forms, s \in Threads :
           OrderCreated(f, s) /\ thread[s].kind = "out" /\ track(ORDER_OUT)
    BY <1>6 DEF TrackOut
  <2>2. O' = O /\ s \in P /\ P' \subseteq P \ {s}
    BY <2>1, HeardOf
  <2>3. ORDER_OUT \in CATALOG_EVENT_TYPES
    BY DEF ORDER_OUT, CATALOG_EVENT_TYPES
  <2>4. C' \subseteq C \cup {tracked'}
    BY <2>1, <2>3, TrackKeeps
  <2>5. report' = report
    BY <2>1 DEF track
  <2> HIDE DEF C, P, O
  <2>6. /\ IsFiniteSet(C \cup {tracked'}) /\ Cardinality(C \cup {tracked'}) <= Cardinality(C) + 1
        /\ Cardinality(C \cup {tracked'}) \in Nat
    <3>1. /\ IsFiniteSet(C \cup {tracked'})
          /\ \/ Cardinality(C \cup {tracked'}) = Cardinality(C)
             \/ Cardinality(C \cup {tracked'}) = Cardinality(C) + 1
      BY <1>1, FS_AddElement
    <3> QED
      BY <1>1, <3>1
  <2>7. Cardinality(C') \in Nat /\ Cardinality(C') <= Cardinality(C \cup {tracked'})
    BY <2>4, <2>6, FS_Subset, FS_CardinalityType
  <2>8. IsFiniteSet(P \ {s}) /\ Cardinality(P \ {s}) = Cardinality(P) - 1
    BY <1>3, <2>2, FS_RemoveElement
  <2>9. IsFiniteSet(P') /\ Cardinality(P') \in Nat /\ Cardinality(P') <= Cardinality(P \ {s})
    BY <2>2, <2>8, FS_Subset, FS_CardinalityType
  <2> QED
    BY <1>1, <1>2, <1>3, <2>2, <2>5, <2>6, <2>7, <2>8, <2>9
<1> QED
  BY <1>5, <1>6

-----------------------------------------------------------------------------
BackofficeInv == StockInv /\ EventInv /\ Balanced

LEMMA BackofficeStart == BackofficeInit => BackofficeInv
<1> SUFFICES ASSUME BackofficeInit PROVE BackofficeInv
  OBVIOUS
<1>1. StockInv /\ EventInv /\ Created = {}
  BY StockInit, EventInit DEF BackofficeInit
<1>2. orders = <<>> /\ \A s \in Threads : thread[s].pc = "free"
  BY DEF BackofficeInit, InventoryInit, NoRequest
<1>3. StoredOut = {}
  BY <1>2 DEF StoredOut, Doing
<1>4. Cardinality(Outs) \in Nat
  BY <1>1, OutsFinite DEF StockInv, OrderTypes, Outs
<1>5. report.created = 0
  BY DEF BackofficeInit, TelemetryInit, NoReport
<1>6. IsFiniteSet({}) /\ Cardinality({}) = 0
  BY FS_EmptySet
<1>7. Balanced
  BY <1>1, <1>3, <1>4, <1>5, <1>6 DEF Balanced
<1> QED
  BY <1>1, <1>7 DEF BackofficeInv

(* A step of a page is a step of each part, or leaves it alone; where it   *)
(* tracks that an order out was created, a form has just heard of one.     *)
LEMMA PageStep ==
  ASSUME StockInv, [BackofficeNext]_backoffice_vars
  PROVE  /\ [OrdersAlone]_inventory_vars
         /\ [TelemetryQuiet]_telemetry_vars \/ TrackOut
         /\ [SuppliersNext]_supplier_vars
<1> DEFINE Goal == /\ [OrdersAlone]_inventory_vars
                   /\ [TelemetryQuiet]_telemetry_vars \/ TrackOut
<1>1. ASSUME InventoryStep, UNCHANGED telemetry_vars PROVE Goal
  BY <1>1 DEF OrdersAlone
<1>2. ASSUME TelemetryStep, UNCHANGED inventory_vars PROVE Goal
  BY <1>2 DEF TelemetryQuiet
<1>3. {"supply_order_created", "supply_order_failed", "consumption_order_failed",
       "order_form_abandoned", "user_login_succeeded", "session_expired"}
         \subseteq CATALOG_EVENT_TYPES \ {ORDER_OUT}
  BY DEF CATALOG_EVENT_TYPES, ORDER_OUT
<1>4. ASSUME NEW f \in Forms, NEW s \in Threads, TrackCreated(f, s) PROVE Goal
  <2>1. OrderCreated(f, s) /\ thread[s].kind \in {"in", "out"}
    BY <1>4 DEF TrackCreated, StockInv, OrderTypes, Request
  <2>2. CASE thread[s].kind = "in"
    <3>1. track("supply_order_created")
      BY <1>4, <2>2 DEF TrackCreated
    <3> QED
      BY <1>3, <2>1, <3>1 DEF OrdersAlone, TelemetryQuiet
  <2>3. CASE thread[s].kind = "out"
    <3>1. track(ORDER_OUT)
      BY <1>4, <2>3 DEF TrackCreated, ORDER_OUT
    <3> QED
      BY <2>1, <2>3, <3>1 DEF OrdersAlone, TrackOut
  <2> QED
    BY <2>1, <2>2, <2>3
<1>5. ASSUME NEW f \in Forms, NEW s \in Threads, TrackFailed(f, s) PROVE Goal
  <2>1. OrderFailed(f, s)
        /\ (track("supply_order_failed") \/ track("consumption_order_failed"))
    BY <1>5 DEF TrackFailed
  <2> QED
    BY <1>3, <2>1 DEF OrdersAlone, TelemetryQuiet
<1>6. ASSUME NEW f \in Forms, TrackAbandoned(f) PROVE Goal
  BY <1>3, <1>6 DEF TrackAbandoned, OrdersAlone, TelemetryQuiet
<1>7. ASSUME LoginTracked PROVE Goal
  BY <1>3, <1>7 DEF LoginTracked, TelemetryQuiet
<1>8. ASSUME UNCHANGED <<inventory_vars, telemetry_vars>> PROVE Goal
  BY <1>8
<1> HIDE DEF Goal
<1>9. CASE BackofficeNext
  <2>1. CASE OrdersNext /\ UNCHANGED supplier_vars
    <3>1. Goal
      BY <2>1, <1>1, <1>2, <1>4, <1>5, <1>6 DEF OrdersNext
    <3> QED
      BY <2>1, <3>1 DEF Goal
  <2>2. CASE LoginsNext /\ UNCHANGED supplier_vars
    <3>1. Goal
      BY <2>2, <1>2, <1>7 DEF LoginsNext
    <3> QED
      BY <2>2, <3>1 DEF Goal
  <2>3. CASE SuppliersNext /\ UNCHANGED <<inventory_vars, telemetry_vars>>
    <3>1. Goal
      BY <2>3, <1>8
    <3> QED
      BY <2>3, <3>1 DEF Goal
  <2> QED
    BY <1>9, <2>1, <2>2, <2>3 DEF BackofficeNext
<1>10. CASE UNCHANGED backoffice_vars
  <2>1. Goal
    BY <1>8, <1>10 DEF backoffice_vars
  <2> QED
    BY <1>10, <2>1 DEF Goal, backoffice_vars
<1> QED
  BY <1>9, <1>10

LEMMA BackofficeStep ==
  ASSUME BackofficeInv, [BackofficeNext]_backoffice_vars
  PROVE  BackofficeInv'
<1>1. /\ StockInv /\ EventInv /\ Balanced
      /\ [OrdersAlone]_inventory_vars
      /\ [TelemetryQuiet]_telemetry_vars \/ TrackOut
  BY PageStep DEF BackofficeInv
<1>2. StockInv'
  BY <1>1, StockStep
<1>3. EventInv'
  <2>1. CASE [TelemetryQuiet]_telemetry_vars
    BY <1>1, <2>1, EventStep
  <2>2. CASE TrackOut
    <3>1. track(ORDER_OUT) /\ ORDER_OUT \in CATALOG_EVENT_TYPES
      BY <2>2 DEF TrackOut, ORDER_OUT, CATALOG_EVENT_TYPES
    <3> QED
      BY <1>1, <3>1, TrackKeeps
  <2> QED
    BY <1>1, <2>1, <2>2
<1>4. Balanced'
  BY <1>1, <1>2, <1>3, BalanceStep
<1> QED
  BY <1>2, <1>3, <1>4 DEF BackofficeInv

LEMMA BackofficeInvariant == BackofficeSpec => []BackofficeInv
<1>1. BackofficeInv /\ [BackofficeNext]_backoffice_vars => BackofficeInv'
  BY BackofficeStep
<1> QED
  BY <1>1, BackofficeStart, PTL DEF BackofficeSpec

(* No location gives out more than it received, for every number of forms, *)
(* threads and locations, where the database has the advisory lock: the    *)
(* stock that create_outbound_order checked is still there when it stores. *)
THEOREM StockIsThere == BackofficeSpec => []StockNeverNegative
<1>1. BackofficeInv => StockNeverNegative
  BY DEF BackofficeInv, StockInv
<1> QED
  BY <1>1, BackofficeInvariant, PTL

(* The report counts no order out that was not stored, and every event is  *)
(* stored at most once and accounted for, for every size of the queue and  *)
(* number of retries: batches that arrive twice are skipped by event id,   *)
(* and a form reports an order once.                                       *)
THEOREM ReportIsTrue == BackofficeSpec => []OrdersReported
<1>1. BackofficeInv => OrdersReported
  BY DEF BackofficeInv, Balanced, EventInv, OrdersReported, Outs
<1> QED
  BY <1>1, BackofficeInvariant, PTL

(* The directory behind its page behaves as it does alone.                 *)
LEMMA DirectoryApart == BackofficeSpec => DirectorySpec
<1>1. BackofficeInit => SuppliersInit
  BY DEF BackofficeInit
<1>2. BackofficeInv /\ [BackofficeNext]_backoffice_vars =>
         [SuppliersNext]_supplier_vars
  BY PageStep DEF BackofficeInv
<1> QED
  BY <1>1, <1>2, BackofficeInvariant, PTL DEF BackofficeSpec, DirectorySpec

(* Until two changes of the supplier table overlap, an id names one        *)
(* supplier, and only a change to its id changes its row, in the field it  *)
(* is about (update_rate, update_status, delete_supplier).                 *)
THEOREM SuppliersKeepRows == BackofficeSpec => SuppliersStand
BY DirectoryApart, DirectoryStands, PTL
=============================================================================
