----------------------------- MODULE Inventory -----------------------------
(***************************************************************************)
(* The inventory service (services/inventory) and the two order forms of   *)
(* the back office that post to it.  Stock is not stored: it is what came  *)
(* in less what went out, per ingredient and location.  A request runs in  *)
(* a thread and a transaction of its own; a form whose request fails on    *)
(* the way reports a failure, whatever the server does with the request.   *)
(*                                                                         *)
(* One ingredient.                                                         *)
(***************************************************************************)
EXTENDS Naturals, Integers, Sequences, Rows

CONSTANTS
    Forms,       \* order forms that are open
    Threads,     \* threads of the service
    Locations,
    Claims,      \* the locations each form's user is authorized for
    Quantities,
    NoForm, NoThread,
    MaxOrders    \* orders that are stored in one behaviour

ASSUME InventoryAssumption ==
    /\ Claims \in [Forms -> SUBSET Locations]
    /\ Quantities \subseteq Nat \ {0}
    /\ MaxOrders \in Nat
    /\ NoForm \notin Forms /\ NoThread \notin Threads

VARIABLES
    postgres,  \* the advisory lock exists on PostgreSQL alone
    catalog,   \* whether the ingredient has been created
    orders,    \* the rows of both tables, in the order of their commits
    thread,    \* what each thread is doing
    form       \* what each form is doing

inventory_vars == <<postgres, catalog, orders, thread, form>>

NoRequest == [pc |-> "free", kind |-> "in", loc |-> "none", qty |-> 0, allowed |-> FALSE,
              from |-> NoForm, id |-> 0]
BlankForm == [on |-> NoThread, touched |-> FALSE, timer |-> FALSE, emitted |-> FALSE,
              submitted |-> FALSE]

Doing(s, pc) == thread[s].pc = pc
Answers(s, pc, id) ==
    thread' = [thread EXCEPT ![s] =
                  IF @.from = NoForm THEN NoRequest ELSE [@ EXCEPT !.pc = pc, !.id = id]]

\* What each row adds to SUM(quantity) of one of the tables, for one location.
Amounts(table, kind, loc) ==
    [i \in DOMAIN table |->
        IF table[i].kind = kind /\ table[i].loc = loc THEN table[i].qty ELSE 0]

Total(table, kind, loc) == SumOf(Amounts(table, kind, loc))

current_stock(loc) == Total(orders, "in", loc) - Total(orders, "out", loc)

(***************************************************************************)
(* The service.                                                            *)
(***************************************************************************)
\* A form posts; a thread takes the request.
Post(f, s, kind, loc, qty) ==
    /\ Doing(s, "free")
    /\ thread' = [thread EXCEPT ![s] = [pc |-> "arrived", kind |-> kind, loc |-> loc,
                                        qty |-> qty, allowed |-> loc \in Claims[f],
                                        from |-> f, id |-> 0]]

create_product ==
    /\ ~catalog
    /\ catalog' = TRUE
    /\ UNCHANGED <<postgres, orders, thread, form>>

\* Whose location it is not, or an ingredient that is not there.
Refuse(s) ==
    /\ Doing(s, "arrived")
    /\ ~catalog \/ ~thread[s].allowed
    /\ Answers(s, "refused", 0)
    /\ UNCHANGED <<postgres, catalog, orders, form>>

Admitted(s) == Doing(s, "arrived") /\ catalog /\ thread[s].allowed

Stored(s) ==
    /\ Len(orders) < MaxOrders
    /\ orders' = Append(orders, [kind |-> thread[s].kind, loc |-> thread[s].loc,
                                 qty |-> thread[s].qty])
    /\ Answers(s, "stored", Len(orders'))

create_inbound_order(s) ==
    /\ Admitted(s) /\ thread[s].kind = "in"
    /\ Stored(s)
    /\ UNCHANGED <<postgres, catalog, form>>

\* Mutant: the lock is taken by nobody.
NoStockLock(s) == TRUE

\* The lock is held until the transaction ends.
_acquire_location_stock_lock(s) ==
    postgres => \A r \in Threads \ {s} :
                   Doing(r, "locked") => thread[r].loc # thread[s].loc

\* The lock, and the stock that is read under it.
OutboundChecks(s) ==
    /\ Admitted(s) /\ thread[s].kind = "out"
    /\ _acquire_location_stock_lock(s)
    /\ IF current_stock(thread[s].loc) - thread[s].qty < 0
       THEN Answers(s, "refused", 0)
       ELSE thread' = [thread EXCEPT ![s].pc = "locked"]
    /\ UNCHANGED <<postgres, catalog, orders, form>>

create_outbound_order(s) ==
    /\ Doing(s, "locked")
    /\ Stored(s)
    /\ UNCHANGED <<postgres, catalog, form>>

(***************************************************************************)
(* The forms (app/inventory/orders), with the abandonment timer that a     *)
(* change of a field starts: it fires once, whether or not a request is    *)
(* under way, and never after an order was stored from the form.           *)
(***************************************************************************)
onFieldChange(f) ==
    /\ form[f].on = NoThread /\ ~form[f].touched
    /\ form' = [form EXCEPT ![f].touched = TRUE,
                            ![f].timer = ~form[f].submitted /\ ~form[f].emitted]
    /\ UNCHANGED <<postgres, catalog, orders, thread>>

scheduleAbandon(f) ==
    /\ form[f].timer
    /\ form' = [form EXCEPT ![f].timer = FALSE, ![f].emitted = TRUE]
    /\ UNCHANGED <<postgres, catalog, orders, thread>>

handleSubmit(f) ==
    /\ form[f].on = NoThread /\ form[f].touched
    /\ \E s \in Threads, kind \in {"in", "out"}, loc \in Locations, qty \in Quantities :
          /\ Post(f, s, kind, loc, qty)
          /\ form' = [form EXCEPT ![f].on = s]
    /\ UNCHANGED <<postgres, catalog, orders>>

\* The order was stored: the form is empty again.
OrderCreated(f, s) ==
    /\ form[f].on = s /\ Doing(s, "stored")
    /\ thread' = [thread EXCEPT ![s] = NoRequest]
    /\ form' = [form EXCEPT ![f] = [BlankForm EXCEPT !.submitted = TRUE,
                                                     !.emitted = form[f].emitted]]
    /\ UNCHANGED <<postgres, catalog, orders>>

\* It was refused; or there is no answer, because the request was lost or
\* goes on without the form.
OrderFailed(f, s) ==
    /\ form[f].on = s
    /\ \/ /\ thread[s].pc \in {"refused", "arrived", "stored"}
          /\ thread' = [thread EXCEPT ![s] = NoRequest]
       \/ /\ thread[s].pc \in {"arrived", "locked"}
          /\ thread' = [thread EXCEPT ![s].from = NoForm]
    /\ form' = [form EXCEPT ![f].on = NoThread]
    /\ UNCHANGED <<postgres, catalog, orders>>

-----------------------------------------------------------------------------
InventoryInit ==
    /\ postgres \in BOOLEAN
    /\ catalog = FALSE
    /\ orders = <<>>
    /\ thread = [s \in Threads |-> NoRequest]
    /\ form = [f \in Forms |-> BlankForm]

\* What needs no telemetry.
InventoryStep ==
    \/ create_product
    \/ \E s \in Threads : \/ Refuse(s) \/ create_inbound_order(s)
                          \/ OutboundChecks(s) \/ create_outbound_order(s)
    \/ \E f \in Forms : onFieldChange(f) \/ handleSubmit(f)

-----------------------------------------------------------------------------
(* No location gives out more than it received, however its orders         *)
(* overlap, where the database has the lock.                               *)
StockNeverNegative ==
    postgres => \A loc \in Locations : current_stock(loc) >= 0
=============================================================================
