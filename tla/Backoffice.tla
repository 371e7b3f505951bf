----------------------------- MODULE Backoffice -----------------------------
(***************************************************************************)
(* A page of the back office: the order forms of Inventory report what     *)
(* became of their orders through Telemetry, next to the attempts to log   *)
(* in.  The supplier directory is behind another page; it shares nothing   *)
(* with the orders, and a behaviour is about one of the three.             *)
(***************************************************************************)
EXTENDS Inventory, Telemetry, Suppliers

CONSTANTS
    Pages,   \* the pages that are looked at
    Bounds   \* the events tracked from each, and its batches under way at once

ASSUME BackofficeAssumption ==
    /\ Pages \subseteq {"orders", "logins", "suppliers"}
    /\ Bounds \in [Pages -> [events : 0..MaxEvents, posts : 0..MaxPosts]]

VARIABLE page

backoffice_vars == <<inventory_vars, telemetry_vars, supplier_vars, page>>

\* handleSubmit of the two forms, once the request has ended.
TrackCreated(f, s) ==
    /\ OrderCreated(f, s)
    /\ track(IF thread[s].kind = "in" THEN "supply_order_created"
                                       ELSE "consumption_order_created")

TrackFailed(f, s) ==
    /\ OrderFailed(f, s)
    /\ track(IF thread[s].kind = "in" THEN "supply_order_failed"
                                       ELSE "consumption_order_failed")

TrackAbandoned(f) == scheduleAbandon(f) /\ track("order_form_abandoned")

\* The login page.
LoginTracked ==
    /\ \/ handleLoginFailure
       \/ track("user_login_succeeded")
       \/ track("session_expired")
    /\ UNCHANGED inventory_vars

-----------------------------------------------------------------------------
BackofficeInit ==
    /\ page \in Pages
    /\ InventoryInit /\ TelemetryInit /\ SuppliersInit

OrdersNext ==
    \/ InventoryStep /\ UNCHANGED telemetry_vars
    \/ \E f \in Forms, s \in Threads : TrackCreated(f, s) \/ TrackFailed(f, s)
    \/ \E f \in Forms : TrackAbandoned(f)
    \/ TelemetryStep /\ UNCHANGED inventory_vars

LoginsNext ==
    \/ LoginTracked
    \/ TelemetryStep /\ UNCHANGED inventory_vars

BackofficeNext ==
    /\ UNCHANGED page
    /\ \/ page = "orders" /\ OrdersNext /\ UNCHANGED supplier_vars
       \/ page = "logins" /\ LoginsNext /\ UNCHANGED supplier_vars
       \/ /\ page = "suppliers" /\ SuppliersNext
          /\ UNCHANGED <<inventory_vars, telemetry_vars>>
    /\ tracked' <= Bounds[page].events /\ Len(posts') <= Bounds[page].posts

BackofficeSpec == BackofficeInit /\ [][BackofficeNext]_backoffice_vars

-----------------------------------------------------------------------------
(* The report never counts an order out that was not stored, although a    *)
(* batch may arrive twice, a form may fail and be sent again and an answer *)
(* may be lost; and every event that was tracked is accounted for.         *)
OrdersReported ==
    /\ report.created <= Cardinality({i \in DOMAIN orders : orders[i].kind = "out"})
    /\ EventsAccounted
=============================================================================
