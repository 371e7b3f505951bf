----------------------------- MODULE Suppliers -----------------------------
(***************************************************************************)
(* The supplier directory (services/supplier-directory).  Its table is a   *)
(* TinyDB file: every change reads the whole table and writes it back.     *)
(* The handlers are synchronous and run in a thread pool without a lock,   *)
(* so between the calls of one of them, and inside one change, another     *)
(* one may run; "late" marks a thread whose reading is out of date, and    *)
(* "overlapped" a table that such a thread has written.                    *)
(***************************************************************************)
EXTENDS Naturals, Sequences, SequencesExt, FiniteSets, FiniteSetsExt, Rows

CONSTANTS
    Servers,      \* threads of the service
    Names,        \* the suppliers' names, with their countries
    MaxSuppliers, \* rows of the table
    MaxChanges    \* changes of one behaviour

ASSUME SuppliersAssumption == {MaxSuppliers, MaxChanges} \subseteq Nat

VARIABLES
    suppliers,  \* the table, in the order of the inserts
    server,     \* the change each thread is making
    changes, overlapped

supplier_vars == <<suppliers, server, changes, overlapped>>

NoChange == [pc |-> "free", kind |-> "none", id |-> 0, name |-> "none", field |-> "none",
             rows |-> <<>>, late |-> FALSE]

Serves(s, pc) == server[s].pc = pc
Ids_of(rows) == {rows[k].id : k \in DOMAIN rows}

\* Mutant: ids count the rows.
NextIdByLength(rows) == Len(rows) + 1

_next_id(rows) == IF rows = <<>> THEN 1 ELSE Max(Ids_of(rows)) + 1

find_by_name_country(name) == {k \in DOMAIN suppliers : suppliers[k].name = name}

Starts(s, change) ==
    /\ Serves(s, "free")
    /\ changes < MaxChanges /\ changes' = changes + 1
    /\ server' = [server EXCEPT ![s] = change]
    /\ UNCHANGED <<suppliers, overlapped>>

\* create: the table is read for the next id.
create(s, name) ==
    Starts(s, [NoChange EXCEPT !.pc = "change", !.kind = "insert", !.name = name,
                               !.id = _next_id(suppliers)])

\* seed_batch leaves out a supplier that is there.
seed_batch_row(s, name) ==
    /\ find_by_name_country(name) = {}
    /\ create(s, name)

\* update_rate and update_status look for the supplier first.
update_field(s, id, field) ==
    /\ id \in Ids_of(suppliers)
    /\ Starts(s, [NoChange EXCEPT !.pc = "contains", !.kind = "update", !.id = id,
                                  !.field = field])

contains(s) ==
    /\ Serves(s, "contains")
    /\ server' = [server EXCEPT ![s] = IF @.id \in Ids_of(suppliers)
                                       THEN [@ EXCEPT !.pc = "change"] ELSE NoChange]
    /\ UNCHANGED <<suppliers, changes, overlapped>>

delete_supplier(s, id) ==
    Starts(s, [NoChange EXCEPT !.pc = "change", !.kind = "delete", !.id = id])

(***************************************************************************)
(* TinyDB.                                                                 *)
(***************************************************************************)
ReadTable(s) ==
    /\ Serves(s, "change")
    /\ server' = [server EXCEPT ![s].pc = "write", ![s].rows = suppliers]
    /\ UNCHANGED <<suppliers, changes, overlapped>>

Changed(c) ==
    CASE c.kind = "insert" ->
            Append(c.rows, [id |-> c.id, name |-> c.name, rate |-> 0, status |-> 0])
      [] c.kind = "delete" -> Where(c.rows, {r \in ToSet(c.rows) : r.id # c.id})
      [] OTHER ->
            [k \in DOMAIN c.rows |->
                CASE c.rows[k].id # c.id -> c.rows[k]
                  [] c.rows[k].id = c.id /\ c.field = "rate" -> [c.rows[k] EXCEPT !.rate = 1 - @]
                  [] OTHER -> [c.rows[k] EXCEPT !.status = 1 - @]]

WriteTable(s) ==
    /\ Serves(s, "write")
    /\ Len(Changed(server[s])) <= MaxSuppliers
    /\ suppliers' = Changed(server[s])
    /\ overlapped' = (overlapped \/ server[s].late)
    /\ server' = [t \in Servers |->
                     CASE t = s -> NoChange
                       [] t # s /\ (Serves(t, "write") \/ server[t].kind = "insert") ->
                              [server[t] EXCEPT !.late = TRUE]
                       [] OTHER -> server[t]]
    /\ UNCHANGED changes

-----------------------------------------------------------------------------
SuppliersInit ==
    /\ suppliers = <<>>
    /\ server = [s \in Servers |-> NoChange]
    /\ changes = 0 /\ overlapped = FALSE

SuppliersNext ==
    \E s \in Servers :
        \/ \E name \in Names : create(s, name) \/ seed_batch_row(s, name)
        \/ \E id \in 1..MaxSuppliers + 1 :
              \/ \E field \in {"rate", "status"} : update_field(s, id, field)
              \/ delete_supplier(s, id)
        \/ contains(s) \/ ReadTable(s) \/ WriteTable(s)

-----------------------------------------------------------------------------
Row(rows, id) == {rows[k] : k \in {j \in DOMAIN rows : rows[j].id = id}}

(* An id names one supplier, and the row of a supplier changes only by a   *)
(* change to its id, which keeps its name and the field it is not about;   *)
(* no change is undone by another one.  Where two changes overlapped, the  *)
(* table is what the last of them read.                                    *)
SuppliersStand ==
    [][overlapped' \/
       (/\ \A id \in Ids_of(suppliers) : Cardinality(Row(suppliers, id)) = 1
        /\ \A id \in Ids_of(suppliers) \cap Ids_of(suppliers') :
              \A r \in Row(suppliers, id), q \in Row(suppliers', id) :
                  /\ r.name = q.name
                  /\ r.rate = q.rate \/ r.status = q.status
                  /\ r # q => \E s \in Servers :
                                 server[s].id = id /\ server'[s] = NoChange)]_supplier_vars
=============================================================================
