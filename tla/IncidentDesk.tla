---------------------------- MODULE IncidentDesk ----------------------------
(***************************************************************************)
(* The incident manager (services/incident-manager) with the lifecycle of  *)
(* packages/shared.  Its handlers are synchronous and run in a thread      *)
(* pool; a status change reads the row in one session and writes it in a   *)
(* second one, so two of them overlap.  What a refused request answers is  *)
(* left to its caller; a refusal changes nothing here.                     *)
(***************************************************************************)
EXTENDS Naturals, Sequences, SequencesExt

CONSTANTS
    Handlers,     \* threads that serve PATCH /api/incidents/{id}/status
    SeedRows,     \* the rows of the seed file: source id and status
    IdText,       \* the ids of the table, as text
    ManualText,   \* the source ids given to incidents that have none
    MaxIncidents,
    MaxPatches    \* status changes of one behaviour

ASSUME IncidentDeskAssumption ==
    /\ {MaxIncidents, MaxPatches} \subseteq Nat
    /\ {IdText, ManualText} \subseteq Seq(STRING)
    /\ MaxIncidents <= Len(IdText) /\ MaxIncidents <= Len(ManualText)
    /\ SeedRows \subseteq [source : STRING, status : STRING]

VARIABLES
    incidents,  \* the table by id; "raced" marks a row whose last change was
                \* decided on a status that another request then replaced
    handler,    \* the status change each thread has checked and not written
    patches

desk_vars == <<incidents, handler, patches>>

VALID_STATUSES == {"open", "in_progress", "resolved", "discarded"}

_ALLOWED_TRANSITIONS ==
    [s \in VALID_STATUSES |->
        CASE s = "open" -> {"in_progress", "discarded"}
          [] s = "in_progress" -> {"resolved", "discarded"}
          [] OTHER -> {}]

\* Mutant: only a change to the same status is refused.
TransitionIfChanged(current, target) == current # target

validate_transition(current, target) == target \in _ALLOWED_TRANSITIONS[current]

NoPatch == [id |-> 0, target |-> "open", late |-> FALSE]

(***************************************************************************)
(* Inserting.  A created incident may have any status; it is given its     *)
(* source id in the transaction that inserts it.                           *)
(***************************************************************************)
insert(source, status) ==
    /\ Len(incidents) < MaxIncidents
    /\ incidents' = Append(incidents, [source |-> source, status |-> status,
                                       raced |-> FALSE])

find_by_source_incident_id(source) ==
    {i \in DOMAIN incidents : incidents[i].source = source}

\* One row of seed_batch: an invalid one is rejected, and what is there
\* already is skipped.
seed_batch(row) ==
    /\ row.status \in VALID_STATUSES
    /\ find_by_source_incident_id(row.source) = {}
    /\ insert(row.source, row.status)
    /\ UNCHANGED <<handler, patches>>

create_incident(status) ==
    /\ status \in VALID_STATUSES
    /\ insert(ManualText[Len(incidents) + 1], status)

(***************************************************************************)
(* A status change: the row is read and the transition checked, then the   *)
(* row is read again and written.                                          *)
(***************************************************************************)
update_incident_status(h, i, target) ==
    /\ handler[h] = NoPatch
    /\ patches < MaxPatches
    /\ i \in DOMAIN incidents
    /\ validate_transition(incidents[i].status, target)
    /\ handler' = [handler EXCEPT ![h] = [id |-> i, target |-> target, late |-> FALSE]]
    /\ patches' = patches + 1
    /\ UNCHANGED incidents

update_status_fields(h) ==
    LET i == handler[h].id IN
    /\ i # 0
    /\ incidents' = [incidents EXCEPT ![i].status = handler[h].target,
                                      ![i].raced = handler[h].late]
    /\ handler' = [g \in Handlers |->
                      IF g = h THEN NoPatch
                      ELSE [handler[g] EXCEPT !.late = @ \/ handler[g].id = i]]
    /\ UNCHANGED patches

-----------------------------------------------------------------------------
DeskInit ==
    /\ incidents = <<>>
    /\ handler = [h \in Handlers |-> NoPatch]
    /\ patches = 0

\* What people do at the desk itself, with the statuses they use; Staff are
\* the threads that serve them.
StaffNext(Staff, statuses) ==
    \/ \E row \in SeedRows : seed_batch(row)
    \/ \E s \in statuses : create_incident(s) /\ UNCHANGED <<handler, patches>>
    \/ \E h \in Staff, i \in 1..MaxIncidents, s \in statuses :
           update_incident_status(h, i, s)
    \/ \E h \in Staff : update_status_fields(h)

-----------------------------------------------------------------------------
(* A resolved or discarded incident keeps its status, unless the change    *)
(* was checked against a status that another request replaced meanwhile.   *)
ClosedStaysClosed ==
    [][\A i \in DOMAIN incidents :
          _ALLOWED_TRANSITIONS[incidents[i].status] = {} =>
              \/ incidents'[i].status = incidents[i].status
              \/ incidents'[i].raced]_desk_vars
=============================================================================
