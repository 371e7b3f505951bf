---------------------------- MODULE SupportAgent ----------------------------
(***************************************************************************)
(* The support agent: one turn per POST /agent/query, run through the      *)
(* graph of data/pipelines/support_agent.py, with the session ledger of    *)
(* guardrails.py, which also holds the one pending memory proposal, and    *)
(* the entries and the audit log of memory_store.py.                       *)
(*                                                                         *)
(* One user, one session, one memory category.  Turns run in a thread      *)
(* pool over module-level dictionaries without a lock; a step of a turn    *)
(* makes one call that reads or writes them.  A question is the set of the *)
(* cues its regular expressions find, and the ticket it names.             *)
(***************************************************************************)
EXTENDS Rows, SequencesExt, FiniteSets

CONSTANTS
    Turns,         \* the threads that serve the agent
    Questions,     \* records [cues |-> a set of Cues, ref |-> a reference]
    NoRef,         \* a question that names no ticket
    Labels,        \* the ways locations are written
    SamePlace(_, _), \* locations_match
    Suggestions,   \* what the model may propose: [label, clean, poison]
    MaxAsked,      \* questions of one behaviour, at most
    MaxAges,       \* how often a TTL passes
    MaxAgentFaults \* nodes that raise, writes Redis refuses

Cues == {"blank", "injection", "recipe", "price", "payroll", "personal", "smalltalk", "continues",
         "indomain", "refuse", "edit", "approve", "asks", "secret", "ticket", "rag"}

ASSUME SupportAgentAssumption ==
    /\ {MaxAsked, MaxAges, MaxAgentFaults} \subseteq Nat
    /\ \A a \in Labels : SamePlace(a, a)
    /\ NoRef \in STRING
    /\ Questions \subseteq [cues : SUBSET Cues, ref : STRING]
    /\ Suggestions \subseteq [label : Labels, clean : BOOLEAN, poison : BOOLEAN]

VARIABLES
    redis,    \* whether entries are kept in Redis or in the process
    ledger,   \* SESSION_GUARD of the session
    entries,  \* the memory entries in the order they were inserted
    audit,    \* the events that closed each proposal
    turn,     \* what each turn is doing
    made,     \* proposals so far
    writes,   \* memory writes so far
    raced,    \* proposals that two turns, or a turn and the TTL, met over
    asked, ages, agentFaults

agent_counts == <<asked, ages, agentFaults>>
agent_vars == <<redis, ledger, entries, audit, turn, made, writes, raced, asked, ages,
                agentFaults>>

NoProposal == 0
NoSuggestion == [label |-> "", clean |-> TRUE, poison |-> FALSE]

EmptySession == [there |-> FALSE, extraction |-> FALSE, pending |-> NoProposal,
                 what |-> NoSuggestion, stale |-> FALSE]

Rest == [pc |-> "idle", cues |-> {}, ref |-> NoRef, p |-> NoProposal, what |-> NoSuggestion,
         outcome |-> "none", row |-> 0, late |-> FALSE, route |-> "none", tool |-> "none",
         shown |-> NoProposal]

AtNode(t, node) == turn[t].pc = node
Moves(t, state) == turn' = [turn EXCEPT ![t] = state]
GoTo(t, node) == Moves(t, [turn[t] EXCEPT !.pc = node])

(***************************************************************************)
(* The session ledger.  Every access first purges sessions whose last      *)
(* ledger entry is older than SESSION_TTL_SECONDS; a proposal that was     *)
(* pending is then logged as rejected.                                     *)
(***************************************************************************)
Logged(log, p, outcome, cues) ==
    [log EXCEPT ![p] = Append(@, [outcome |-> outcome, refused |-> "refuse" \in cues])]

_purge_expired == IF ledger.stale THEN EmptySession ELSE ledger

_log_pending_ttl_reject ==
    IF ledger.stale /\ ledger.pending # NoProposal
    THEN Logged(audit, ledger.pending, "rejected", {})
    ELSE audit

\* The session as it is when its entry is made or written again.
_ensure_session == [_purge_expired EXCEPT !.there = TRUE, !.stale = FALSE]

set_pending_memory(p, what) ==
    ledger' = [_ensure_session EXCEPT !.pending = p, !.what = what]

record_guardrail(extraction) ==
    ledger' = [_ensure_session EXCEPT !.extraction = @ \/ extraction]

(***************************************************************************)
(* What a question is taken for, in the order the code asks.               *)
(***************************************************************************)
is_sensitive_extraction(cues) == cues \cap {"recipe", "price", "payroll"} # {}

classify_input(cues) ==
    IF "injection" \in cues THEN "security"
    ELSE IF is_sensitive_extraction(cues) THEN "extraction"
    ELSE IF {"personal", "smalltalk"} \cap cues # {} THEN "content"
    ELSE "pass"

is_extraction_continuation(cues) == "continues" \in cues /\ "indomain" \notin cues

\* A session that asked for what is confidential is refused its follow-ups.
apply_input_guard(cues) ==
    \/ classify_input(cues) # "pass"
    \/ is_extraction_continuation(cues) /\ _purge_expired.extraction

\* Mutant: the words of approval are looked for first.
ApprovalFirst(cues) ==
    IF "approve" \in cues THEN "approved"
    ELSE IF "refuse" \notin cues /\ "edit" \in cues THEN "edited"
    ELSE "rejected"

classify_memory_decision(cues) ==
    IF "refuse" \in cues THEN "rejected"
    ELSE IF "edit" \in cues THEN "edited"
    ELSE IF "approve" \in cues THEN "approved"
    ELSE "rejected"

_decide_route(cues) ==
    IF "ticket" \notin cues THEN "rag"
    ELSE IF "rag" \in cues THEN "both" ELSE "tool"

\* Besides deciding, the reply asks something.
Residual(cues) == "asks" \in cues

\* An edited summary is what the reply says; otherwise it is the proposal.
Poisoned(t) == IF classify_memory_decision(turn[t].cues) = "edited"
               THEN "secret" \in turn[t].cues
               ELSE turn[t].what.poison

-----------------------------------------------------------------------------
(* The nodes of the graph.                                                 *)

\* validate_question and input_guardrails.
Ask(t, q) ==
    /\ AtNode(t, "idle")
    /\ asked' = asked + 1
    /\ LET new == [Rest EXCEPT !.cues = q.cues, !.ref = q.ref]
       IN  \/ /\ "blank" \in q.cues
              /\ Moves(t, [new EXCEPT !.pc = "done"])
              /\ UNCHANGED <<ledger, audit>>
           \/ /\ "blank" \notin q.cues
              /\ apply_input_guard(q.cues)
              /\ record_guardrail(classify_input(q.cues) \in {"extraction", "pass"})
              /\ audit' = _log_pending_ttl_reject
              /\ Moves(t, [new EXCEPT !.pc = "output"])
           \/ /\ "blank" \notin q.cues
              /\ ~apply_input_guard(q.cues)
              /\ Moves(t, [new EXCEPT !.pc = "resolve"])
              /\ IF is_extraction_continuation(q.cues)
                 THEN ledger' = _purge_expired /\ audit' = _log_pending_ttl_reject
                 ELSE UNCHANGED <<ledger, audit>>
    /\ UNCHANGED <<redis, entries, made, writes, raced, ages, agentFaults>>

\* resolve_memory reads the pending proposal and decides what becomes of it.
resolve_memory(t) ==
    /\ AtNode(t, "resolve")
    /\ LET p == _purge_expired.pending
           decision == classify_memory_decision(turn[t].cues)
           holds == [turn[t] EXCEPT !.p = p, !.what = ledger.what]
       IN  /\ ledger' = _purge_expired
           /\ audit' = _log_pending_ttl_reject
           /\ IF p = NoProposal
              THEN GoTo(t, "route") /\ UNCHANGED raced
              ELSE /\ Moves(t, [holds EXCEPT !.pc = IF decision = "rejected" THEN "log"
                                                                            ELSE "write",
                                             !.outcome = decision])
                   /\ raced' = IF \E u \in Turns \ {t} : turn[u].p = p
                               THEN raced \cup {p} ELSE raced
    /\ UNCHANGED <<redis, entries, made, writes, agent_counts>>

(***************************************************************************)
(* write_memory, then consolidate_location: the row of the place that      *)
(* comes first is read, and written again if its white space needs it.     *)
(***************************************************************************)
Upserted(e) ==
    IF \A f \in ToSet(entries) : f.label # e.label
    THEN Append(entries, e)
    ELSE [k \in DOMAIN entries |-> IF entries[k].label = e.label THEN e ELSE entries[k]]

\* Others that have read the rows of this place are now out of date.
MovesPast(t, label, state) ==
    turn' = [u \in Turns |->
                CASE u = t -> state
                  [] u # t /\ turn[u].pc = "tidy" /\ SamePlace(turn[u].what.label, label)
                       -> [turn[u] EXCEPT !.late = TRUE]
                  [] OTHER -> turn[u]]

\* A write that is refused ends the turn, whatever else the reply asks.
WriteRefused(t) ==
    /\ AtNode(t, "write")
    /\ \/ Poisoned(t) /\ UNCHANGED agentFaults
       \/ /\ ~Poisoned(t)
          /\ redis /\ agentFaults < MaxAgentFaults
          /\ agentFaults' = agentFaults + 1
    /\ Moves(t, [turn[t] EXCEPT !.pc = "log", !.outcome = "rejected", !.cues = @ \ {"asks"}])
    /\ UNCHANGED <<redis, ledger, entries, audit, made, writes, raced, asked, ages>>

write_memory(t) ==
    /\ AtNode(t, "write")
    /\ ~Poisoned(t)
    /\ entries' = Upserted([label |-> turn[t].what.label, p |-> turn[t].p,
                            clean |-> turn[t].what.clean, poison |-> Poisoned(t),
                            at |-> writes + 1, old |-> FALSE])
    /\ writes' = writes + 1
    /\ MovesPast(t, turn[t].what.label, [turn[t] EXCEPT !.pc = "read"])
    /\ UNCHANGED <<redis, ledger, audit, made, raced, agent_counts>>

\* With Redis the key is given in full; in the process every row of the
\* place is found, in the order of insertion.  Rows past their TTL go.
Found(label) ==
    Where(entries, {e \in ToSet(entries) :
                      /\ ~e.old
                      /\ IF redis THEN e.label = label ELSE SamePlace(e.label, label)})

\* Mutant: what was expired is not asked.
WithoutPlace(label) ==
    Where(entries, {e \in ToSet(entries) : ~SamePlace(e.label, label)})

WithoutOld(label) ==
    Where(entries, {e \in ToSet(entries) : ~(e.old /\ SamePlace(e.label, label))})

read_memory(t) ==
    /\ AtNode(t, "read")
    /\ LET rows == Found(turn[t].what.label) IN
       /\ entries' = WithoutOld(turn[t].what.label)
       /\ Moves(t, IF rows = <<>> \/ Head(rows).clean
                   THEN [turn[t] EXCEPT !.pc = "log"]
                   ELSE [turn[t] EXCEPT !.pc = "tidy", !.row = Head(rows),
                                        !.late = Head(rows).label # turn[t].what.label])
    /\ UNCHANGED <<redis, ledger, audit, made, writes, raced, agent_counts>>

consolidate_location(t) ==
    /\ AtNode(t, "tidy")
    /\ entries' = Upserted([turn[t].row EXCEPT !.label = turn[t].what.label, !.clean = TRUE])
    /\ MovesPast(t, turn[t].what.label, [turn[t] EXCEPT !.pc = "log", !.row = 0])
    /\ UNCHANGED <<redis, ledger, audit, made, writes, raced, agent_counts>>

log_proposal_event(t) ==
    /\ AtNode(t, "log")
    /\ audit' = Logged(audit, turn[t].p, turn[t].outcome, turn[t].cues)
    /\ GoTo(t, "clear")
    /\ UNCHANGED <<redis, ledger, entries, made, writes, raced, agent_counts>>

\* Mutant: a rejected proposal stays pending.
ClearApproved(t) ==
    /\ AtNode(t, "clear")
    /\ IF turn[t].outcome = "rejected"
       THEN ledger' = _purge_expired /\ UNCHANGED raced
       ELSE /\ set_pending_memory(NoProposal, NoSuggestion)
            /\ raced' = IF ledger.pending = turn[t].p THEN raced ELSE raced \cup {ledger.pending}
    /\ audit' = _log_pending_ttl_reject
    /\ Moves(t, [turn[t] EXCEPT !.p = NoProposal, !.what = NoSuggestion, !.late = FALSE,
                                !.pc = IF Residual(turn[t].cues) THEN "route" ELSE "output"])
    /\ UNCHANGED <<redis, entries, made, writes, agent_counts>>

\* The reply is answered here unless it also asks something: then its
\* question goes on through the graph.
clear_pending_memory(t) ==
    /\ AtNode(t, "clear")
    /\ set_pending_memory(NoProposal, NoSuggestion)
    /\ audit' = _log_pending_ttl_reject
    /\ raced' = IF ledger.pending = turn[t].p THEN raced ELSE raced \cup {ledger.pending}
    /\ Moves(t, [turn[t] EXCEPT !.p = NoProposal, !.what = NoSuggestion, !.late = FALSE,
                                !.pc = IF Residual(turn[t].cues) THEN "route" ELSE "output"])
    /\ UNCHANGED <<redis, entries, made, writes, agent_counts>>

(***************************************************************************)
(* Answering.  The tool and the documents are asked; the model may propose *)
(* a memory whenever it was called.                                        *)
(***************************************************************************)
route_sources(t) ==
    /\ AtNode(t, "route")
    /\ LET route == _decide_route(turn[t].cues) IN
       Moves(t, [turn[t] EXCEPT !.route = route, !.outcome = "none",
                                !.pc = IF route = "rag" THEN "answer" ELSE "lookup"])
    /\ UNCHANGED <<redis, ledger, entries, audit, made, writes, raced, agent_counts>>

\* lookup_ticket_node asks the tool once, and takes what comes of it; the
\* call itself is another module's.
LookupBegins(t) ==
    /\ AtNode(t, "lookup") /\ turn[t].tool = "none"
    /\ Moves(t, [turn[t] EXCEPT !.tool = "asked"])
    /\ UNCHANGED <<redis, ledger, entries, audit, made, writes, raced, agent_counts>>

LookupEnds(t, found) ==
    /\ AtNode(t, "lookup")
    /\ Moves(t, [turn[t] EXCEPT !.tool = IF found THEN "found" ELSE "failed", !.pc = "answer"])
    /\ UNCHANGED <<redis, ledger, entries, audit, made, writes, raced, agent_counts>>

_memory_available_for_question ==
    \E k \in DOMAIN entries : ~entries[k].old

\* The model is called with documents, or on the documents' route with
\* memory alone; a ticket question without documents never gets there.
ModelCalled(t, documents) ==
    \/ turn[t].route # "tool" /\ documents
    \/ turn[t].route = "rag" /\ _memory_available_for_question

\* retrieve_context, then generate_answer_node, refuse_no_context or
\* compose_answer.  Where memory is read for a place the question names,
\* rows past their TTL go.
compose_answer(t, documents, reads, what) ==
    /\ AtNode(t, "answer")
    /\ entries' = IF reads /\ turn[t].route # "tool"
                  THEN Where(entries, {e \in ToSet(entries) : ~e.old}) ELSE entries
    /\ what = NoSuggestion \/ ModelCalled(t, documents)
    /\ Moves(t, [turn[t] EXCEPT !.what = what,
                                !.pc = IF what = NoSuggestion THEN "output" ELSE "attach"])
    /\ UNCHANGED <<redis, ledger, audit, made, writes, raced, agent_counts>>

\* A node raises: the caller of the graph answers with a refusal.
NodeRaises(t) ==
    /\ AtNode(t, "answer")
    /\ agentFaults < MaxAgentFaults
    /\ agentFaults' = agentFaults + 1
    /\ record_guardrail(FALSE)
    /\ audit' = _log_pending_ttl_reject
    /\ Moves(t, [Rest EXCEPT !.pc = "done"])
    /\ UNCHANGED <<redis, entries, made, writes, raced, asked, ages>>

\* attach_memory_proposal looks, and sets what it saw was free.
attach_memory_proposal(t) ==
    /\ AtNode(t, "attach")
    /\ ledger' = _purge_expired
    /\ audit' = _log_pending_ttl_reject
    /\ IF _purge_expired.pending # NoProposal \/ turn[t].what.poison
       THEN Moves(t, [turn[t] EXCEPT !.pc = "output", !.what = NoSuggestion])
       ELSE GoTo(t, "propose")
    /\ UNCHANGED <<redis, entries, made, writes, raced, agent_counts>>

Propose(t) ==
    /\ AtNode(t, "propose")
    /\ made' = made + 1
    /\ set_pending_memory(made', turn[t].what)
    /\ audit' = Append(_log_pending_ttl_reject, <<>>)
    /\ raced' = raced \cup {_purge_expired.pending}
    /\ Moves(t, [turn[t] EXCEPT !.pc = "output", !.what = NoSuggestion, !.shown = made'])
    /\ UNCHANGED <<redis, entries, writes, agent_counts>>

\* output_guardrails; an answer it blocks is counted in the ledger.
output_guardrails(t, blocked) ==
    /\ AtNode(t, "output")
    /\ IF blocked
       THEN record_guardrail(FALSE) /\ audit' = _log_pending_ttl_reject
       ELSE UNCHANGED <<ledger, audit>>
    /\ GoTo(t, "done")
    /\ UNCHANGED <<redis, entries, made, writes, raced, agent_counts>>

Answered(t) ==
    /\ AtNode(t, "done")
    /\ Moves(t, Rest)
    /\ UNCHANGED <<redis, ledger, entries, audit, made, writes, raced, agent_counts>>

(***************************************************************************)
(* Time.                                                                   *)
(***************************************************************************)
SessionAges ==
    /\ ledger.there /\ ~ledger.stale
    /\ ages < MaxAges /\ ages' = ages + 1
    /\ ledger' = [ledger EXCEPT !.stale = TRUE]
    /\ raced' = IF \E t \in Turns : turn[t].p = ledger.pending
                THEN raced \cup {ledger.pending} ELSE raced
    /\ UNCHANGED <<redis, entries, audit, turn, made, writes, asked, agentFaults>>

EntryAges ==
    /\ ages < MaxAges /\ ages' = ages + 1
    /\ \E k \in DOMAIN entries :
          /\ ~entries[k].old
          /\ entries' = [entries EXCEPT ![k].old = TRUE]
    /\ UNCHANGED <<redis, ledger, audit, turn, made, writes, raced, asked, agentFaults>>

-----------------------------------------------------------------------------
AgentInit ==
    /\ redis \in BOOLEAN
    /\ ledger = EmptySession
    /\ entries = <<>>
    /\ audit = <<>>
    /\ turn = [t \in Turns |-> Rest]
    /\ made = 0 /\ writes = 0 /\ raced = {}
    /\ asked = 0 /\ ages = 0 /\ agentFaults = 0

\* Every step of a turn but the question and the lookup of a ticket.
TurnStep(t, suggestions) ==
    \/ resolve_memory(t) \/ WriteRefused(t) \/ write_memory(t) \/ read_memory(t)
    \/ consolidate_location(t) \/ log_proposal_event(t) \/ clear_pending_memory(t)
    \/ route_sources(t)
    \/ \E documents, reads \in BOOLEAN, what \in suggestions \cup {NoSuggestion} :
           compose_answer(t, documents, reads, what)
    \/ NodeRaises(t) \/ attach_memory_proposal(t) \/ Propose(t)
    \/ \E blocked \in BOOLEAN : output_guardrails(t, blocked)
    \/ Answered(t)

-----------------------------------------------------------------------------
Held(p) == \E t \in Turns : turn[t].p = p

(* A proposal that was made is pending, or it was closed once: approved,   *)
(* edited, rejected by the user or by the TTL.  Nothing else may happen to *)
(* it unless two turns of the session, or a turn and the TTL, met over it. *)
ProposalsAccounted ==
    \A p \in 1..made \ raced :
        \/ audit[p] = <<>> /\ ledger.pending = p
        \/ Len(audit[p]) = 1 /\ (ledger.pending # p \/ Held(p))

(* What is remembered was approved, or put in words by the user, in a      *)
(* reply that does not refuse to store it, and is nothing that must never  *)
(* be stored.                                                              *)
MemoryIsApproved ==
    \A e \in ToSet(entries) :
        /\ ~e.poison
        /\ \/ \E k \in DOMAIN audit[e.p] :
                 audit[e.p][k].outcome # "rejected" /\ ~audit[e.p][k].refused
           \/ \E t \in Turns : turn[t].p = e.p /\ "refuse" \notin turn[t].cues

(* The memory of a location changes only to a newer approval: it is not    *)
(* lost and does not fall back, unless consolidation writes a row back     *)
(* that was written over meanwhile or stands under another label.          *)
MemoryKeepsUp ==
    [][\A e \in ToSet(entries) :
          \/ e.old
          \/ \E f \in ToSet(entries') : f.label = e.label /\ f.at >= e.at
          \/ \E t \in Turns : turn[t].pc = "tidy" /\ turn[t].late]_agent_vars
=============================================================================
