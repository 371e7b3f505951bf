--------------------------- MODULE AssistantProofs ---------------------------
(***************************************************************************)
(* For every number of turns, questions, callers, tokens and incidents: a  *)
(* proposal is closed once, what is remembered was approved and does not   *)
(* fall back, no good token is dropped, a closed incident stays closed,    *)
(* and what a turn tells of a ticket was true while it asked.              *)
(*                                                                         *)
(* The agent, the token cache, the incident desk and the lookups have an   *)
(* invariant each; a step of the assistant is a step of some of them, and  *)
(* leaves the others.                                                      *)
(***************************************************************************)
EXTENDS Assistant, RowsProofs, TLAPS

-----------------------------------------------------------------------------
(* The agent: its state.                                                   *)

Whats == Suggestions \cup {NoSuggestion}
Outcomes == {"none", "approved", "edited", "rejected"}
Entry == [label : Labels, p : Nat, clean : BOOLEAN, poison : BOOLEAN, at : Nat, old : BOOLEAN]
Event == [outcome : Outcomes, refused : BOOLEAN]

\* The nodes between the reading of a proposal and its clearing.
Closing == {"write", "read", "tidy", "log", "clear"}

Turn == [pc : Closing \cup {"idle", "resolve", "route", "lookup", "answer", "attach",
                            "propose", "output", "done"},
         cues : SUBSET Cues, ref : STRING, p : Nat, what : Whats, outcome : Outcomes,
         row : Entry \cup {0}, late : BOOLEAN, route : {"none", "both", "tool", "rag"},
         tool : {"none", "asked", "found", "failed"}, shown : Nat]
Session == [there : BOOLEAN, extraction : BOOLEAN, pending : Nat, what : Whats,
            stale : BOOLEAN]

AgentTypes ==
    /\ redis \in BOOLEAN
    /\ ledger \in Session
    /\ entries \in Seq(Entry)
    /\ audit \in Seq(Seq(Event))
    /\ turn \in [Turns -> Turn]
    /\ made = Len(audit)
    /\ writes \in Nat

\* What a turn holds at each node.
HoldsAt(q) ==
    /\ q.p \in 0..made
    /\ q.p # 0 <=> q.pc \in Closing
    /\ q.pc \in Closing \cup {"attach", "propose"} => q.what \in Suggestions
    /\ q.pc \in {"write", "read", "tidy"} => q.outcome # "rejected"
    /\ q.pc \in Closing /\ q.outcome # "rejected" => "refuse" \notin q.cues
    /\ q.pc = "tidy" => q.row \in Entry

Holding ==
    /\ ledger.pending \in 0..made
    /\ ledger.pending # 0 => ledger.what \in Suggestions
    /\ \A t \in Turns : HoldsAt(turn[t])

\* The audit log has it that p was approved, or the turn that wrote it is
\* about to say so.
Approved(p) ==
    \E k \in DOMAIN audit[p] : audit[p][k].outcome # "rejected" /\ ~audit[p][k].refused
Vouches(t, p) ==
    turn[t].p = p /\ turn[t].pc \in {"read", "tidy", "log"} /\ turn[t].outcome # "rejected"
Justified(p) == p \in 1..made /\ (Approved(p) \/ \E t \in Turns : Vouches(t, p))

Good(e) == ~e.poison /\ Justified(e.p)
MemoryGood ==
    /\ \A k \in DOMAIN entries : Good(entries[k])
    /\ \A t \in Turns : AtNode(t, "tidy") => Good(turn[t].row)

\* A proposal over which nobody met: one turn at most holds it, while it is
\* pending, and the log has closed it once, or not yet.
ClosedBy(p, log, pending, stale) ==
    /\ \A t, u \in Turns : turn[t].p = p /\ turn[u].p = p => t = u
    /\ \A t \in Turns : turn[t].p = p => pending = p /\ ~stale
    /\ Len(log[p]) = IF \/ pending # p
                        \/ \E t \in Turns : turn[t].p = p /\ AtNode(t, "clear")
                     THEN 1 ELSE 0
ClosedOnce ==
    \A p \in 1..made \ raced : ClosedBy(p, audit, ledger.pending, ledger.stale)

\* One entry of a label, none newer than the last write; and a row that is
\* being tidied, and is not late, is as new as its entry.
Ordered(rows) ==
    /\ \A k \in DOMAIN rows : rows[k].at <= writes
    /\ \A k, l \in DOMAIN rows : rows[k].label = rows[l].label => k = l
KeepsUp(q, rows) ==
    q.pc = "tidy" =>
        /\ q.row.at <= writes
        /\ ~q.late => \A k \in DOMAIN rows :
                         rows[k].label = q.what.label => rows[k].at <= q.row.at
KeptUp == Ordered(entries) /\ \A t \in Turns : KeepsUp(turn[t], entries)

AgentInv == AgentTypes /\ Holding /\ MemoryGood /\ ClosedOnce /\ KeptUp

-----------------------------------------------------------------------------
(* The agent: the ledger and the log.                                      *)

\* What logging an event for p makes of a log.
OneMore(new, log, p, outcome, cues) ==
    /\ new \in Seq(Seq(Event)) /\ Len(new) = Len(log)
    /\ \A q \in 1..Len(log) : q # p => new[q] = log[q]
    /\ Len(log[p]) \in Nat /\ Len(new[p]) = Len(log[p]) + 1
    /\ \A k \in 1..Len(log[p]) : new[p][k] = log[p][k]
    /\ new[p][Len(log[p]) + 1].outcome = outcome
    /\ new[p][Len(log[p]) + 1].refused <=> "refuse" \in cues

LEMMA LoggedAs ==
  ASSUME NEW log \in Seq(Seq(Event)), NEW p \in 1..Len(log), NEW outcome \in Outcomes,
         NEW cues
  PROVE  OneMore(Logged(log, p, outcome, cues), log, p, outcome, cues)
<1> DEFINE new == Logged(log, p, outcome, cues)
           refused == "refuse" \in cues
           event == [outcome |-> outcome, refused |-> refused]
<1>1. refused \in BOOLEAN
  OBVIOUS
<1>2. new = [log EXCEPT ![p] = Append(@, event)]
  BY DEF Logged
<1> HIDE DEF refused, new
<1>3. event \in Event /\ event.outcome = outcome /\ event.refused = refused
  BY <1>1 DEF Event
<1> HIDE DEF event
<1>4. log[p] \in Seq(Event)
  OBVIOUS
<1> DEFINE more == Append(log[p], event)
<1>5. /\ more \in Seq(Event) /\ Len(log[p]) \in Nat /\ Len(more) = Len(log[p]) + 1
      /\ more[Len(log[p]) + 1] = event
      /\ \A k \in 1..Len(log[p]) : more[k] = log[p][k]
  BY <1>3, <1>4
<1>6. new = [log EXCEPT ![p] = more]
  BY <1>2
<1> HIDE DEF more
<1>7. new \in Seq(Seq(Event)) /\ Len(new) = Len(log) /\ new[p] = more
      /\ \A q \in 1..Len(log) : q # p => new[q] = log[q]
  BY <1>5, <1>6
<1>8. event.refused <=> "refuse" \in cues
  BY <1>3 DEF refused
<1>9. OneMore(new, log, p, outcome, cues)
  BY <1>3, <1>5, <1>7, <1>8 DEF OneMore
<1> QED
  BY <1>9 DEF new

\* A log that has another log's events, and maybe more of them.
Extends(new, old) ==
    /\ new \in Seq(Seq(Event)) /\ Len(old) <= Len(new)
    /\ \A p \in 1..Len(old) :
          /\ Len(old[p]) \in Nat /\ Len(new[p]) \in Nat /\ Len(old[p]) <= Len(new[p])
          /\ \A k \in 1..Len(old[p]) : new[p][k] = old[p][k]

\* What an access to the ledger finds, after the purge.
LEMMA Purge ==
  ASSUME AgentTypes, Holding
  PROVE  /\ _purge_expired \in Session /\ _purge_expired.stale = FALSE
         /\ _purge_expired.pending \in {0, ledger.pending}
         /\ _purge_expired.pending # 0 => _purge_expired = ledger
         /\ ~ledger.stale => _purge_expired = ledger
         /\ ledger.stale => _purge_expired.pending = 0
         /\ _ensure_session \in Session /\ _ensure_session.stale = FALSE
         /\ _ensure_session.pending = _purge_expired.pending
         /\ _ensure_session.what = _purge_expired.what
<1>1. EmptySession \in Session /\ EmptySession.stale = FALSE /\ EmptySession.pending = 0
  BY DEF EmptySession, Session, NoProposal, Whats
<1>2. ledger \in Session /\ ledger.stale \in BOOLEAN
  BY DEF AgentTypes, Session
<1>3. /\ _purge_expired \in Session /\ _purge_expired.stale = FALSE
      /\ _purge_expired.pending \in {0, ledger.pending}
      /\ _purge_expired.pending # 0 => _purge_expired = ledger
      /\ ~ledger.stale => _purge_expired = ledger
      /\ ledger.stale => _purge_expired.pending = 0
  BY <1>1, <1>2 DEF _purge_expired
<1> DEFINE s == _purge_expired
<1>4. s \in Session
  BY <1>3
<1> HIDE DEF s
<1>5. [s EXCEPT !.there = TRUE, !.stale = FALSE] \in Session
  BY <1>4 DEF Session
<1>6. /\ [s EXCEPT !.there = TRUE, !.stale = FALSE].stale = FALSE
      /\ [s EXCEPT !.there = TRUE, !.stale = FALSE].pending = s.pending
      /\ [s EXCEPT !.there = TRUE, !.stale = FALSE].what = s.what
  BY <1>4 DEF Session
<1> QED
  BY <1>3, <1>5, <1>6 DEF _ensure_session, s

LEMMA PurgedLog ==
  ASSUME AgentTypes, Holding
  PROVE  /\ Extends(_log_pending_ttl_reject, audit)
         /\ Len(_log_pending_ttl_reject) = Len(audit)
         /\ \A p \in 1..made :
               /\ Len(audit[p]) \in Nat
               /\ Len(_log_pending_ttl_reject[p]) =
                     IF ledger.stale /\ ledger.pending = p THEN Len(audit[p]) + 1
                                                           ELSE Len(audit[p])
<1>1. audit \in Seq(Seq(Event)) /\ \A p \in 1..made : Len(audit[p]) \in Nat
  BY DEF AgentTypes
<1>2. CASE ledger.stale /\ ledger.pending # 0
  <2> DEFINE new == _log_pending_ttl_reject
             q == ledger.pending
             outcome == "rejected"
             cues == {}
  <2>1. q \in 1..Len(audit)
    BY <1>2 DEF Holding, AgentTypes
  <2>2. new = Logged(audit, q, outcome, cues)
    BY <1>2 DEF _log_pending_ttl_reject, NoProposal
  <2>3. outcome \in Outcomes
    BY DEF Outcomes
  <2> HIDE DEF new, q, outcome, cues
  <2>4. /\ new \in Seq(Seq(Event)) /\ Len(new) = Len(audit)
        /\ \A p \in 1..Len(audit) : p # q => new[p] = audit[p]
        /\ Len(audit[q]) \in Nat /\ Len(new[q]) = Len(audit[q]) + 1
        /\ \A k \in 1..Len(audit[q]) : new[q][k] = audit[q][k]
    <3>1. audit \in Seq(Seq(Event))
      BY <1>1
    <3>2. OneMore(Logged(audit, q, outcome, cues), audit, q, outcome, cues)
      BY <2>1, <2>3, <3>1, LoggedAs
    <3> QED
      BY <3>2, <2>2 DEF OneMore
  <2>5. Extends(new, audit)
    <3>1. made = Len(audit) /\ Len(audit) \in Nat
      BY <1>1 DEF AgentTypes
    <3>2. ASSUME NEW p \in 1..Len(audit)
          PROVE  /\ Len(audit[p]) \in Nat /\ Len(new[p]) \in Nat
                 /\ Len(audit[p]) <= Len(new[p])
                 /\ \A k \in 1..Len(audit[p]) : new[p][k] = audit[p][k]
      <4>1. Len(audit[p]) \in Nat
        BY <1>1, <3>1
      <4>2. CASE p = q
        BY <2>4, <4>2
      <4>3. CASE p # q
        BY <2>4, <4>1, <4>3
      <4> QED
        BY <4>2, <4>3
    <3> QED
      BY <2>4, <3>1, <3>2 DEF Extends
  <2> QED
    BY <1>1, <1>2, <2>4, <2>5 DEF new, q, AgentTypes
<1>3. CASE ~(ledger.stale /\ ledger.pending # 0)
  <2>1. _log_pending_ttl_reject = audit
    BY <1>3 DEF _log_pending_ttl_reject, NoProposal
  <2>2. \A p \in 1..made : ~(ledger.stale /\ ledger.pending = p)
    BY <1>1, <1>3 DEF AgentTypes
  <2>3. Extends(audit, audit)
    BY <1>1 DEF Extends, AgentTypes
  <2> QED
    BY <1>1, <2>1, <2>2, <2>3
<1> QED
  BY <1>2, <1>3

\* The purge closes a proposal that nobody holds, and no other.
LEMMA PurgeCloses ==
  ASSUME AgentTypes, Holding, ClosedOnce, NEW p \in 1..made \ raced
  PROVE  ClosedBy(p, _log_pending_ttl_reject, _purge_expired.pending, FALSE)
<1>1. ClosedBy(p, audit, ledger.pending, ledger.stale)
  BY DEF ClosedOnce
<1>2. Len(_log_pending_ttl_reject[p]) =
         IF ledger.stale /\ ledger.pending = p THEN Len(audit[p]) + 1 ELSE Len(audit[p])
  BY PurgedLog
<1>3. p # 0
  BY DEF AgentTypes
<1>4. CASE ledger.stale /\ ledger.pending = p
  BY <1>1, <1>2, <1>3, <1>4, Purge DEF ClosedBy
<1>5. CASE ledger.stale /\ ledger.pending # p
  BY <1>1, <1>2, <1>3, <1>5, Purge DEF ClosedBy
<1>6. CASE ~ledger.stale
  BY <1>1, <1>2, <1>6, Purge DEF ClosedBy
<1> QED
  BY <1>4, <1>5, <1>6

\* An access that leaves the proposal as it is.
Purges ==
    /\ ledger' \in Session /\ ledger'.stale = FALSE
    /\ ledger'.pending = _purge_expired.pending
    /\ ledger'.what = _purge_expired.what
    /\ audit' = _log_pending_ttl_reject

LEMMA JustPurges ==
  ASSUME AgentTypes, Holding, ledger' = _purge_expired, audit' = _log_pending_ttl_reject
  PROVE  Purges
BY Purge DEF Purges

LEMMA GuardrailPurges ==
  ASSUME AgentTypes, Holding, NEW extraction \in BOOLEAN, record_guardrail(extraction),
         audit' = _log_pending_ttl_reject
  PROVE  Purges
<1> DEFINE s == _ensure_session
           x == s.extraction \/ extraction
<1>1. s \in Session /\ s.stale = FALSE /\ s.pending = _purge_expired.pending
      /\ s.what = _purge_expired.what
  BY Purge
<1>2. x \in BOOLEAN
  OBVIOUS
<1>3. ledger' = [s EXCEPT !.extraction = x]
  BY DEF record_guardrail
<1> HIDE DEF s, x
<1> QED
  BY <1>1, <1>2, <1>3 DEF Purges, Session

-----------------------------------------------------------------------------
(* The agent: what steps have in common.                                   *)

\* The memory stays good where nobody stops vouching for a proposal before
\* the log has it.
LEMMA StaysJustified ==
  ASSUME AgentTypes, AgentTypes', Extends(audit', audit),
         \A t \in Turns : \A p \in 1..made : Vouches(t, p) => Vouches(t, p)' \/ Approved(p)'
  PROVE  \A p : Justified(p) => Justified(p)'
<1> SUFFICES ASSUME NEW p, Justified(p) PROVE Justified(p)'
  OBVIOUS
<1>1. p \in 1..made /\ p \in 1..made'
  BY DEF Justified, Extends, AgentTypes
<1>2. ASSUME Approved(p) PROVE Approved(p)'
  <2>1. PICK k \in DOMAIN audit[p] : audit[p][k].outcome # "rejected" /\ ~audit[p][k].refused
    BY <1>2 DEF Approved
  <2>2. /\ audit[p] \in Seq(Event) /\ audit'[p] \in Seq(Event)
        /\ Len(audit[p]) <= Len(audit'[p])
        /\ \A i \in 1..Len(audit[p]) : audit'[p][i] = audit[p][i]
    BY <1>1 DEF AgentTypes, Extends
  <2>3. k \in DOMAIN audit'[p] /\ audit'[p][k] = audit[p][k]
    BY <2>1, <2>2
  <2> QED
    BY <2>1, <2>3 DEF Approved
<1> QED
  BY <1>1, <1>2 DEF Justified

LEMMA LogSame == ASSUME AgentTypes, audit' = audit PROVE Extends(audit', audit)
BY DEF AgentTypes, Extends

\* A step of one turn outside the nodes that close a proposal.
Quiet(t) ==
    /\ \A u \in Turns \ {t} : turn'[u] = turn[u]
    /\ turn[t].pc \notin Closing /\ turn'[t].pc \notin Closing
    /\ turn'[t].p = 0
    /\ turn'[t].pc \in {"attach", "propose"} => turn'[t].what \in Suggestions

\* Rows are taken out of the memory, or none.
Thinned == \E keep : entries' = Where(entries, keep)

LEMMA ThinnedRows ==
  ASSUME AgentTypes, Thinned
  PROVE  /\ entries' \in Seq(Entry)
         /\ \A k \in DOMAIN entries' : \E i \in DOMAIN entries : entries'[k] = entries[i]
         /\ Ordered(entries) /\ UNCHANGED writes => Ordered(entries)'
<1>1. PICK keep : entries' = Where(entries, keep)
  BY DEF Thinned
<1> DEFINE new == Where(entries, keep)
<1>2. entries \in Seq(Entry)
  BY DEF AgentTypes
<1>3. /\ new \in Seq(Entry)
      /\ \E at \in [1..Len(new) -> 1..Len(entries)] :
            /\ \A i \in 1..Len(new) : new[i] = entries[at[i]]
            /\ \A i, j \in 1..Len(new) : i < j => at[i] < at[j]
  BY <1>2, WhereKeeps
<1>4. entries' = new
  BY <1>1
<1> HIDE DEF new
<1>5. PICK at \in [1..Len(new) -> 1..Len(entries)] :
            /\ \A i \in 1..Len(new) : new[i] = entries[at[i]]
            /\ \A i, j \in 1..Len(new) : i < j => at[i] < at[j]
  BY <1>3
<1>6. DOMAIN new = 1..Len(new) /\ DOMAIN entries = 1..Len(entries) /\ Len(new) \in Nat
      /\ Len(entries) \in Nat
  BY <1>2, <1>3
<1>7. \A i, j \in 1..Len(new) : i # j => at[i] # at[j]
  <2> SUFFICES ASSUME NEW i \in 1..Len(new), NEW j \in 1..Len(new), i # j
               PROVE  at[i] # at[j]
    OBVIOUS
  <2>1. i < j \/ j < i
    BY <1>6
  <2>2. at[i] \in Nat /\ at[j] \in Nat
    BY <1>5, <1>6
  <2> QED
    BY <1>5, <2>1, <2>2
<1>8. \A k \in DOMAIN new : \E i \in DOMAIN entries : new[k] = entries[i]
  BY <1>5, <1>6
<1>9. ASSUME Ordered(entries), writes' = writes
      PROVE  Ordered(entries)'
  <2>1. \A k \in DOMAIN new : new[k].at <= writes
    BY <1>8, <1>9 DEF Ordered
  <2>2. \A k, l \in DOMAIN new : new[k].label = new[l].label => k = l
    BY <1>5, <1>6, <1>7, <1>9 DEF Ordered
  <2> QED
    BY <1>4, <1>9, <2>1, <2>2 DEF Ordered
<1> QED
  BY <1>3, <1>4, <1>8, <1>9

LEMMA QuietKeeps ==
  ASSUME AgentInv, AgentTypes', NEW t \in Turns, Quiet(t),
         Purges \/ UNCHANGED <<ledger, audit>>, Thinned \/ UNCHANGED entries,
         UNCHANGED <<made, writes, raced>>
  PROVE  AgentInv'
<1> USE DEF AgentInv
<1>1. Extends(audit', audit)
  BY PurgedLog, LogSame DEF Purges
<1>2. turn[t].p = 0
  BY DEF Holding, HoldsAt, Quiet
<1>3. \A u \in Turns : u # t => turn'[u] = turn[u]
  BY DEF Quiet
<1>4. /\ \A k \in DOMAIN entries' : \E i \in DOMAIN entries : entries'[k] = entries[i]
      /\ Ordered(entries)'
  BY ThinnedRows DEF KeptUp, Ordered
<1>5. Holding'
  <2>1. ledger'.pending \in 0..made' /\ (ledger'.pending # 0 => ledger'.what \in Suggestions)
    <3>1. CASE UNCHANGED <<ledger, audit>>
      BY <3>1 DEF Holding
    <3>2. CASE Purges
      <4>1. ledger'.pending = _purge_expired.pending /\ ledger'.what = _purge_expired.what
        BY <3>2 DEF Purges
      <4>2. \/ _purge_expired.pending = 0
            \/ _purge_expired.pending = ledger.pending /\ _purge_expired.what = ledger.what
        BY Purge
      <4>3. made \in Nat /\ made' = made
        BY DEF AgentTypes
      <4> QED
        BY <4>1, <4>2, <4>3 DEF Holding
    <3> QED
      BY <3>1, <3>2
  <2>2. \A u \in Turns : HoldsAt(turn[u])'
    <3>1. HoldsAt(turn[t])'
      BY DEF HoldsAt, Quiet, AgentTypes, Closing
    <3>2. ASSUME NEW u \in Turns, u # t PROVE HoldsAt(turn[u])'
      BY <1>3, <3>2 DEF Holding, HoldsAt
    <3> QED
      BY <3>1, <3>2
  <2> QED
    BY <2>1, <2>2 DEF Holding
<1>6. MemoryGood'
  <2>1. \A u \in Turns : \A p \in 1..made : Vouches(u, p) => Vouches(u, p)'
    BY <1>2, <1>3 DEF Vouches
  <2>2. \A p : Justified(p) => Justified(p)'
    BY <1>1, <2>1, StaysJustified
  <2>3. \A u \in Turns : AtNode(u, "tidy")' => AtNode(u, "tidy") /\ turn'[u] = turn[u]
    BY <1>3 DEF AtNode, Quiet, Closing
  <2> QED
    BY <1>4, <2>2, <2>3 DEF MemoryGood, Good
<1>7. ClosedOnce'
  <2> SUFFICES ASSUME NEW p \in 1..made \ raced
               PROVE  ClosedBy(p, audit, ledger.pending, ledger.stale)'
    BY DEF ClosedOnce
  <2>1. ClosedBy(p, audit', ledger'.pending, ledger'.stale)
    BY PurgeCloses DEF ClosedOnce, Purges
  <2>2. \A u \in Turns : turn'[u].p = turn[u].p /\ (turn[u].p = p => turn'[u] = turn[u])
    <3>1. p # 0
      BY DEF AgentTypes
    <3> QED
      BY <1>2, <1>3, <3>1 DEF Quiet
  <2> QED
    BY <2>1, <2>2 DEF ClosedBy, AtNode
<1>8. KeptUp'
  <2>1. KeepsUp(turn[t], entries)'
    BY DEF KeepsUp, Quiet, Closing
  <2>2. ASSUME NEW u \in Turns, u # t PROVE KeepsUp(turn[u], entries)'
    BY <1>3, <1>4, <2>2 DEF KeptUp, KeepsUp
  <2> QED
    BY <1>4, <2>1, <2>2 DEF KeptUp
<1> QED
  BY <1>5, <1>6, <1>7, <1>8

LEMMA Moved ==
  ASSUME AgentTypes, NEW t \in Turns, NEW state \in Turn, Moves(t, state)
  PROVE  /\ turn' \in [Turns -> Turn] /\ turn'[t] = state
         /\ \A u \in Turns : u # t => turn'[u] = turn[u]
BY DEF AgentTypes, Moves

LEMMA RestTyped == Rest \in Turn /\ Rest.pc = "idle" /\ Rest.p = 0
BY SupportAgentAssumption DEF Rest, Turn, NoProposal, Outcomes, Whats

LEMMA QuietMoves ==
  ASSUME AgentInv, NEW t \in Turns, NEW state \in Turn, Moves(t, state),
         turn[t].pc \notin Closing, state.pc \notin Closing, state.p = 0,
         state.pc \in {"attach", "propose"} => state.what \in Suggestions,
         Purges \/ UNCHANGED <<ledger, audit>>, Thinned \/ UNCHANGED entries,
         UNCHANGED <<redis, made, writes, raced>>
  PROVE  AgentInv'
<1>1. AgentTypes /\ Holding
  BY DEF AgentInv
<1>2. Quiet(t) /\ turn' \in [Turns -> Turn]
  BY <1>1, Moved DEF Quiet
<1>3. ledger' \in Session /\ audit' \in Seq(Seq(Event)) /\ Len(audit') = Len(audit)
  BY <1>1, PurgedLog DEF Purges, AgentTypes, Extends
<1>4. entries' \in Seq(Entry)
  BY <1>1, ThinnedRows DEF AgentTypes
<1>5. AgentTypes'
  BY <1>1, <1>2, <1>3, <1>4 DEF AgentTypes
<1> QED
  BY <1>2, <1>5, QuietKeeps

-----------------------------------------------------------------------------
(* The agent: asking and answering.                                        *)

LEMMA AskKeeps ==
  ASSUME AgentInv, NEW t \in Turns, NEW q \in Questions, Ask(t, q)
  PROVE  AgentInv'
<1> DEFINE new == [Rest EXCEPT !.cues = q.cues, !.ref = q.ref]
<1>1. AgentTypes /\ Holding
  BY DEF AgentInv
<1>2. q.cues \in SUBSET Cues /\ q.ref \in STRING
  BY SupportAgentAssumption
<1> DEFINE rest == Rest
           state(pc) == [rest EXCEPT !.cues = q.cues, !.ref = q.ref, !.pc = pc]
<1>3. rest \in Turn /\ rest.p = 0
  BY RestTyped
<1> HIDE DEF rest
<1>4. \A pc \in {"done", "output", "resolve"} :
         state(pc) \in Turn /\ state(pc).pc = pc /\ state(pc).p = 0
  BY <1>2, <1>3 DEF Turn
<1> HIDE DEF state
<1>5. \E pc \in {"done", "output", "resolve"} : Moves(t, state(pc))
  <2>1. \E pc \in {"done", "output", "resolve"} : Moves(t, [new EXCEPT !.pc = pc])
    BY DEF Ask
  <2> QED
    BY <2>1 DEF state, rest
<1>6. Purges \/ UNCHANGED <<ledger, audit>>
  <2>1. \/ UNCHANGED <<ledger, audit>>
        \/ /\ record_guardrail(classify_input(q.cues) \in {"extraction", "pass"})
           /\ audit' = _log_pending_ttl_reject
        \/ ledger' = _purge_expired /\ audit' = _log_pending_ttl_reject
    BY DEF Ask
  <2>2. (classify_input(q.cues) \in {"extraction", "pass"}) \in BOOLEAN
    OBVIOUS
  <2> QED
    BY <1>1, <2>1, <2>2, GuardrailPurges, JustPurges
<1>7. turn[t].pc = "idle" /\ UNCHANGED <<redis, entries, made, writes, raced>>
  BY DEF Ask, AtNode
<1>8. PICK pc \in {"done", "output", "resolve"} : Moves(t, state(pc))
  BY <1>5
<1> QED
  BY <1>4, <1>6, <1>7, <1>8, QuietMoves DEF Closing

LEMMA RouteKeeps ==
  ASSUME AgentInv, NEW t \in Turns, route_sources(t)
  PROVE  AgentInv'
<1>1. AgentTypes /\ turn[t] \in Turn /\ turn[t].pc = "route" /\ turn[t].p = 0
  BY DEF AgentInv, AgentTypes, Holding, HoldsAt, Closing, route_sources, AtNode
<1> DEFINE route == _decide_route(turn[t].cues)
           q == turn[t]
           pc == IF route = "rag" THEN "answer" ELSE "lookup"
           state == [q EXCEPT !.route = route, !.outcome = "none", !.pc = pc]
<1>2. Moves(t, state) /\ UNCHANGED <<redis, ledger, entries, audit, made, writes, raced>>
  BY DEF route_sources
<1>3. route \in {"both", "tool", "rag"} /\ pc \in {"answer", "lookup"}
  BY DEF _decide_route
<1>4. q \in Turn /\ q.p = 0
  BY <1>1
<1> HIDE DEF q, route, pc
<1>5. state \in Turn /\ state.pc = pc /\ state.p = 0
  BY <1>3, <1>4 DEF Turn, Outcomes
<1> HIDE DEF state
<1> QED
  BY <1>1, <1>2, <1>3, <1>5, QuietMoves DEF Closing

\* A turn that only goes on to another node.
LEMMA GoesOn ==
  ASSUME AgentTypes, NEW t \in Turns, NEW pc, NEW state,
         pc \in Closing \cup {"idle", "resolve", "route", "lookup", "answer", "attach",
                              "propose", "output", "done"},
         state = [turn[t] EXCEPT !.pc = pc]
  PROVE  /\ state \in Turn /\ state.pc = pc
         /\ \A f \in {"p", "what", "outcome", "row", "late", "cues", "tool", "ref"} :
               state[f] = turn[t][f]
<1> DEFINE q == turn[t]
<1>1. q \in Turn
  BY DEF AgentTypes
<1> HIDE DEF q
<1> QED
  BY <1>1 DEF Turn, q

LEMMA LookupKeeps ==
  ASSUME AgentInv, NEW t \in Turns,
         LookupBegins(t) \/ \E found \in BOOLEAN : LookupEnds(t, found)
  PROVE  AgentInv'
<1>1. AgentTypes /\ turn[t] \in Turn /\ turn[t].pc = "lookup" /\ turn[t].p = 0
  BY DEF AgentInv, AgentTypes, Holding, HoldsAt, Closing, LookupBegins, LookupEnds, AtNode
<1> DEFINE q == turn[t]
           state(tool, pc) == [q EXCEPT !.tool = tool, !.pc = pc]
<1>2. UNCHANGED <<redis, ledger, entries, audit, made, writes, raced>>
  BY DEF LookupBegins, LookupEnds
<1>3. \E tool \in {"asked", "found", "failed"}, pc \in {"lookup", "answer"} :
         Moves(t, state(tool, pc))
  <2>1. CASE LookupBegins(t)
    <3>1. [turn[t] EXCEPT !.tool = "asked"] = [turn[t] EXCEPT !.tool = "asked", !.pc = "lookup"]
      BY <1>1 DEF Turn
    <3> QED
      BY <2>1, <3>1 DEF LookupBegins
  <2>2. CASE \E found \in BOOLEAN : LookupEnds(t, found)
    BY <2>2 DEF LookupEnds
  <2> QED
    BY <2>1, <2>2
<1>4. q \in Turn /\ q.p = 0
  BY <1>1
<1> HIDE DEF q
<1>5. \A tool \in {"asked", "found", "failed"}, pc \in {"lookup", "answer"} :
         state(tool, pc) \in Turn /\ state(tool, pc).pc = pc /\ state(tool, pc).p = 0
  BY <1>4 DEF Turn
<1> HIDE DEF state
<1>6. PICK tool \in {"asked", "found", "failed"}, pc \in {"lookup", "answer"} :
         Moves(t, state(tool, pc))
  BY <1>3
<1> QED
  BY <1>1, <1>2, <1>5, <1>6, QuietMoves DEF Closing

LEMMA ComposeKeeps ==
  ASSUME AgentInv, NEW t \in Turns, NEW documents, NEW reads, NEW what \in Whats,
         compose_answer(t, documents, reads, what)
  PROVE  AgentInv'
<1>1. AgentTypes /\ turn[t] \in Turn /\ turn[t].pc = "answer" /\ turn[t].p = 0
  BY DEF AgentInv, AgentTypes, Holding, HoldsAt, Closing, compose_answer, AtNode
<1> DEFINE q == turn[t]
           pc == IF what = NoSuggestion THEN "output" ELSE "attach"
           state == [q EXCEPT !.what = what, !.pc = pc]
<1>2. Moves(t, state) /\ UNCHANGED <<redis, ledger, audit, made, writes, raced>>
  BY DEF compose_answer
<1>3. Thinned \/ UNCHANGED entries
  BY DEF compose_answer, Thinned
<1>4. q \in Turn /\ q.p = 0
  BY <1>1
<1>5. pc \in {"output", "attach"} /\ (pc = "attach" => what \in Suggestions)
  BY DEF Whats
<1> HIDE DEF q, pc
<1>6. state \in Turn /\ state.pc = pc /\ state.p = 0 /\ state.what = what
  BY <1>4, <1>5 DEF Turn
<1> HIDE DEF state
<1> QED
  BY <1>1, <1>2, <1>3, <1>5, <1>6, QuietMoves DEF Closing

LEMMA RaisesKeeps ==
  ASSUME AgentInv, NEW t \in Turns, NodeRaises(t)
  PROVE  AgentInv'
<1>1. AgentTypes /\ Holding /\ turn[t].pc = "answer"
  BY DEF AgentInv, NodeRaises, AtNode
<1> DEFINE rest == Rest
           state == [rest EXCEPT !.pc = "done"]
<1>2. Moves(t, state) /\ UNCHANGED <<redis, entries, made, writes, raced>>
  BY DEF NodeRaises
<1>3. Purges
  BY <1>1, GuardrailPurges DEF NodeRaises
<1>4. rest \in Turn /\ rest.p = 0
  BY RestTyped
<1> HIDE DEF rest
<1>5. state \in Turn /\ state.pc = "done" /\ state.p = 0
  BY <1>4 DEF Turn
<1> HIDE DEF state
<1> QED
  BY <1>1, <1>2, <1>3, <1>5, QuietMoves DEF Closing

LEMMA AttachKeeps ==
  ASSUME AgentInv, NEW t \in Turns, attach_memory_proposal(t)
  PROVE  AgentInv'
<1>1. /\ AgentTypes /\ Holding /\ turn[t] \in Turn /\ turn[t].pc = "attach"
      /\ turn[t].p = 0 /\ turn[t].what \in Suggestions
  BY DEF AgentInv, AgentTypes, Holding, HoldsAt, Closing, attach_memory_proposal, AtNode
<1> DEFINE q == turn[t]
           gives_up == [q EXCEPT !.pc = "output", !.what = NoSuggestion]
           goes_on == [q EXCEPT !.pc = "propose"]
<1>2. /\ Moves(t, gives_up) \/ Moves(t, goes_on)
      /\ UNCHANGED <<redis, entries, made, writes, raced>>
  BY DEF attach_memory_proposal, GoTo
<1>3. Purges
  BY <1>1, JustPurges DEF attach_memory_proposal
<1>4. q \in Turn /\ q.p = 0 /\ q.what \in Suggestions
  BY <1>1
<1> HIDE DEF q
<1>5. gives_up \in Turn /\ gives_up.pc = "output" /\ gives_up.p = 0
  BY <1>4 DEF Turn, Whats
<1>6. goes_on \in Turn /\ goes_on.pc = "propose" /\ goes_on.p = 0
      /\ goes_on.what \in Suggestions
  BY <1>4 DEF Turn
<1> HIDE DEF gives_up, goes_on
<1>7. CASE Moves(t, gives_up)
  BY <1>1, <1>2, <1>3, <1>5, <1>7, QuietMoves DEF Closing
<1>8. CASE Moves(t, goes_on)
  BY <1>1, <1>2, <1>3, <1>6, <1>8, QuietMoves DEF Closing
<1> QED
  BY <1>2, <1>7, <1>8

LEMMA OutputKeeps ==
  ASSUME AgentInv, NEW t \in Turns, NEW blocked, output_guardrails(t, blocked)
  PROVE  AgentInv'
<1>1. AgentTypes /\ Holding /\ turn[t].pc = "output" /\ turn[t].p = 0
  BY DEF AgentInv, Holding, HoldsAt, Closing, output_guardrails, AtNode
<1> DEFINE state == [turn[t] EXCEPT !.pc = "done"]
<1>2. Moves(t, state) /\ UNCHANGED <<redis, entries, made, writes, raced>>
  BY DEF output_guardrails, GoTo
<1>3. Purges \/ UNCHANGED <<ledger, audit>>
  BY <1>1, GuardrailPurges DEF output_guardrails
<1>4. state \in Turn /\ state.pc = "done" /\ state["p"] = turn[t]["p"]
  BY <1>1, GoesOn
<1> HIDE DEF state
<1> QED
  BY <1>1, <1>2, <1>3, <1>4, QuietMoves DEF Closing

LEMMA AnsweredKeeps ==
  ASSUME AgentInv, NEW t \in Turns, Answered(t)
  PROVE  AgentInv'
<1>1. turn[t].pc = "done" /\ Moves(t, Rest)
      /\ UNCHANGED <<redis, ledger, entries, audit, made, writes, raced>>
  BY DEF Answered, AtNode
<1> QED
  BY <1>1, RestTyped, QuietMoves DEF Closing

-----------------------------------------------------------------------------
(* The agent: closing a proposal.                                          *)

\* Other turns are at most marked as late.
Others(t) ==
    \A u \in Turns : u # t => turn'[u] \in {turn[u], [turn[u] EXCEPT !.late = TRUE]}

LEMMA OthersMarked ==
  ASSUME AgentTypes, NEW t \in Turns, Others(t), NEW u \in Turns, u # t
  PROVE  /\ turn'[u] \in Turn
         /\ turn'[u].p = turn[u].p /\ turn'[u].pc = turn[u].pc
         /\ turn'[u].what = turn[u].what /\ turn'[u].row = turn[u].row
         /\ turn'[u].outcome = turn[u].outcome /\ turn'[u].cues = turn[u].cues
         /\ ~turn'[u].late => ~turn[u].late
<1> DEFINE q == turn[u]
           marked == [q EXCEPT !.late = TRUE]
<1>1. q \in Turn /\ turn'[u] \in {q, marked}
  BY DEF AgentTypes, Others
<1> HIDE DEF q
<1>2. /\ marked \in Turn /\ marked.p = q.p /\ marked.pc = q.pc /\ marked.what = q.what
      /\ marked.row = q.row /\ marked.outcome = q.outcome /\ marked.cues = q.cues
      /\ marked.late = TRUE
  BY <1>1 DEF Turn
<1> HIDE DEF marked
<1>3. CASE turn'[u] = q
  BY <1>1, <1>3 DEF q
<1>4. CASE turn'[u] = marked
  BY <1>2, <1>4 DEF q
<1> QED
  BY <1>1, <1>3, <1>4

LEMMA MovedPast ==
  ASSUME AgentTypes, NEW t \in Turns, NEW label, NEW state \in Turn,
         MovesPast(t, label, state)
  PROVE  /\ turn' \in [Turns -> Turn] /\ turn'[t] = state /\ Others(t)
         /\ \A u \in Turns : u # t /\ turn[u].pc = "tidy" /\ SamePlace(turn[u].what.label, label)
                                => turn'[u].late = TRUE
<1> DEFINE late(u) == [turn[u] EXCEPT !.late = TRUE]
           next(u) == CASE u = t -> state
                        [] u # t /\ turn[u].pc = "tidy" /\ SamePlace(turn[u].what.label, label)
                             -> late(u)
                        [] OTHER -> turn[u]
<1>1. turn' = [u \in Turns |-> next(u)]
  BY DEF MovesPast
<1>2. \A u \in Turns : turn[u] \in Turn
  BY DEF AgentTypes
<1>3. \A u \in Turns : late(u) \in Turn /\ late(u).late = TRUE
  <2> SUFFICES ASSUME NEW u \in Turns PROVE late(u) \in Turn /\ late(u).late = TRUE
    OBVIOUS
  <2> DEFINE q == turn[u]
  <2>1. q \in Turn
    BY <1>2
  <2> HIDE DEF q
  <2>2. [q EXCEPT !.late = TRUE] \in Turn /\ [q EXCEPT !.late = TRUE].late = TRUE
    BY <2>1 DEF Turn
  <2> QED
    BY <2>2 DEF q
<1> HIDE DEF late
<1>4. next(t) = state
  OBVIOUS
<1>5. \A u \in Turns : u # t => next(u) \in {turn[u], late(u)}
  OBVIOUS
<1>6. \A u \in Turns : u # t /\ turn[u].pc = "tidy" /\ SamePlace(turn[u].what.label, label)
                          => next(u) = late(u)
  OBVIOUS
<1> HIDE DEF next
<1>7. \A u \in Turns : turn'[u] = next(u)
  BY <1>1
<1>8. turn' \in [Turns -> Turn]
  BY <1>1, <1>2, <1>3, <1>4, <1>5
<1>9. Others(t)
  BY <1>5, <1>7 DEF Others, late
<1>10. \A u \in Turns : u # t /\ turn[u].pc = "tidy" /\ SamePlace(turn[u].what.label, label)
                           => turn'[u].late = TRUE
  BY <1>3, <1>6, <1>7
<1> QED
  BY <1>4, <1>7, <1>8, <1>9, <1>10

LEMMA OnlyMoved ==
  ASSUME AgentTypes, NEW t \in Turns, NEW state \in Turn, Moves(t, state)
  PROVE  turn' \in [Turns -> Turn] /\ turn'[t] = state /\ Others(t)
BY Moved DEF Others

\* A step of a turn that writes what was approved, before the log has it.
LEMMA ClosingKeeps ==
  ASSUME AgentInv, AgentTypes', NEW t \in Turns, Others(t),
         turn[t].pc \in {"write", "read", "tidy"}, turn'[t].pc \in {"read", "tidy", "log"},
         turn'[t].p = turn[t].p, HoldsAt(turn[t])',
         turn[t].pc # "write" => turn'[t].outcome = turn[t].outcome,
         UNCHANGED <<ledger, audit, made, raced>>
  PROVE  /\ Holding' /\ ClosedOnce'
         /\ \A p : Justified(p) => Justified(p)'
<1> USE DEF AgentInv
<1>1. \A u \in Turns : u # t =>
         /\ turn'[u].p = turn[u].p /\ turn'[u].pc = turn[u].pc
         /\ turn'[u].what = turn[u].what /\ turn'[u].row = turn[u].row
         /\ turn'[u].outcome = turn[u].outcome /\ turn'[u].cues = turn[u].cues
  BY OthersMarked
<1>2. Holding'
  BY <1>1 DEF Holding, HoldsAt
<1>3. ClosedOnce'
  <2>1. \A u \in Turns : turn'[u].p = turn[u].p
                         /\ (turn'[u].pc = "clear" <=> turn[u].pc = "clear")
    BY <1>1
  <2> QED
    BY <2>1 DEF ClosedOnce, ClosedBy, AtNode
<1>4. \A u \in Turns : \A p \in 1..made : Vouches(u, p) => Vouches(u, p)'
  BY <1>1 DEF Vouches
<1> QED
  BY <1>2, <1>3, <1>4, LogSame, StaysJustified

LEMMA UpsertedRows ==
  ASSUME AgentTypes, NEW e \in Entry
  PROVE  /\ Upserted(e) \in Seq(Entry)
         /\ \A k \in DOMAIN Upserted(e) :
               \/ Upserted(e)[k] = e
               \/ \E i \in DOMAIN entries :
                     Upserted(e)[k] = entries[i] /\ entries[i].label # e.label
         /\ \A i \in DOMAIN entries : \E k \in DOMAIN Upserted(e) :
               Upserted(e)[k] = IF entries[i].label = e.label THEN e ELSE entries[i]
         /\ Ordered(entries) =>
               \A k, l \in DOMAIN Upserted(e) :
                  Upserted(e)[k].label = Upserted(e)[l].label => k = l
<1> DEFINE N == Len(entries)
           grown == Append(entries, e)
           changed == [k \in DOMAIN entries |->
                          IF entries[k].label = e.label THEN e ELSE entries[k]]
<1>1. entries \in Seq(Entry) /\ N \in Nat /\ DOMAIN entries = 1..N
      /\ \A k \in 1..N : entries[k] \in Entry
  BY DEF AgentTypes
<1>2. CASE \A f \in ToSet(entries) : f.label # e.label
  <2>1. Upserted(e) = grown
    BY <1>2 DEF Upserted
  <2>2. \A k \in 1..N : entries[k].label # e.label
    BY <1>1, <1>2 DEF ToSet
  <2>3. /\ grown \in Seq(Entry) /\ DOMAIN grown = 1..(N + 1) /\ grown[N + 1] = e
        /\ \A k \in 1..N : grown[k] = entries[k]
    BY <1>1
  <2> HIDE DEF grown, N
  <2>4. \A k \in 1..(N + 1) : k = N + 1 \/ k \in 1..N
    BY <1>1
  <2>5. \A k \in 1..N : k \in 1..(N + 1)
    BY <1>1
  <2>6. N + 1 \in 1..(N + 1)
    BY <1>1
  <2>7. \A k \in DOMAIN grown :
           grown[k] = e \/ \E i \in DOMAIN entries :
                              grown[k] = entries[i] /\ entries[i].label # e.label
    BY <1>1, <2>2, <2>3, <2>4
  <2>8. Ordered(entries) => \A k, l \in DOMAIN grown : grown[k].label = grown[l].label => k = l
    BY <1>1, <2>2, <2>3, <2>4 DEF Ordered
  <2>9. \A i \in DOMAIN entries : \E k \in DOMAIN grown :
           grown[k] = IF entries[i].label = e.label THEN e ELSE entries[i]
    BY <1>1, <2>2, <2>3, <2>5
  <2> QED
    BY <2>1, <2>3, <2>7, <2>8, <2>9
<1>3. CASE ~ \A f \in ToSet(entries) : f.label # e.label
  <2>1. Upserted(e) = changed
    BY <1>3 DEF Upserted
  <2>2. changed \in [1..N -> Entry]
    BY <1>1
  <2>3. changed \in Seq(Entry)
    BY <1>1, <2>2
  <2>4. DOMAIN changed = 1..N
        /\ \A k \in 1..N : changed[k] = IF entries[k].label = e.label THEN e ELSE entries[k]
    BY <1>1
  <2> HIDE DEF changed, N
  <2>5. \A k \in DOMAIN changed :
           changed[k] = e \/ \E i \in DOMAIN entries :
                              changed[k] = entries[i] /\ entries[i].label # e.label
    BY <1>1, <2>4
  <2>6. \A k \in 1..N : changed[k].label = entries[k].label
    BY <2>4
  <2>7. Ordered(entries) =>
           \A k, l \in DOMAIN changed : changed[k].label = changed[l].label => k = l
    BY <1>1, <2>4, <2>6 DEF Ordered
  <2> QED
    BY <1>1, <2>1, <2>3, <2>4, <2>5, <2>7
<1> QED
  BY <1>2, <1>3

LEMMA Decision ==
  ASSUME NEW cues
  PROVE  /\ classify_memory_decision(cues) \in {"approved", "edited", "rejected"}
         /\ classify_memory_decision(cues) # "rejected" => "refuse" \notin cues
BY DEF classify_memory_decision

LEMMA ResolveKeeps ==
  ASSUME AgentInv, NEW t \in Turns, resolve_memory(t)
  PROVE  AgentInv'
<1>1. /\ AgentTypes /\ Holding /\ turn[t] \in Turn /\ turn[t].pc = "resolve"
      /\ turn[t].p = 0 /\ turn[t].cues \in SUBSET Cues
  BY DEF AgentInv, AgentTypes, Holding, HoldsAt, Closing, resolve_memory, AtNode, Turn
<1>2. /\ ledger' = _purge_expired /\ audit' = _log_pending_ttl_reject
      /\ UNCHANGED <<redis, entries, made, writes>>
  BY DEF resolve_memory
<1>3. CASE _purge_expired.pending = 0
  <2> DEFINE state == [turn[t] EXCEPT !.pc = "route"]
  <2>1. Moves(t, state) /\ UNCHANGED raced
    BY <1>3 DEF resolve_memory, NoProposal, GoTo
  <2>2. state \in Turn /\ state.pc = "route" /\ state["p"] = turn[t]["p"]
    BY <1>1, GoesOn
  <2>3. Purges
    BY <1>1, <1>2, JustPurges
  <2> HIDE DEF state
  <2> QED
    BY <1>1, <1>2, <2>1, <2>2, <2>3, QuietMoves DEF Closing
<1>4. CASE _purge_expired.pending # 0
  <2> DEFINE p == ledger.pending
             what == ledger.what
             decision == classify_memory_decision(turn[t].cues)
             pc == IF decision = "rejected" THEN "log" ELSE "write"
             q == turn[t]
             state == [q EXCEPT !.p = p, !.what = what, !.pc = pc, !.outcome = decision]
  <2>1. /\ _purge_expired = ledger /\ ~ledger.stale
        /\ p \in 1..made /\ what \in Suggestions
    <3>1. _purge_expired = ledger /\ ledger.stale = FALSE /\ p # 0
      BY <1>1, <1>4, Purge
    <3>2. p \in 0..made /\ made \in Nat /\ what \in Suggestions
      BY <1>1, <3>1 DEF Holding, AgentTypes
    <3>3. p \in 1..made
      BY <3>1, <3>2
    <3> QED
      BY <3>1, <3>2, <3>3
  <2>2. UNCHANGED <<ledger, audit>>
    BY <1>2, <2>1 DEF _log_pending_ttl_reject
  <2>3. /\ Moves(t, state)
        /\ raced' = IF \E u \in Turns \ {t} : turn[u].p = p THEN raced \cup {p} ELSE raced
    BY <1>4, <2>1 DEF resolve_memory, NoProposal
  <2>4. /\ decision \in {"approved", "edited", "rejected"} /\ pc \in {"log", "write"}
        /\ (pc = "write" => decision # "rejected")
        /\ (decision # "rejected" => "refuse" \notin q.cues)
    BY Decision
  <2>5. q \in Turn /\ q.p = 0 /\ p \in Nat /\ p # 0 /\ q.pc = "resolve"
    BY <1>1, <2>1 DEF AgentTypes
  <2> HIDE DEF what, decision, pc, q, p
  <2>6. /\ state \in Turn /\ state.p = p /\ state.what = what /\ state.pc = pc
        /\ state.outcome = decision /\ state.cues = q.cues
    BY <2>1, <2>4, <2>5 DEF Turn, Closing, Whats, Outcomes
  <2> HIDE DEF state
  <2>7. turn' \in [Turns -> Turn] /\ turn'[t] = state
        /\ \A u \in Turns : u # t => turn'[u] = turn[u]
    BY <1>1, <2>3, <2>6, Moved
  <2>8. AgentTypes'
    BY <1>1, <1>2, <2>2, <2>7 DEF AgentTypes
  <2>9. Holding'
    <3>1. HoldsAt(turn[t])'
      BY <1>2, <2>1, <2>4, <2>5, <2>6, <2>7 DEF HoldsAt, Closing
    <3> QED
      BY <1>1, <1>2, <2>2, <2>7, <3>1 DEF Holding, HoldsAt
  <2>10. MemoryGood'
    <3>1. \A u \in Turns : \A i \in 1..made : Vouches(u, i) => Vouches(u, i)'
      BY <2>5, <2>7 DEF Vouches, q
    <3>2. \A i : Justified(i) => Justified(i)'
      BY <1>1, <2>2, <2>8, <3>1, LogSame, StaysJustified
    <3>3. \A u \in Turns : turn'[u].pc = "tidy" => turn[u].pc = "tidy" /\ turn'[u] = turn[u]
      BY <2>4, <2>6, <2>7
    <3> QED
      BY <1>2, <3>2, <3>3 DEF AgentInv, MemoryGood, Good, AtNode
  <2>11. ClosedOnce'
    <3> SUFFICES ASSUME NEW i \in 1..made, i \notin raced'
                 PROVE  ClosedBy(i, audit, ledger.pending, ledger.stale)'
      BY <1>2 DEF ClosedOnce
    <3>1. ClosedBy(i, audit, ledger.pending, ledger.stale)
      BY <2>3 DEF AgentInv, ClosedOnce
    <3>2. i # 0
      BY <1>1 DEF AgentTypes
    <3>3. CASE i # p
      <4>1. \A u \in Turns : /\ turn'[u].p = i <=> turn[u].p = i
                             /\ turn[u].p = i => turn'[u] = turn[u]
        BY <2>5, <2>6, <2>7, <3>2, <3>3 DEF q
      <4> QED
        BY <2>2, <3>1, <4>1 DEF ClosedBy, AtNode
    <3>4. CASE i = p
      <4>1. \A u \in Turns : turn[u].p # p
        BY <2>3, <2>5, <3>4 DEF q
      <4>2. Len(audit[p]) = 0
        BY <3>1, <3>4, <4>1 DEF ClosedBy, p
      <4>3. \A u \in Turns : turn'[u].p = p => u = t
        BY <2>7, <4>1
      <4>4. turn'[t].pc # "clear"
        BY <2>4, <2>6, <2>7
      <4>5. ledger'.pending = p /\ ~ledger'.stale /\ audit' = audit
        BY <2>1, <2>2 DEF p
      <4> QED
        BY <3>4, <4>2, <4>3, <4>4, <4>5 DEF ClosedBy, AtNode
    <3> QED
      BY <3>3, <3>4
  <2>12. KeptUp'
    <3>1. \A u \in Turns : turn'[u].pc = "tidy" => turn'[u] = turn[u]
      BY <2>4, <2>6, <2>7
    <3> QED
      BY <1>2, <3>1 DEF AgentInv, KeptUp, KeepsUp, Ordered
  <2> QED
    BY <2>8, <2>9, <2>10, <2>11, <2>12 DEF AgentInv
<1> QED
  BY <1>3, <1>4

LEMMA RefusedKeeps ==
  ASSUME AgentInv, NEW t \in Turns, WriteRefused(t)
  PROVE  AgentInv'
<1>1. /\ AgentTypes /\ Holding /\ turn[t] \in Turn /\ turn[t].pc = "write" /\ turn[t].p \in 0..made
      /\ turn[t].p # 0 /\ turn[t].what \in Suggestions
  BY DEF AgentInv, AgentTypes, Holding, HoldsAt, Closing, WriteRefused, AtNode
<1> DEFINE q == turn[t]
           cues == q.cues \ {"asks"}
           state == [q EXCEPT !.pc = "log", !.outcome = "rejected", !.cues = cues]
<1>2. Moves(t, state) /\ UNCHANGED <<redis, ledger, entries, audit, made, writes, raced>>
  BY DEF WriteRefused
<1>3. q \in Turn
  BY <1>1
<1>4. cues \in SUBSET Cues
  BY <1>3 DEF Turn
<1> HIDE DEF q, cues
<1>5. /\ state \in Turn /\ state.p = q.p /\ state.what = q.what /\ state.pc = "log"
      /\ state.outcome = "rejected"
  BY <1>3, <1>4 DEF Turn, Closing, Outcomes
<1> HIDE DEF state
<1>6. turn' \in [Turns -> Turn] /\ turn'[t] = state /\ Others(t)
      /\ \A u \in Turns : u # t => turn'[u] = turn[u]
  BY <1>1, <1>2, <1>5, Moved, OnlyMoved
<1>7. AgentTypes'
  BY <1>1, <1>2, <1>6 DEF AgentTypes
<1>8. HoldsAt(turn[t])'
  BY <1>1, <1>2, <1>5, <1>6 DEF HoldsAt, Closing, q
<1>9. Holding' /\ ClosedOnce' /\ \A p : Justified(p) => Justified(p)'
  BY <1>1, <1>2, <1>5, <1>6, <1>7, <1>8, ClosingKeeps DEF q
<1>10. \A u \in Turns : turn'[u].pc = "tidy" => turn[u].pc = "tidy" /\ turn'[u] = turn[u]
  BY <1>5, <1>6
<1>11. MemoryGood'
  BY <1>2, <1>9, <1>10 DEF AgentInv, MemoryGood, Good, AtNode
<1>12. KeptUp'
  BY <1>2, <1>10 DEF AgentInv, KeptUp, KeepsUp, Ordered
<1> QED
  BY <1>7, <1>9, <1>11, <1>12 DEF AgentInv

\* Writing an entry: the rows that others are about to tidy are not older than
\* theirs, or are late.
LEMMA UpsertKeepsUp ==
  ASSUME AgentInv, NEW t \in Turns, NEW e \in Entry, entries' = Upserted(e), Others(t),
         \A u \in Turns : u # t /\ turn[u].pc = "tidy" /\ SamePlace(turn[u].what.label, e.label)
                             => turn'[u].late = TRUE,
         turn'[t].pc # "tidy", writes' \in Nat, writes <= writes', e.at <= writes'
  PROVE  KeptUp'
<1>1. AgentTypes /\ Ordered(entries) /\ writes \in Nat
  BY DEF AgentInv, KeptUp, AgentTypes
<1>2. \A i \in DOMAIN entries : entries[i].at \in Nat /\ entries[i].at <= writes
  <2>1. \A i \in DOMAIN entries : entries[i] \in Entry
    BY <1>1 DEF AgentTypes
  <2> QED
    BY <1>1, <2>1 DEF Entry, Ordered
<1> DEFINE new == Upserted(e)
<1>3. /\ \A k \in DOMAIN new : new[k] = e \/ \E i \in DOMAIN entries :
                                  new[k] = entries[i] /\ entries[i].label # e.label
      /\ \A k, l \in DOMAIN new : new[k].label = new[l].label => k = l
  BY <1>1, UpsertedRows
<1>4. entries' = new
  OBVIOUS
<1> HIDE DEF new
<1>5. \A i \in DOMAIN entries : entries[i].at <= writes'
  BY <1>1, <1>2
<1>6. Ordered(entries)'
  BY <1>3, <1>4, <1>5 DEF Ordered
<1>7. ASSUME NEW u \in Turns, u # t PROVE KeepsUp(turn[u], entries)'
  <2> SUFFICES ASSUME turn[u].pc = "tidy"
               PROVE  /\ turn'[u].row.at <= writes'
                      /\ ~turn'[u].late => \A k \in DOMAIN entries' :
                           entries'[k].label = turn'[u].what.label
                              => entries'[k].at <= turn'[u].row.at
    BY <1>1, <1>7, OthersMarked DEF KeepsUp
  <2>1. /\ turn'[u].what = turn[u].what /\ turn'[u].row = turn[u].row
        /\ ~turn'[u].late => ~turn[u].late
    BY <1>1, <1>7, OthersMarked
  <2>2. /\ turn[u].row.at <= writes
        /\ ~turn[u].late => \A k \in DOMAIN entries :
              entries[k].label = turn[u].what.label => entries[k].at <= turn[u].row.at
    BY <1>7 DEF AgentInv, KeptUp, KeepsUp
  <2>3. turn[u].row \in Entry /\ turn[u].what \in Suggestions
    BY <1>7 DEF AgentInv, Holding, HoldsAt, Closing
  <2>4. turn[u].row.at <= writes'
    BY <1>1, <2>2, <2>3 DEF Entry
  <2>5. ASSUME ~turn'[u].late, NEW k \in DOMAIN entries',
               entries'[k].label = turn[u].what.label
        PROVE  entries'[k].at <= turn[u].row.at
    <3>1. ~SamePlace(turn[u].what.label, e.label)
      BY <1>7, <2>5
    <3>2. turn[u].what.label \in Labels
      BY <2>3, SupportAgentAssumption
    <3>3. turn[u].what.label # e.label
      BY <3>1, <3>2, SupportAgentAssumption
    <3>4. PICK i \in DOMAIN entries : entries'[k] = entries[i]
      BY <1>3, <1>4, <2>5, <3>3
    <3> QED
      BY <2>1, <2>2, <2>5, <3>4
  <2> QED
    BY <2>1, <2>4, <2>5
<1>8. KeepsUp(turn[t], entries)'
  BY DEF KeepsUp
<1> QED
  BY <1>6, <1>7, <1>8 DEF KeptUp

\* The entry that is written.
LEMMA Wrote ==
  ASSUME AgentInv, NEW t \in Turns, write_memory(t)
  PROVE  /\ AgentTypes /\ Holding /\ turn[t] \in Turn /\ turn[t].pc = "write"
         /\ turn[t].p \in 1..made /\ turn[t].what \in Suggestions
         /\ turn[t].outcome # "rejected" /\ writes \in Nat
         /\ \E e \in Entry :
               /\ entries' = Upserted(e)
               /\ e.label = turn[t].what.label /\ e.p = turn[t].p /\ ~e.poison
               /\ e.at = writes + 1
<1>1. /\ AgentTypes /\ Holding /\ turn[t] \in Turn /\ turn[t].pc = "write"
      /\ turn[t].p \in 1..made /\ turn[t].what \in Suggestions
      /\ turn[t].outcome # "rejected" /\ turn[t].cues \in SUBSET Cues
  <2>1. /\ AgentTypes /\ Holding /\ turn[t] \in Turn /\ turn[t].pc = "write"
    BY DEF AgentInv, AgentTypes, write_memory, AtNode
  <2>2. HoldsAt(turn[t])
    BY <2>1 DEF Holding
  <2>3. made \in Nat
    BY <2>1 DEF AgentTypes
  <2> QED
    BY <2>1, <2>2, <2>3 DEF HoldsAt, Closing, Turn
<1> DEFINE poison == Poisoned(t)
           e == [label |-> turn[t].what.label, p |-> turn[t].p, clean |-> turn[t].what.clean,
                 poison |-> poison, at |-> writes + 1, old |-> FALSE]
<1>2. entries' = Upserted(e) /\ ~poison
  BY DEF write_memory
<1>3. poison \in BOOLEAN
  <2>1. turn[t].what.poison \in BOOLEAN
    BY <1>1, SupportAgentAssumption
  <2>2. ("secret" \in turn[t].cues) \in BOOLEAN
    OBVIOUS
  <2> QED
    BY <2>1, <2>2 DEF Poisoned
<1>4. turn[t].what \in [label : Labels, clean : BOOLEAN, poison : BOOLEAN]
  BY <1>1, SupportAgentAssumption
<1>5. writes \in Nat
  BY <1>1 DEF AgentTypes
<1> HIDE DEF poison
<1>6. /\ e \in Entry /\ e.label = turn[t].what.label /\ e.p = turn[t].p /\ e.poison = poison
      /\ e.at = writes + 1
  BY <1>1, <1>3, <1>4, <1>5 DEF Entry
<1> HIDE DEF e
<1>7. ~e.poison
  BY <1>2, <1>6
<1> QED
  BY <1>1, <1>2, <1>5, <1>6, <1>7

LEMMA WriteKeeps ==
  ASSUME AgentInv, NEW t \in Turns, write_memory(t)
  PROVE  AgentInv'
<1>1. /\ AgentTypes /\ Holding /\ turn[t] \in Turn /\ turn[t].pc = "write"
      /\ turn[t].p \in 1..made /\ turn[t].what \in Suggestions
      /\ turn[t].outcome # "rejected" /\ writes \in Nat
  BY Wrote
<1> DEFINE q == turn[t]
           state == [turn[t] EXCEPT !.pc = "read"]
<1>2. /\ MovesPast(t, turn[t].what.label, state) /\ writes' = writes + 1
      /\ UNCHANGED <<redis, ledger, audit, made, raced>>
  BY DEF write_memory
<1>3. PICK e \in Entry : /\ entries' = Upserted(e)
                         /\ e.label = turn[t].what.label /\ e.p = turn[t].p /\ ~e.poison
                         /\ e.at = writes + 1
  BY Wrote
<1>7. /\ state \in Turn /\ state["p"] = q.p /\ state["what"] = q.what /\ state.pc = "read"
      /\ state["outcome"] = q.outcome /\ state["cues"] = q.cues
  BY <1>1, GoesOn DEF Closing
<1> HIDE DEF state
<1>8. turn' \in [Turns -> Turn] /\ turn'[t] = state /\ Others(t)
      /\ \A u \in Turns : u # t /\ turn[u].pc = "tidy" /\ SamePlace(turn[u].what.label, e.label)
                             => turn'[u].late = TRUE
  BY <1>1, <1>2, <1>3, <1>7, MovedPast
<1>9. AgentTypes'
  BY <1>1, <1>2, <1>3, <1>8, UpsertedRows DEF AgentTypes
<1>10. HoldsAt(turn[t])'
  <2>1. HoldsAt(turn[t])
    BY <1>1 DEF Holding
  <2> QED
    BY <1>1, <1>2, <1>7, <1>8, <2>1 DEF HoldsAt, Closing
<1>11. Holding' /\ ClosedOnce' /\ \A p : Justified(p) => Justified(p)'
  BY <1>1, <1>2, <1>7, <1>8, <1>9, <1>10, ClosingKeeps
<1>12. MemoryGood'
  <2>1. Vouches(t, turn[t].p)'
    BY <1>1, <1>7, <1>8 DEF Vouches
  <2>2. ~e.poison /\ \A p : p = e.p => Justified(p)'
    <3>1. \A p : p = turn[t].p => Justified(p)'
      BY <1>1, <1>2, <1>7, <1>8, <2>1 DEF Justified
    <3> QED
      BY <1>3, <3>1
  <2>3. \A k \in DOMAIN entries' : entries'[k] = e \/ \E i \in DOMAIN entries : entries'[k] = entries[i]
    BY <1>1, <1>3, UpsertedRows
  <2>4. \A k \in DOMAIN entries' : Good(entries[k])'
    BY <1>11, <2>2, <2>3 DEF AgentInv, MemoryGood, Good
  <2>5. \A u \in Turns : AtNode(u, "tidy")' => AtNode(u, "tidy") /\ turn'[u].row = turn[u].row
    BY <1>1, <1>7, <1>8, OthersMarked DEF AtNode
  <2>6. \A u \in Turns : AtNode(u, "tidy")' => Good(turn[u].row)'
    BY <1>11, <2>5 DEF AgentInv, MemoryGood, Good
  <2> QED
    BY <2>4, <2>6 DEF MemoryGood
<1>13. KeptUp'
  <2>1. writes' \in Nat /\ writes <= writes' /\ e.at <= writes'
    BY <1>1, <1>2, <1>3
  <2> QED
    BY <1>2, <1>3, <1>7, <1>8, <2>1, UpsertKeepsUp
<1> QED
  BY <1>9, <1>11, <1>12, <1>13 DEF AgentInv

\* The row that a place is found by is one of its entries.
LEMMA FoundRow ==
  ASSUME AgentTypes, NEW label, Found(label) # <<>>
  PROVE  \E i \in DOMAIN entries : Head(Found(label)) = entries[i] /\ ~entries[i].old
<1> DEFINE keep == {e \in ToSet(entries) :
                      /\ ~e.old
                      /\ IF redis THEN e.label = label ELSE SamePlace(e.label, label)}
           rows == Where(entries, keep)
<1>1. Found(label) = rows
  BY DEF Found
<1>2. \A e \in keep : ~e.old
  OBVIOUS
<1>3. entries \in Seq(Entry)
  BY DEF AgentTypes
<1> HIDE DEF keep
<1>4. /\ rows \in Seq(Entry)
      /\ \E at \in [1..Len(rows) -> 1..Len(entries)] :
            \A i \in 1..Len(rows) : rows[i] = entries[at[i]] /\ entries[at[i]] \in keep
  BY <1>3, WhereKeeps
<1> HIDE DEF rows
<1>5. 1 \in 1..Len(rows) /\ Head(rows) = rows[1] /\ DOMAIN entries = 1..Len(entries)
  BY <1>1, <1>3, <1>4
<1> QED
  BY <1>1, <1>2, <1>4, <1>5

LEMMA ReadKeeps ==
  ASSUME AgentInv, NEW t \in Turns, read_memory(t)
  PROVE  AgentInv'
<1>1. /\ AgentTypes /\ Holding /\ turn[t] \in Turn /\ turn[t].pc = "read" /\ HoldsAt(turn[t])
      /\ turn[t].p \in 1..made /\ turn[t].what \in Suggestions
      /\ turn[t].outcome # "rejected" /\ turn[t].cues \in SUBSET Cues
  <2>1. /\ AgentTypes /\ Holding /\ turn[t] \in Turn /\ turn[t].pc = "read"
    BY DEF AgentInv, AgentTypes, read_memory, AtNode
  <2>2. HoldsAt(turn[t])
    BY <2>1 DEF Holding
  <2>3. made \in Nat
    BY <2>1 DEF AgentTypes
  <2> QED
    BY <2>1, <2>2, <2>3 DEF HoldsAt, Closing, Turn
<1> DEFINE q == turn[t]
           label == q.what.label
           rows == Found(label)
           row == Head(rows)
           late == row.label # label
           leaves == [q EXCEPT !.pc = "log"]
           tidies == [q EXCEPT !.pc = "tidy", !.row = row, !.late = late]
<1>2. /\ Moves(t, IF rows = <<>> \/ row.clean THEN leaves ELSE tidies)
      /\ UNCHANGED <<redis, ledger, audit, made, writes, raced>>
  BY DEF read_memory
<1>3. Thinned
  BY DEF read_memory, WithoutOld, Thinned
<1>4. /\ entries' \in Seq(Entry) /\ Ordered(entries)'
      /\ \A k \in DOMAIN entries' : \E i \in DOMAIN entries : entries'[k] = entries[i]
  BY <1>1, <1>2, <1>3, ThinnedRows DEF AgentInv, KeptUp
<1>5. q \in Turn
  BY <1>1
<1>6. /\ leaves \in Turn /\ leaves["p"] = q.p /\ leaves["what"] = q.what /\ leaves.pc = "log"
      /\ leaves["outcome"] = q.outcome /\ leaves["cues"] = q.cues
  BY <1>1, GoesOn DEF Closing
<1>7. ASSUME rows # <<>>
      PROVE  /\ tidies \in Turn /\ tidies.p = q.p /\ tidies.what = q.what /\ tidies.pc = "tidy"
             /\ tidies.outcome = q.outcome /\ tidies.cues = q.cues /\ tidies.row = row
             /\ tidies.late = late
             /\ \E i \in DOMAIN entries : row = entries[i]
  <2>1. PICK i \in DOMAIN entries : row = entries[i]
    BY <1>1, <1>7, FoundRow
  <2>2. row \in Entry
    BY <1>1, <2>1 DEF AgentTypes
  <2>3. late \in BOOLEAN
    OBVIOUS
  <2> HIDE DEF q, row, late
  <2>4. /\ tidies \in Turn /\ tidies.p = q.p /\ tidies.what = q.what /\ tidies.pc = "tidy"
        /\ tidies.outcome = q.outcome /\ tidies.cues = q.cues /\ tidies.row = row
        /\ tidies.late = late
    BY <1>5, <2>2, <2>3 DEF Turn, Closing
  <2> QED
    BY <2>1, <2>4
<1> HIDE DEF leaves, tidies
<1> DEFINE state == turn'[t]
<1>8. \/ Moves(t, leaves)
      \/ rows # <<>> /\ Moves(t, tidies)
  BY <1>2
<1>9. /\ turn' \in [Turns -> Turn] /\ Others(t) /\ \A u \in Turns : u # t => turn'[u] = turn[u]
      /\ state = leaves \/ (rows # <<>> /\ state = tidies)
  BY <1>1, <1>6, <1>7, <1>8, Moved, OnlyMoved
<1>10. /\ state.p = q.p /\ state.what = q.what /\ state.outcome = q.outcome
       /\ state.cues = q.cues /\ state.pc \in {"log", "tidy"}
       /\ state.pc = "tidy" => /\ state.row = row /\ state.late = late
                               /\ \E i \in DOMAIN entries : row = entries[i]
  BY <1>6, <1>7, <1>9
<1>11. AgentTypes'
  BY <1>1, <1>2, <1>4, <1>9 DEF AgentTypes
<1> HIDE DEF state
<1>12. HoldsAt(turn[t])'
  <2>1. state.pc = "tidy" => state.row \in Entry
    BY <1>1, <1>10 DEF AgentTypes
  <2> QED
    BY <1>1, <1>2, <1>10, <2>1 DEF HoldsAt, Closing, state
<1>13. Holding' /\ ClosedOnce' /\ \A p : Justified(p) => Justified(p)'
  BY <1>1, <1>2, <1>9, <1>10, <1>11, <1>12, ClosingKeeps DEF state
<1>14. MemoryGood'
  <2>1. \A k \in DOMAIN entries' : Good(entries[k])'
    BY <1>4, <1>13 DEF AgentInv, MemoryGood, Good
  <2>2. AtNode(t, "tidy")' => Good(turn[t].row)'
    BY <1>10, <1>13 DEF AgentInv, MemoryGood, Good, AtNode, state
  <2>3. \A u \in Turns : u # t /\ AtNode(u, "tidy")' => Good(turn[u].row)'
    BY <1>9, <1>13 DEF AgentInv, MemoryGood, Good, AtNode
  <2> QED
    BY <2>1, <2>2, <2>3 DEF MemoryGood
<1>15. KeptUp'
  <2>1. KeepsUp(turn[t], entries)'
    <3> SUFFICES ASSUME state.pc = "tidy"
                 PROVE  /\ state.row.at <= writes
                        /\ ~state.late => \A k \in DOMAIN entries' :
                              entries'[k].label = state.what.label
                                 => entries'[k].at <= state.row.at
      BY <1>2 DEF KeepsUp, state
    <3>1. PICK i \in DOMAIN entries : state.row = entries[i]
      BY <1>10
    <3>2. entries[i].at <= writes /\ entries[i].at \in Nat
      <4>1. entries[i] \in Entry
        BY <1>1 DEF AgentTypes
      <4> QED
        BY <4>1 DEF AgentInv, KeptUp, Ordered, Entry
    <3>3. ASSUME ~state.late, NEW k \in DOMAIN entries', entries'[k].label = state.what.label
          PROVE  entries'[k].at <= state.row.at
      <4>1. PICK j \in DOMAIN entries : entries'[k] = entries[j]
        BY <1>4
      <4>2. entries[i].label = label
        BY <1>10, <3>1, <3>3
      <4>3. i = j
        BY <1>10, <3>3, <4>1, <4>2 DEF AgentInv, KeptUp, Ordered
      <4> QED
        BY <3>1, <3>2, <4>1, <4>3
    <3> QED
      BY <3>1, <3>2, <3>3
  <2>2. ASSUME NEW u \in Turns, u # t PROVE KeepsUp(turn[u], entries)'
    BY <1>2, <1>4, <1>9, <2>2 DEF AgentInv, KeptUp, KeepsUp
  <2> QED
    BY <1>4, <2>1, <2>2 DEF KeptUp
<1> QED
  BY <1>11, <1>13, <1>14, <1>15 DEF AgentInv

LEMMA TidyKeeps ==
  ASSUME AgentInv, NEW t \in Turns, consolidate_location(t)
  PROVE  AgentInv'
<1>1. /\ AgentTypes /\ Holding /\ turn[t] \in Turn /\ turn[t].pc = "tidy" /\ HoldsAt(turn[t])
      /\ turn[t].what \in Suggestions /\ turn[t].row \in Entry /\ Good(turn[t].row)
      /\ turn[t].row.at <= writes
  BY DEF AgentInv, AgentTypes, MemoryGood, KeptUp, KeepsUp, Holding, HoldsAt, Closing,
         consolidate_location, AtNode
<1> DEFINE q == turn[t]
           label == q.what.label
           row == q.row
           e == [row EXCEPT !.label = label, !.clean = TRUE]
           state == [q EXCEPT !.pc = "log", !.row = 0]
<1>2. /\ entries' = Upserted(e) /\ MovesPast(t, label, state)
      /\ UNCHANGED <<redis, ledger, audit, made, writes, raced>>
  BY DEF consolidate_location
<1>3. label \in Labels
  BY <1>1, SupportAgentAssumption
<1>4. q \in Turn /\ row \in Entry /\ Good(row) /\ row.at <= writes
  BY <1>1
<1> HIDE DEF row, label
<1>5. /\ e \in Entry /\ e.label = label /\ e.p = row.p /\ e.poison = row.poison /\ e.at = row.at
  BY <1>3, <1>4 DEF Entry
<1> HIDE DEF q
<1>6. /\ state \in Turn /\ state.p = q.p /\ state.what = q.what /\ state.pc = "log"
      /\ state.outcome = q.outcome /\ state.cues = q.cues
  BY <1>4 DEF Turn, Closing
<1> HIDE DEF e, state
<1>7. turn' \in [Turns -> Turn] /\ turn'[t] = state /\ Others(t)
      /\ \A u \in Turns : u # t /\ turn[u].pc = "tidy" /\ SamePlace(turn[u].what.label, e.label)
                             => turn'[u].late = TRUE
  BY <1>1, <1>2, <1>5, <1>6, MovedPast
<1>8. AgentTypes'
  BY <1>1, <1>2, <1>5, <1>7, UpsertedRows DEF AgentTypes
<1>9. HoldsAt(turn[t])'
  BY <1>1, <1>2, <1>6, <1>7 DEF HoldsAt, Closing, q
<1>10. Holding' /\ ClosedOnce' /\ \A p : Justified(p) => Justified(p)'
  BY <1>1, <1>2, <1>6, <1>7, <1>8, <1>9, ClosingKeeps DEF q
<1>11. MemoryGood'
  <2>1. ~e.poison /\ \A p : p = e.p => Justified(p)'
    BY <1>4, <1>5, <1>10 DEF Good
  <2>2. \A k \in DOMAIN entries' : entries'[k] = e \/ \E i \in DOMAIN entries : entries'[k] = entries[i]
    BY <1>1, <1>2, <1>5, UpsertedRows
  <2>3. \A k \in DOMAIN entries' : Good(entries[k])'
    BY <1>10, <2>1, <2>2 DEF AgentInv, MemoryGood, Good
  <2>4. \A u \in Turns : AtNode(u, "tidy")' => AtNode(u, "tidy") /\ turn'[u].row = turn[u].row
    BY <1>1, <1>6, <1>7, OthersMarked DEF AtNode
  <2>5. \A u \in Turns : AtNode(u, "tidy")' => Good(turn[u].row)'
    BY <1>10, <2>4 DEF AgentInv, MemoryGood, Good
  <2> QED
    BY <2>3, <2>5 DEF MemoryGood, Good
<1>12. KeptUp'
  <2>1. writes' \in Nat /\ writes <= writes' /\ e.at <= writes'
    BY <1>1, <1>2, <1>4, <1>5 DEF AgentTypes
  <2> QED
    BY <1>2, <1>5, <1>6, <1>7, <2>1, UpsertKeepsUp
<1> QED
  BY <1>8, <1>10, <1>11, <1>12 DEF AgentInv

LEMMA LogKeeps ==
  ASSUME AgentInv, NEW t \in Turns, log_proposal_event(t)
  PROVE  AgentInv'
<1>1. /\ AgentTypes /\ Holding /\ turn[t] \in Turn /\ turn[t].pc = "log" /\ HoldsAt(turn[t])
      /\ turn[t].p \in 1..made /\ turn[t].outcome \in Outcomes
  <2>1. AgentTypes /\ Holding /\ turn[t] \in Turn /\ turn[t].pc = "log"
    BY DEF AgentInv, AgentTypes, log_proposal_event, AtNode
  <2>2. HoldsAt(turn[t])
    BY <2>1 DEF Holding
  <2>3. made \in Nat
    BY <2>1 DEF AgentTypes
  <2> QED
    BY <2>1, <2>2, <2>3 DEF HoldsAt, Closing, Turn
<1> DEFINE q == turn[t]
           state == [turn[t] EXCEPT !.pc = "clear"]
           p == q.p
           outcome == q.outcome
           cues == q.cues
<1>2. /\ audit' = Logged(audit, p, outcome, cues) /\ Moves(t, state)
      /\ UNCHANGED <<redis, ledger, entries, made, writes, raced>>
  BY DEF log_proposal_event, GoTo
<1>3. /\ state \in Turn /\ state["p"] = p /\ state["what"] = q.what /\ state.pc = "clear"
      /\ state["outcome"] = outcome /\ state["cues"] = cues
  BY <1>1, GoesOn DEF Closing
<1>4. audit \in Seq(Seq(Event)) /\ p \in 1..Len(audit) /\ outcome \in Outcomes /\ Len(audit) = made
  BY <1>1 DEF AgentTypes
<1>5. outcome # "rejected" => "refuse" \notin cues
  BY <1>1 DEF HoldsAt, Closing
<1> HIDE DEF state, p, outcome, cues
<1>6. /\ audit' \in Seq(Seq(Event)) /\ Len(audit') = Len(audit)
      /\ \A i \in 1..Len(audit) : i # p => audit'[i] = audit[i]
      /\ Len(audit[p]) \in Nat /\ Len(audit'[p]) = Len(audit[p]) + 1
      /\ \A k \in 1..Len(audit[p]) : audit'[p][k] = audit[p][k]
      /\ audit'[p][Len(audit[p]) + 1].outcome = outcome
      /\ audit'[p][Len(audit[p]) + 1].refused <=> "refuse" \in cues
  <2>1. OneMore(Logged(audit, p, outcome, cues), audit, p, outcome, cues)
    BY <1>4, LoggedAs
  <2>2. OneMore(audit', audit, p, outcome, cues)
    BY <1>2, <2>1
  <2> QED
    BY <2>2 DEF OneMore
<1>7. Extends(audit', audit)
  <2>1. \A i \in 1..Len(audit) : Len(audit[i]) \in Nat
    BY <1>4
  <2>2. \A i \in 1..Len(audit) :
           /\ Len(audit'[i]) \in Nat /\ Len(audit[i]) <= Len(audit'[i])
           /\ \A k \in 1..Len(audit[i]) : audit'[i][k] = audit[i][k]
    <3> SUFFICES ASSUME NEW i \in 1..Len(audit)
                 PROVE  /\ Len(audit'[i]) \in Nat /\ Len(audit[i]) <= Len(audit'[i])
                        /\ \A k \in 1..Len(audit[i]) : audit'[i][k] = audit[i][k]
      OBVIOUS
    <3>1. CASE i = p
      BY <1>6, <3>1
    <3>2. CASE i # p
      BY <1>6, <2>1, <3>2
    <3> QED
      BY <3>1, <3>2
  <2>3. audit' \in Seq(Seq(Event)) /\ Len(audit) <= Len(audit')
    BY <1>4, <1>6
  <2> QED
    BY <2>1, <2>2, <2>3 DEF Extends
<1>8. turn' \in [Turns -> Turn] /\ turn'[t] = state
      /\ \A u \in Turns : u # t => turn'[u] = turn[u]
  BY <1>1, <1>2, <1>3, Moved
<1>9. AgentTypes'
  BY <1>1, <1>2, <1>6, <1>8 DEF AgentTypes
<1>10. Holding'
  <2>1. HoldsAt(turn[t])'
    BY <1>1, <1>2, <1>3, <1>8 DEF HoldsAt, Closing, p, outcome, cues
  <2> QED
    BY <1>1, <1>2, <1>8, <2>1 DEF Holding, HoldsAt
<1>11. MemoryGood'
  <2>1. outcome # "rejected" => Approved(p)'
    <3> SUFFICES ASSUME outcome # "rejected"
                 PROVE  \E k \in DOMAIN audit'[p] :
                           audit'[p][k].outcome # "rejected" /\ ~audit'[p][k].refused
      BY <1>3, <1>8 DEF Approved, p
    <3> DEFINE k == Len(audit[p]) + 1
    <3>1. k \in DOMAIN audit'[p]
      <4>1. audit'[p] \in Seq(Event)
        BY <1>4, <1>6
      <4> QED
        BY <1>6, <4>1
    <3> QED
      BY <1>5, <1>6, <3>1
  <2>2. \A u \in Turns : \A i \in 1..made : Vouches(u, i) => Vouches(u, i)' \/ Approved(i)'
    <3> SUFFICES ASSUME NEW u \in Turns, NEW i \in 1..made, Vouches(u, i)
                 PROVE  Vouches(u, i)' \/ Approved(i)'
      OBVIOUS
    <3>1. CASE u # t
      BY <1>8, <3>1 DEF Vouches
    <3>2. CASE u = t
      <4>1. i = p /\ outcome # "rejected"
        BY <3>2 DEF Vouches, p, outcome
      <4>2. Approved(i)'
        BY <1>3, <1>8, <2>1, <4>1 DEF Approved, p
      <4> QED
        BY <4>2
    <3> QED
      BY <3>1, <3>2
  <2>3. \A i : Justified(i) => Justified(i)'
    BY <1>1, <1>7, <1>9, <2>2, StaysJustified
  <2>4. \A u \in Turns : turn'[u].pc = "tidy" => turn[u].pc = "tidy" /\ turn'[u] = turn[u]
    BY <1>3, <1>8
  <2> QED
    BY <1>2, <2>3, <2>4 DEF AgentInv, MemoryGood, Good, AtNode
<1>12. ClosedOnce'
  <2> SUFFICES ASSUME NEW i \in 1..made, i \notin raced
               PROVE  ClosedBy(i, audit, ledger.pending, ledger.stale)'
    BY <1>2 DEF ClosedOnce
  <2>1. ClosedBy(i, audit, ledger.pending, ledger.stale)
    BY DEF AgentInv, ClosedOnce
  <2>2. \A u \in Turns : turn'[u].p = turn[u].p /\ (u # t => turn'[u].pc = turn[u].pc)
    BY <1>3, <1>8 DEF p
  <2>3. CASE i # p
    <3>1. audit'[i] = audit[i]
      BY <1>4, <1>6, <2>3
    <3>2. \A u \in Turns : turn[u].p = i => u # t
      BY <2>3 DEF p
    <3> QED
      BY <1>2, <2>1, <2>2, <3>1, <3>2 DEF ClosedBy, AtNode
  <2>4. CASE i = p
    <3>1. ledger.pending = i /\ ~ledger.stale /\ \A u \in Turns : turn[u].p = i => u = t
      BY <2>1, <2>4 DEF ClosedBy, p
    <3>2. Len(audit[i]) = 0
      BY <1>1, <2>1, <3>1 DEF ClosedBy, AtNode
    <3>3. Len(audit'[i]) = 1
      BY <1>6, <2>4, <3>2
    <3>4. turn'[t].p = i /\ turn'[t].pc = "clear"
      BY <1>3, <1>8, <2>4
    <3> QED
      BY <1>2, <2>2, <3>1, <3>3, <3>4 DEF ClosedBy, AtNode
  <2> QED
    BY <2>3, <2>4
<1>13. KeptUp'
  <2>1. \A u \in Turns : turn'[u].pc = "tidy" => turn'[u] = turn[u]
    BY <1>3, <1>8
  <2> QED
    BY <1>2, <2>1 DEF AgentInv, KeptUp, KeepsUp, Ordered
<1> QED
  BY <1>9, <1>10, <1>11, <1>12, <1>13 DEF AgentInv

\* What a step keeps of the memory when no turn vouches less, none starts to
\* tidy, and the entries stay.
LEMMA MemorySame ==
  ASSUME AgentInv, AgentTypes', Extends(audit', audit), UNCHANGED <<entries, writes>>,
         \A u \in Turns : turn'[u] = turn[u]
                          \/ /\ turn[u].pc \notin {"read", "tidy", "log"}
                             /\ turn'[u].pc \notin {"read", "tidy", "log"}
  PROVE  MemoryGood' /\ KeptUp'
<1>1. \A u \in Turns : \A p \in 1..made : Vouches(u, p) => Vouches(u, p)'
  BY DEF Vouches
<1>2. \A p : Justified(p) => Justified(p)'
  BY <1>1, StaysJustified DEF AgentInv
<1>3. \A u \in Turns : turn'[u].pc = "tidy" => turn'[u] = turn[u]
  OBVIOUS
<1>4. MemoryGood'
  BY <1>2, <1>3 DEF AgentInv, MemoryGood, Good, AtNode
<1>5. KeptUp'
  BY <1>3 DEF AgentInv, KeptUp, KeepsUp, Ordered
<1> QED
  BY <1>4, <1>5

LEMMA ClearKeeps ==
  ASSUME AgentInv, NEW t \in Turns, clear_pending_memory(t)
  PROVE  AgentInv'
<1>1. /\ AgentTypes /\ Holding /\ ClosedOnce /\ turn[t] \in Turn /\ turn[t].pc = "clear"
      /\ made \in Nat
  BY DEF AgentInv, AgentTypes, clear_pending_memory, AtNode
<1> DEFINE q == turn[t]
           pc == IF Residual(q.cues) THEN "route" ELSE "output"
           state == [q EXCEPT !.p = NoProposal, !.what = NoSuggestion, !.late = FALSE, !.pc = pc]
           s == _ensure_session
<1>2. /\ Moves(t, state) /\ audit' = _log_pending_ttl_reject
      /\ ledger' = [s EXCEPT !.pending = NoProposal, !.what = NoSuggestion]
      /\ raced' = IF ledger.pending = q.p THEN raced ELSE raced \cup {ledger.pending}
      /\ UNCHANGED <<redis, entries, made, writes>>
  BY DEF clear_pending_memory, set_pending_memory
<1>3. q \in Turn /\ pc \in {"route", "output"} /\ q.pc = "clear"
  BY <1>1
<1>4. s \in Session /\ s.stale = FALSE
  BY <1>1, Purge
<1> HIDE DEF q, pc, s
<1>5. /\ state \in Turn /\ state.p = 0 /\ state.pc \in {"route", "output"}
  BY <1>3 DEF Turn, NoProposal, Whats
<1>6. ledger' \in Session /\ ledger'.pending = 0 /\ ledger'.stale = FALSE
  BY <1>2, <1>4 DEF Session, NoProposal, Whats
<1> HIDE DEF state
<1>7. turn' \in [Turns -> Turn] /\ turn'[t] = state
      /\ \A u \in Turns : u # t => turn'[u] = turn[u]
  BY <1>1, <1>2, <1>5, Moved
<1>8. Extends(audit', audit) /\ audit' \in Seq(Seq(Event)) /\ Len(audit') = Len(audit)
  BY <1>1, <1>2, PurgedLog DEF Extends
<1>9. AgentTypes'
  BY <1>1, <1>2, <1>6, <1>7, <1>8 DEF AgentTypes
<1>10. Holding'
  <2>1. HoldsAt(turn[t])'
    BY <1>1, <1>2, <1>5, <1>7 DEF HoldsAt, Closing
  <2> QED
    BY <1>1, <1>2, <1>6, <1>7, <2>1 DEF Holding, HoldsAt
<1>11. MemoryGood' /\ KeptUp'
  BY <1>2, <1>3, <1>5, <1>7, <1>8, <1>9, MemorySame DEF q
<1>12. ClosedOnce'
  <2> SUFFICES ASSUME NEW i \in 1..made, i \notin raced'
               PROVE  ClosedBy(i, audit, ledger.pending, ledger.stale)'
    BY <1>2 DEF ClosedOnce
  <2>1. i \notin raced /\ (ledger.pending = q.p \/ ledger.pending # i) /\ i # 0
    BY <1>1, <1>2
  <2>2. ClosedBy(i, audit, ledger.pending, ledger.stale)
    BY <1>1, <2>1 DEF ClosedOnce
  <2>3. \A u \in Turns : turn'[u].p # i
    <3> SUFFICES ASSUME NEW u \in Turns, turn'[u].p = i PROVE FALSE
      OBVIOUS
    <3>1. u # t /\ turn[u].p = i
      BY <1>5, <1>7, <2>1
    <3>2. ledger.pending = i
      BY <2>2, <3>1 DEF ClosedBy
    <3>3. turn[t].p = i
      BY <2>1, <3>2 DEF q
    <3> QED
      BY <2>2, <3>1, <3>3 DEF ClosedBy
  <2>4. Len(audit'[i]) = 1
    <3>1. CASE ledger.pending # i
      <4>1. Len(audit[i]) = 1
        BY <2>2, <3>1 DEF ClosedBy
      <4> QED
        BY <1>1, <1>2, <3>1, <4>1, PurgedLog
    <3>2. CASE ledger.pending = i
      <4>1. turn[t].p = i /\ AtNode(t, "clear")
        BY <1>1, <2>1, <3>2 DEF q, AtNode
      <4>2. Len(audit[i]) = 1 /\ ~ledger.stale
        BY <2>2, <4>1 DEF ClosedBy
      <4> QED
        BY <1>1, <1>2, <4>2, PurgedLog
    <3> QED
      BY <3>1, <3>2
  <2> QED
    BY <1>6, <2>1, <2>3, <2>4 DEF ClosedBy
<1> QED
  BY <1>9, <1>10, <1>11, <1>12 DEF AgentInv

LEMMA ProposeKeeps ==
  ASSUME AgentInv, NEW t \in Turns, Propose(t)
  PROVE  AgentInv'
<1>1. /\ AgentTypes /\ Holding /\ ClosedOnce /\ turn[t] \in Turn /\ turn[t].pc = "propose"
      /\ HoldsAt(turn[t]) /\ made \in Nat
  BY DEF AgentInv, AgentTypes, Holding, Propose, AtNode
<1> DEFINE q == turn[t]
           what == q.what
           state == [q EXCEPT !.pc = "output", !.what = NoSuggestion, !.shown = made']
           s == _ensure_session
           log == _log_pending_ttl_reject
<1>2. /\ Moves(t, state) /\ audit' = Append(log, <<>>) /\ made' = made + 1
      /\ ledger' = [s EXCEPT !.pending = made', !.what = what]
      /\ raced' = raced \cup {_purge_expired.pending}
      /\ UNCHANGED <<redis, entries, writes>>
  BY DEF Propose, set_pending_memory
<1>3. q \in Turn /\ q.p = 0 /\ q.pc = "propose" /\ what \in Suggestions
  BY <1>1 DEF HoldsAt, Closing
<1>4. s \in Session /\ s.stale = FALSE /\ made' \in Nat
  <2>1. s \in Session /\ s.stale = FALSE
    BY <1>1, Purge
  <2>2. made' \in Nat
    BY <1>1, <1>2
  <2> QED
    BY <2>1, <2>2
<1>5. log \in Seq(Seq(Event)) /\ Len(log) = made /\ Extends(log, audit)
  BY <1>1, PurgedLog DEF Extends, AgentTypes
<1> HIDE DEF q, what, s
<1>6. state \in Turn /\ state.p = 0 /\ state.pc = "output"
  BY <1>3, <1>4 DEF Turn, Whats
<1>7. /\ ledger' \in Session /\ ledger'.pending = made' /\ ledger'.stale = FALSE
      /\ ledger'.what = what
  BY <1>2, <1>3, <1>4 DEF Session, Whats
<1> HIDE DEF state, log
<1>8. turn' \in [Turns -> Turn] /\ turn'[t] = state
      /\ \A u \in Turns : u # t => turn'[u] = turn[u]
  BY <1>1, <1>2, <1>6, Moved
<1>9. /\ audit' \in Seq(Seq(Event)) /\ Len(audit') = made'
      /\ \A i \in 1..made : audit'[i] = log[i]
      /\ audit'[made'] = <<>>
  <2>1. <<>> \in Seq(Event)
    OBVIOUS
  <2> DEFINE none == <<>>
  <2> HIDE DEF none
  <2>2. /\ Append(log, none) \in Seq(Seq(Event)) /\ Len(Append(log, none)) = made + 1
        /\ \A i \in 1..made : Append(log, none)[i] = log[i]
        /\ Append(log, none)[made + 1] = none
    BY <1>1, <1>5, <2>1 DEF none
  <2> QED
    BY <1>2, <2>2 DEF none
<1>10. Extends(audit', audit)
  BY <1>1, <1>2, <1>5, <1>9 DEF Extends, AgentTypes
<1>11. AgentTypes'
  BY <1>1, <1>2, <1>7, <1>8, <1>9 DEF AgentTypes
<1>12. Holding'
  <2>1. HoldsAt(turn[t])'
    BY <1>4, <1>6, <1>8 DEF HoldsAt, Closing
  <2>2. ASSUME NEW u \in Turns, u # t PROVE HoldsAt(turn[u])'
    BY <1>1, <1>2, <1>8, <2>2 DEF Holding, HoldsAt
  <2> QED
    BY <1>3, <1>4, <1>7, <2>1, <2>2 DEF Holding
<1>13. MemoryGood' /\ KeptUp'
  BY <1>2, <1>3, <1>6, <1>8, <1>10, <1>11, MemorySame DEF q
<1>14. ClosedOnce'
  <2> SUFFICES ASSUME NEW i \in 1..made', i \notin raced'
               PROVE  ClosedBy(i, audit, ledger.pending, ledger.stale)'
    BY DEF ClosedOnce
  <2>1. \A u \in Turns : turn'[u].p = turn[u].p
    BY <1>3, <1>6, <1>8 DEF q
  <2>2. CASE i = made'
    <3>1. \A u \in Turns : turn'[u].p # i
      BY <1>1, <1>2, <2>1, <2>2 DEF Holding, HoldsAt
    <3>2. Len(audit'[i]) = 0
      BY <1>9, <2>2
    <3> QED
      BY <1>7, <2>2, <3>1, <3>2 DEF ClosedBy
  <2>3. CASE i # made'
    <3>1. i \in 1..made /\ i \notin raced /\ _purge_expired.pending # i
      BY <1>1, <1>2, <2>3
    <3>2. ClosedBy(i, log, _purge_expired.pending, FALSE)
      BY <1>1, <3>1, PurgeCloses DEF log
    <3>3. \A u \in Turns : turn[u].p # i
      BY <3>1, <3>2 DEF ClosedBy
    <3>4. Len(audit'[i]) = 1
      BY <1>9, <3>1, <3>2 DEF ClosedBy
    <3>5. ledger'.pending # i
      BY <1>7, <2>3
    <3> QED
      BY <2>1, <3>3, <3>4, <3>5 DEF ClosedBy
  <2> QED
    BY <2>2, <2>3
<1> QED
  BY <1>11, <1>12, <1>13, <1>14 DEF AgentInv

LEMMA SessionAgesKeeps ==
  ASSUME AgentInv, SessionAges
  PROVE  AgentInv'
<1>1. AgentTypes /\ Holding /\ ClosedOnce
  BY DEF AgentInv
<1>2. /\ ledger' = [ledger EXCEPT !.stale = TRUE] /\ ~ledger.stale
      /\ raced' = IF \E u \in Turns : turn[u].p = ledger.pending
                  THEN raced \cup {ledger.pending} ELSE raced
      /\ UNCHANGED <<redis, entries, audit, turn, made, writes>>
  BY DEF SessionAges
<1>3. /\ ledger' \in Session /\ ledger'.pending = ledger.pending /\ ledger'.what = ledger.what
      /\ ledger'.stale = TRUE
  BY <1>1, <1>2 DEF AgentTypes, Session
<1>4. AgentTypes'
  BY <1>1, <1>2, <1>3 DEF AgentTypes
<1>5. Holding'
  BY <1>1, <1>2, <1>3 DEF Holding, HoldsAt
<1>6. MemoryGood' /\ KeptUp'
  BY <1>1, <1>2, <1>4, LogSame, MemorySame
<1>7. ClosedOnce'
  BY <1>1, <1>2, <1>3 DEF ClosedOnce, ClosedBy, AtNode
<1> QED
  BY <1>4, <1>5, <1>6, <1>7 DEF AgentInv

\* An entry grows old, and stays what it was.
Aged(old, new) ==
    /\ DOMAIN new = DOMAIN old
    /\ \A k \in DOMAIN old :
          /\ new[k].label = old[k].label /\ new[k].at = old[k].at
          /\ new[k].p = old[k].p /\ new[k].poison = old[k].poison

LEMMA EntryAged ==
  ASSUME AgentTypes, EntryAges
  PROVE  entries' \in Seq(Entry) /\ Aged(entries, entries')
<1>1. PICK i \in DOMAIN entries : entries' = [entries EXCEPT ![i].old = TRUE]
  BY DEF EntryAges
<1> DEFINE e == entries[i]
           aged == [e EXCEPT !.old = TRUE]
<1>2. entries \in Seq(Entry) /\ e \in Entry
  BY <1>1 DEF AgentTypes
<1>3. entries' = [entries EXCEPT ![i] = aged]
  BY <1>1
<1> HIDE DEF e
<1>4. /\ aged \in Entry /\ aged.label = e.label /\ aged.at = e.at /\ aged.p = e.p
      /\ aged.poison = e.poison
  BY <1>2 DEF Entry
<1> HIDE DEF aged
<1>5. /\ DOMAIN entries' = DOMAIN entries /\ entries'[i] = aged
      /\ \A k \in DOMAIN entries : k # i => entries'[k] = entries[k]
  <2>1. entries \in [DOMAIN entries -> Entry]
    BY <1>2
  <2> QED
    BY <1>1, <1>3, <2>1
<1>6. entries' \in Seq(Entry)
  <2>1. entries \in Seq(Entry) /\ i \in DOMAIN entries /\ aged \in Entry
    BY <1>1, <1>2, <1>4
  <2> QED
    BY <1>3, <2>1
<1> QED
  BY <1>4, <1>5, <1>6 DEF Aged, e

LEMMA EntryAgesKeeps ==
  ASSUME AgentInv, EntryAges
  PROVE  AgentInv'
<1>1. AgentTypes /\ Holding /\ ClosedOnce
  BY DEF AgentInv
<1>2. UNCHANGED <<redis, ledger, audit, turn, made, writes, raced>>
  BY DEF EntryAges
<1>3. entries' \in Seq(Entry) /\ Aged(entries, entries')
  BY <1>1, EntryAged
<1>4. AgentTypes'
  BY <1>1, <1>2, <1>3 DEF AgentTypes
<1>5. Holding'
  BY <1>1, <1>2 DEF Holding, HoldsAt
<1>6. ClosedOnce'
  BY <1>1, <1>2 DEF ClosedOnce, ClosedBy, AtNode
<1>7. \A p : Justified(p) => Justified(p)'
  BY <1>2 DEF Justified, Approved, Vouches
<1>8. MemoryGood'
  BY <1>2, <1>3, <1>7 DEF AgentInv, MemoryGood, Good, AtNode, Aged
<1>9. KeptUp'
  BY <1>2, <1>3 DEF AgentInv, KeptUp, KeepsUp, Ordered, Aged
<1> QED
  BY <1>4, <1>5, <1>6, <1>8, <1>9 DEF AgentInv

-----------------------------------------------------------------------------
(* The agent: what its steps keep, together.                               *)

AgentNext ==
    \/ \E t \in Turns : \/ TurnStep(t, Suggestions)
                        \/ \E q \in Questions : Ask(t, q)
                        \/ LookupBegins(t)
                        \/ \E found \in BOOLEAN : LookupEnds(t, found)
    \/ SessionAges \/ EntryAges

LEMMA AgentStart == AgentInit => AgentInv
<1> SUFFICES ASSUME AgentInit PROVE AgentInv
  OBVIOUS
<1>1. EmptySession \in Session /\ EmptySession.stale = FALSE /\ EmptySession.pending = 0
  BY DEF EmptySession, Session, NoProposal, Whats
<1>2. \A t \in Turns : turn[t] = Rest
  BY DEF AgentInit
<1>3. /\ entries = <<>> /\ audit = <<>> /\ made = 0 /\ writes = 0 /\ redis \in BOOLEAN
      /\ ledger = EmptySession
  BY DEF AgentInit
<1>4. entries \in Seq(Entry) /\ audit \in Seq(Seq(Event)) /\ DOMAIN entries = {}
      /\ Len(audit) = 0
  BY <1>3
<1>5. turn \in [Turns -> Turn]
  BY RestTyped DEF AgentInit
<1>6. AgentTypes
  BY <1>1, <1>3, <1>4, <1>5 DEF AgentTypes
<1>7. Holding
  <2>1. \A t \in Turns : HoldsAt(turn[t])
    BY <1>2, <1>3, RestTyped DEF HoldsAt, Closing
  <2> QED
    BY <1>1, <1>3, <2>1 DEF Holding
<1>8. MemoryGood /\ KeptUp
  BY <1>2, <1>4, RestTyped DEF MemoryGood, KeptUp, KeepsUp, Ordered, AtNode
<1>9. ClosedOnce
  BY <1>3 DEF ClosedOnce
<1> QED
  BY <1>6, <1>7, <1>8, <1>9 DEF AgentInv

LEMMA AgentStep == AgentInv /\ (AgentNext \/ UNCHANGED agent_vars) => AgentInv'
<1> SUFFICES ASSUME AgentInv, AgentNext \/ UNCHANGED agent_vars PROVE AgentInv'
  OBVIOUS
<1>1. ASSUME NEW t \in Turns, TurnStep(t, Suggestions) PROVE AgentInv'
  <2>1. CASE resolve_memory(t)
    BY <2>1, ResolveKeeps
  <2>2. CASE WriteRefused(t)
    BY <2>2, RefusedKeeps
  <2>3. CASE write_memory(t)
    BY <2>3, WriteKeeps
  <2>4. CASE read_memory(t)
    BY <2>4, ReadKeeps
  <2>5. CASE consolidate_location(t)
    BY <2>5, TidyKeeps
  <2>6. CASE log_proposal_event(t)
    BY <2>6, LogKeeps
  <2>7. CASE clear_pending_memory(t)
    BY <2>7, ClearKeeps
  <2>8. CASE route_sources(t)
    BY <2>8, RouteKeeps
  <2>9. CASE \E documents, reads \in BOOLEAN, what \in Suggestions \cup {NoSuggestion} :
                compose_answer(t, documents, reads, what)
    BY <2>9, ComposeKeeps DEF Whats
  <2>10. CASE NodeRaises(t)
    BY <2>10, RaisesKeeps
  <2>11. CASE attach_memory_proposal(t)
    BY <2>11, AttachKeeps
  <2>12. CASE Propose(t)
    BY <2>12, ProposeKeeps
  <2>13. CASE \E blocked \in BOOLEAN : output_guardrails(t, blocked)
    BY <2>13, OutputKeeps
  <2>14. CASE Answered(t)
    BY <2>14, AnsweredKeeps
  <2> QED
    BY <1>1, <2>1, <2>2, <2>3, <2>4, <2>5, <2>6, <2>7, <2>8, <2>9, <2>10, <2>11, <2>12,
       <2>13, <2>14 DEF TurnStep
<1>2. ASSUME NEW t \in Turns, NEW q \in Questions, Ask(t, q) PROVE AgentInv'
  BY <1>2, AskKeeps
<1>3. ASSUME NEW t \in Turns, LookupBegins(t) \/ \E found \in BOOLEAN : LookupEnds(t, found)
      PROVE  AgentInv'
  BY <1>3, LookupKeeps
<1>4. CASE SessionAges
  BY <1>4, SessionAgesKeeps
<1>5. CASE EntryAges
  BY <1>5, EntryAgesKeeps
<1>6. CASE UNCHANGED agent_vars
  BY <1>6 DEF agent_vars, AgentInv, AgentTypes, Holding, HoldsAt, MemoryGood, Good, Justified,
     Approved, Vouches, ClosedOnce, ClosedBy, KeptUp, KeepsUp, Ordered, AtNode
<1> QED
  BY <1>1, <1>2, <1>3, <1>4, <1>5, <1>6 DEF AgentNext

\* Two of the properties are of a state.
LEMMA AgentGood == AgentInv => ProposalsAccounted /\ MemoryIsApproved
<1> SUFFICES ASSUME AgentInv PROVE ProposalsAccounted /\ MemoryIsApproved
  OBVIOUS
<1>1. ProposalsAccounted
  <2> SUFFICES ASSUME NEW p \in 1..made, p \notin raced
               PROVE  \/ audit[p] = <<>> /\ ledger.pending = p
                      \/ Len(audit[p]) = 1 /\ (ledger.pending # p \/ Held(p))
    BY DEF ProposalsAccounted
  <2>1. ClosedBy(p, audit, ledger.pending, ledger.stale)
    BY DEF AgentInv, ClosedOnce
  <2>2. audit[p] \in Seq(Event)
    BY DEF AgentInv, AgentTypes
  <2>3. CASE ledger.pending # p \/ \E t \in Turns : turn[t].p = p /\ AtNode(t, "clear")
    BY <2>1, <2>3 DEF ClosedBy, Held
  <2>4. CASE ~(ledger.pending # p \/ \E t \in Turns : turn[t].p = p /\ AtNode(t, "clear"))
    <3>1. Len(audit[p]) = 0 /\ ledger.pending = p
      BY <2>1, <2>4 DEF ClosedBy
    <3> QED
      BY <2>2, <3>1
  <2> QED
    BY <2>3, <2>4
<1>2. MemoryIsApproved
  <2> SUFFICES ASSUME NEW e \in ToSet(entries)
               PROVE  /\ ~e.poison
                      /\ \/ \E k \in DOMAIN audit[e.p] :
                               audit[e.p][k].outcome # "rejected" /\ ~audit[e.p][k].refused
                         \/ \E t \in Turns : turn[t].p = e.p /\ "refuse" \notin turn[t].cues
    BY DEF MemoryIsApproved
  <2>1. Good(e)
    BY DEF AgentInv, MemoryGood, ToSet
  <2>2. \A t \in Turns : Vouches(t, e.p) => turn[t].p = e.p /\ "refuse" \notin turn[t].cues
    BY DEF AgentInv, Holding, HoldsAt, Vouches, Closing
  <2> QED
    BY <2>1, <2>2 DEF Good, Justified, Approved
<1> QED
  BY <1>1, <1>2

-----------------------------------------------------------------------------
(* The agent: the memory keeps up.                                         *)

\* An entry still counts after a step: one of its label that is not older
\* is there.
Replaced(e) == \E f \in ToSet(entries') : f.label = e.label /\ f.at >= e.at

LEMMA NotOld ==
  ASSUME AgentTypes, NEW keep, entries' = Where(entries, keep),
         \A e \in ToSet(entries) : ~e.old => e \in keep
  PROVE  \A e \in ToSet(entries) : e.old \/ Replaced(e)
<1> SUFFICES ASSUME NEW k \in DOMAIN entries, ~entries[k].old PROVE Replaced(entries[k])
  BY DEF ToSet
<1>1. entries \in Seq(Entry) /\ DOMAIN entries = 1..Len(entries) /\ entries[k] \in Entry
  BY DEF AgentTypes
<1>2. entries[k] \in keep
  BY DEF ToSet
<1> DEFINE new == Where(entries, keep)
<1>3. new \in Seq(Entry) /\ \E i \in 1..Len(new) : new[i] = entries[k]
  BY <1>1, <1>2, WhereKeeps
<1>4. entries' = new
  OBVIOUS
<1> HIDE DEF new
<1>5. entries[k] \in ToSet(entries')
  BY <1>3, <1>4 DEF ToSet
<1>6. entries[k].at >= entries[k].at
  BY <1>1 DEF Entry
<1> QED
  BY <1>5, <1>6 DEF Replaced

LEMMA NotFallenBack ==
  ASSUME AgentTypes, NEW e \in Entry, entries' = Upserted(e),
         \A i \in DOMAIN entries : entries[i].label = e.label => entries[i].at <= e.at
  PROVE  \A g \in ToSet(entries) : Replaced(g)
<1> SUFFICES ASSUME NEW i \in DOMAIN entries PROVE Replaced(entries[i])
  BY DEF ToSet
<1>1. entries[i] \in Entry
  BY DEF AgentTypes
<1> DEFINE new == Upserted(e)
<1>2. PICK k \in DOMAIN new : new[k] = IF entries[i].label = e.label THEN e ELSE entries[i]
  BY UpsertedRows
<1>3. new \in Seq(Entry)
  BY UpsertedRows
<1>4. entries' = new
  OBVIOUS
<1> HIDE DEF new
<1>5. new[k] \in ToSet(entries')
  BY <1>2, <1>4 DEF ToSet
<1>6. new[k].label = entries[i].label /\ new[k].at >= entries[i].at
  BY <1>1, <1>2 DEF Entry
<1> QED
  BY <1>5, <1>6 DEF Replaced

LEMMA Remembers ==
  ASSUME AgentInv, AgentNext
  PROVE  \A e \in ToSet(entries) :
            \/ e.old \/ Replaced(e)
            \/ \E t \in Turns : turn[t].pc = "tidy" /\ turn[t].late
<1>1. AgentTypes /\ \A e \in ToSet(entries) : e \in Entry
  BY DEF AgentInv, AgentTypes, ToSet
<1>2. ASSUME UNCHANGED entries PROVE \A e \in ToSet(entries) : Replaced(e)
  BY <1>1, <1>2 DEF Replaced, Entry
<1>3. ASSUME NEW t \in Turns, read_memory(t)
      PROVE  \A e \in ToSet(entries) : e.old \/ Replaced(e)
  <2> DEFINE label == turn[t].what.label
             keep == {e \in ToSet(entries) : ~(e.old /\ SamePlace(e.label, label))}
  <2>1. entries' = Where(entries, keep)
    BY <1>3 DEF read_memory, WithoutOld
  <2>2. \A e \in ToSet(entries) : ~e.old => e \in keep
    OBVIOUS
  <2> HIDE DEF keep
  <2> QED
    BY <1>1, <2>1, <2>2, NotOld
<1>4. ASSUME NEW t \in Turns, NEW documents, NEW reads, NEW what,
             compose_answer(t, documents, reads, what)
      PROVE  \A e \in ToSet(entries) : e.old \/ Replaced(e)
  <2>1. CASE UNCHANGED entries
    BY <1>2, <2>1
  <2>2. CASE ~UNCHANGED entries
    <3> DEFINE keep == {e \in ToSet(entries) : ~e.old}
    <3>1. entries' = Where(entries, keep)
      BY <1>4, <2>2 DEF compose_answer
    <3>2. \A e \in ToSet(entries) : ~e.old => e \in keep
      OBVIOUS
    <3> HIDE DEF keep
    <3> QED
      BY <1>1, <3>1, <3>2, NotOld
  <2> QED
    BY <2>1, <2>2
<1>5. ASSUME NEW t \in Turns, write_memory(t)
      PROVE  \A e \in ToSet(entries) : Replaced(e)
  <2>1. PICK e \in Entry : entries' = Upserted(e) /\ e.at = writes + 1
    BY <1>5, Wrote
  <2>2. writes \in Nat /\ \A i \in DOMAIN entries : entries[i].at \in Nat /\ entries[i].at <= writes
    <3>1. \A i \in DOMAIN entries : entries[i] \in Entry
      BY <1>1 DEF AgentTypes
    <3> QED
      BY <1>1, <3>1 DEF AgentInv, KeptUp, Ordered, Entry, AgentTypes
  <2>3. \A i \in DOMAIN entries : entries[i].at <= e.at
    BY <2>1, <2>2
  <2> QED
    BY <1>1, <2>1, <2>3, NotFallenBack
<1>6. ASSUME NEW t \in Turns, consolidate_location(t), ~turn[t].late
      PROVE  \A e \in ToSet(entries) : Replaced(e)
  <2> DEFINE row == turn[t].row
             label == turn[t].what.label
             e == [row EXCEPT !.label = label, !.clean = TRUE]
  <2>1. /\ entries' = Upserted(e) /\ row \in Entry /\ label \in Labels
        /\ \A i \in DOMAIN entries : entries[i].label = label => entries[i].at <= row.at
    <3>1. turn[t].pc = "tidy" /\ entries' = Upserted(e)
      BY <1>6 DEF consolidate_location, AtNode
    <3>2. row \in Entry /\ turn[t].what \in Suggestions
      BY <3>1 DEF AgentInv, Holding, HoldsAt, Closing
    <3>3. \A i \in DOMAIN entries : entries[i].label = label => entries[i].at <= row.at
      BY <1>6, <3>1 DEF AgentInv, KeptUp, KeepsUp
    <3>4. label \in Labels
      BY <3>2, SupportAgentAssumption
    <3> QED
      BY <3>1, <3>2, <3>3, <3>4
  <2> HIDE DEF row, label
  <2>2. e \in Entry /\ e.label = label /\ e.at = row.at
    BY <2>1 DEF Entry
  <2> HIDE DEF e
  <2> QED
    BY <1>1, <2>1, <2>2, NotFallenBack
<1>7. ASSUME EntryAges PROVE \A e \in ToSet(entries) : Replaced(e)
  <2> SUFFICES ASSUME NEW k \in DOMAIN entries PROVE Replaced(entries[k])
    BY DEF ToSet
  <2>1. /\ k \in DOMAIN entries' /\ entries'[k].label = entries[k].label
        /\ entries'[k].at = entries[k].at
    BY <1>1, <1>7, EntryAged DEF Aged
  <2>2. entries[k] \in Entry
    BY <1>1 DEF AgentTypes
  <2> QED
    BY <2>1, <2>2 DEF Replaced, ToSet, Entry
<1>8. ASSUME NEW t \in Turns, consolidate_location(t), turn[t].late
      PROVE  turn[t].pc = "tidy" /\ turn[t].late
  BY <1>8 DEF consolidate_location, AtNode
<1>9. \/ UNCHANGED entries
      \/ \E t \in Turns : \/ read_memory(t) \/ write_memory(t) \/ consolidate_location(t)
                          \/ \E documents, reads \in BOOLEAN, what \in Suggestions \cup {NoSuggestion} :
                                compose_answer(t, documents, reads, what)
      \/ EntryAges
  BY DEF AgentNext, TurnStep, Ask, LookupBegins, LookupEnds, SessionAges, resolve_memory,
     WriteRefused, log_proposal_event, clear_pending_memory, route_sources, NodeRaises,
     attach_memory_proposal, Propose, output_guardrails, Answered
<1> QED
  BY <1>2, <1>3, <1>4, <1>5, <1>6, <1>7, <1>8, <1>9

-----------------------------------------------------------------------------
(* The incident desk.                                                      *)

(* A write marks every other change of its row that is under way, so a     *)
(* change without the mark was checked against the status it replaces, and *)
(* from a closed status nothing passes the check.                          *)

(* The desk with all its threads serving staff.                            *)
DeskNext == StaffNext(Handlers, VALID_STATUSES)

Incident == [source : STRING, status : VALID_STATUSES, raced : BOOLEAN]
Patch == [id : Nat, target : VALID_STATUSES, late : BOOLEAN]

DeskTypes ==
    /\ incidents \in Seq(Incident)
    /\ handler \in [Handlers -> Patch]

(* A change under way is of a row that exists and, unless it was marked,   *)
(* one that the status of the row still allows.                            *)
CheckedOn ==
    \A h \in Handlers :
        handler[h].id # 0 =>
            /\ handler[h].id \in DOMAIN incidents
            /\ ~handler[h].late =>
                  validate_transition(incidents[handler[h].id].status, handler[h].target)

DeskInv == DeskTypes /\ CheckedOn

LEMMA DeskStart == DeskInit => DeskInv
BY DEF DeskInit, DeskInv, DeskTypes, CheckedOn, NoPatch, Patch, VALID_STATUSES

LEMMA IncidentAdded ==
    ASSUME DeskInv, NEW src \in STRING, NEW s \in VALID_STATUSES,
           insert(src, s), UNCHANGED <<handler, patches>>
    PROVE  DeskInv'
<1>1. [source |-> src, status |-> s, raced |-> FALSE] \in Incident
  BY DEF Incident
<1>2. /\ incidents \in Seq(Incident)
      /\ incidents' = Append(incidents, [source |-> src, status |-> s, raced |-> FALSE])
  BY DEF DeskInv, DeskTypes, insert
<1>3. incidents' \in Seq(Incident) /\ DOMAIN incidents \subseteq DOMAIN incidents'
  BY <1>1, <1>2
<1>4. \A i \in DOMAIN incidents : incidents'[i] = incidents[i]
  BY <1>1, <1>2
<1>5. DeskTypes'
  BY <1>3 DEF DeskInv, DeskTypes
<1>6. CheckedOn'
  BY <1>3, <1>4 DEF DeskInv, CheckedOn
<1> QED
  BY <1>5, <1>6 DEF DeskInv

LEMMA PatchChecked ==
    ASSUME DeskInv, NEW h \in Handlers, NEW i, NEW s \in VALID_STATUSES,
           update_incident_status(h, i, s)
    PROVE  DeskInv'
<1>1. /\ handler' = [handler EXCEPT ![h] = [id |-> i, target |-> s, late |-> FALSE]]
      /\ incidents' = incidents
      /\ i \in DOMAIN incidents
      /\ validate_transition(incidents[i].status, s)
  BY DEF update_incident_status
<1>2. DeskTypes'
  <2>1. incidents \in Seq(Incident) /\ i \in Nat
    BY <1>1 DEF DeskInv, DeskTypes
  <2> QED
    BY <1>1, <2>1 DEF DeskInv, DeskTypes, Patch
<1>3. CheckedOn'
  <2> SUFFICES ASSUME NEW g \in Handlers, handler'[g].id # 0
               PROVE  /\ handler'[g].id \in DOMAIN incidents
                      /\ ~handler'[g].late =>
                            validate_transition(incidents[handler'[g].id].status,
                                                handler'[g].target)
    BY <1>1 DEF CheckedOn, validate_transition
  <2>1. CASE g = h
    BY <2>1, <1>1 DEF DeskInv, DeskTypes
  <2>2. CASE g # h
    BY <2>2, <1>1 DEF DeskInv, DeskTypes, CheckedOn
  <2> QED
    BY <2>1, <2>2
<1> QED
  BY <1>2, <1>3 DEF DeskInv

LEMMA PatchWritten ==
    ASSUME DeskInv, NEW h \in Handlers, update_status_fields(h)
    PROVE  DeskInv'
<1> DEFINE i == handler[h].id
<1>1. i \in DOMAIN incidents /\ handler[h] \in Patch
  BY DEF DeskInv, DeskTypes, CheckedOn, update_status_fields
<1>2. /\ incidents' = [incidents EXCEPT ![i].status = handler[h].target,
                                        ![i].raced = handler[h].late]
      /\ handler' = [g \in Handlers |->
                        IF g = h THEN NoPatch
                        ELSE [handler[g] EXCEPT !.late = @ \/ handler[g].id = i]]
  BY DEF update_status_fields
<1>3. incidents' \in Seq(Incident) /\ DOMAIN incidents' = DOMAIN incidents
  <2> DEFINE row == [[incidents[i] EXCEPT !.status = handler[h].target]
                        EXCEPT !.raced = handler[h].late]
  <2>1. incidents \in Seq(Incident) /\ incidents[i] \in Incident
    BY <1>1 DEF DeskInv, DeskTypes
  <2>2. row \in Incident
    BY <1>1, <2>1 DEF Incident, Patch
  <2>3. incidents' = [incidents EXCEPT ![i] = row]
    BY <1>1, <1>2, <2>1
  <2> HIDE DEF row
  <2> QED
    BY <1>1, <2>1, <2>2, <2>3
<1>4. \A k \in DOMAIN incidents : k # i => incidents'[k] = incidents[k]
  BY <1>2 DEF DeskInv, DeskTypes
<1>5. /\ handler'[h] = NoPatch
      /\ \A g \in Handlers : g # h /\ handler[g].id = i =>
             handler'[g] = [handler[g] EXCEPT !.late = TRUE]
      /\ \A g \in Handlers : g # h /\ handler[g].id # i => handler'[g] = handler[g]
  BY <1>2 DEF DeskInv, DeskTypes, Patch
<1>6. handler' \in [Handlers -> Patch]
  BY <1>2 DEF DeskInv, DeskTypes, Patch, NoPatch, VALID_STATUSES
<1>7. CheckedOn'
  <2> SUFFICES ASSUME NEW g \in Handlers, handler'[g].id # 0
               PROVE  /\ handler'[g].id \in DOMAIN incidents'
                      /\ ~handler'[g].late =>
                            validate_transition(incidents'[handler'[g].id].status,
                                                handler'[g].target)
    BY DEF CheckedOn, validate_transition
  <2>1. g # h
    BY <1>5 DEF NoPatch
  <2>2. CASE handler[g].id = i
    BY <2>1, <2>2, <1>1, <1>3, <1>5 DEF DeskInv, DeskTypes, Patch
  <2>3. CASE handler[g].id # i
    BY <2>1, <2>3, <1>3, <1>4, <1>5 DEF DeskInv, CheckedOn
  <2> QED
    BY <2>2, <2>3
<1> QED
  BY <1>3, <1>6, <1>7 DEF DeskInv, DeskTypes

LEMMA DeskStep == DeskInv /\ [DeskNext]_desk_vars => DeskInv'
<1> SUFFICES ASSUME DeskInv, [DeskNext]_desk_vars
             PROVE  DeskInv'
  OBVIOUS
<1>1. ASSUME NEW row \in SeedRows, seed_batch(row) PROVE DeskInv'
  <2>1. row.source \in STRING /\ row.status \in VALID_STATUSES
    BY <1>1, IncidentDeskAssumption DEF seed_batch
  <2> QED
    BY <1>1, <2>1, IncidentAdded DEF seed_batch
<1>2. ASSUME NEW s \in VALID_STATUSES, create_incident(s), UNCHANGED <<handler, patches>>
      PROVE  DeskInv'
  <2>1. incidents \in Seq(Incident) /\ Len(incidents) < MaxIncidents
    BY <1>2 DEF create_incident, insert, DeskInv, DeskTypes
  <2>2. ManualText[Len(incidents) + 1] \in STRING
    BY <2>1, IncidentDeskAssumption
  <2> QED
    BY <1>2, <2>2, IncidentAdded DEF create_incident
<1>3. ASSUME NEW h \in Handlers, NEW i \in 1..MaxIncidents, NEW s \in VALID_STATUSES,
             update_incident_status(h, i, s)
      PROVE  DeskInv'
  BY <1>3, PatchChecked
<1>4. ASSUME NEW h \in Handlers, update_status_fields(h) PROVE DeskInv'
  BY <1>4, PatchWritten
<1>5. CASE UNCHANGED desk_vars
  BY <1>5 DEF desk_vars, DeskInv, DeskTypes, CheckedOn, validate_transition
<1> QED
  BY <1>1, <1>2, <1>3, <1>4, <1>5 DEF DeskNext, StaffNext

(* What may become of the table, and what that leaves of a closed row.     *)
TableSteps ==
    \/ UNCHANGED incidents
    \/ \E src, s : insert(src, s)
    \/ \E h \in Handlers : update_status_fields(h)

LEMMA ClosedRowKept ==
    ASSUME DeskInv, TableSteps, NEW k \in DOMAIN incidents,
           _ALLOWED_TRANSITIONS[incidents[k].status] = {},
           incidents'[k].status # incidents[k].status
    PROVE  incidents'[k].raced
<1>1. \A src, s : insert(src, s) => incidents'[k] = incidents[k]
  BY DEF insert, DeskInv, DeskTypes
<1>2. PICK h \in Handlers : update_status_fields(h)
  BY <1>1 DEF TableSteps
<1>3. /\ handler[h].id \in DOMAIN incidents /\ handler[h].id # 0
      /\ incidents' = [incidents EXCEPT ![handler[h].id].status = handler[h].target,
                                        ![handler[h].id].raced = handler[h].late]
  BY <1>2 DEF update_status_fields, DeskInv, CheckedOn
<1>4. k = handler[h].id
  BY <1>3 DEF DeskInv, DeskTypes
<1>5. ~validate_transition(incidents[k].status, handler[h].target)
  BY DEF validate_transition
<1>6. handler[h].late
  BY <1>3, <1>4, <1>5 DEF DeskInv, CheckedOn
<1> DEFINE row == [[incidents[k] EXCEPT !.status = handler[h].target]
                      EXCEPT !.raced = handler[h].late]
<1>7. incidents[k] \in Incident
  BY DEF DeskInv, DeskTypes
<1>8. row.raced = handler[h].late
  BY <1>7 DEF Incident
<1>9. incidents' = [incidents EXCEPT ![k] = row]
  BY <1>3, <1>4 DEF DeskInv, DeskTypes
<1>10. incidents'[k] = row
  BY <1>9 DEF DeskInv, DeskTypes
<1> QED
  BY <1>6, <1>8, <1>10

-----------------------------------------------------------------------------
(* The tokens.                                                             *)

\* The provers do not take a literal for a member of STRING.
Refs == STRING \cup {""}

Call == [pc : {"idle", "token", "acquire", "send", "drop", "patching", "done"},
         tool : {"none", "check", "create", "update", "stock"},
         stage : {"none", "get", "list", "create", "update", "stock"},
         ref : Refs, want : VALID_STATUSES, token : Nat, rejected : Nat,
         result : {"none", "ok", "NOT_FOUND", "UPSTREAM_ERROR", "VALIDATION_ERROR"},
         id : Nat, status : VALID_STATUSES]

TokenTypes ==
    /\ issued \in Nat /\ good \subseteq 1..issued /\ cached \in 0..issued
    /\ call \in [Callers -> Call]

\* A token that a call was refused with is dead, and the call does not go
\* on with it: neither by what it holds nor by what the cache has for it.
Apart(q) ==
    /\ q.token \in 0..issued /\ q.rejected \in 0..issued
    /\ q.rejected # 0 => q.rejected \notin good
    /\ q.pc = "drop" => q.rejected # 0
    /\ q.pc = "send" => q.token # q.rejected
    /\ q.pc \in {"token", "acquire"} => q.rejected = 0 \/ q.rejected # cached

\* Only a writer's call writes.
Scoped(c, q) ==
    /\ q.stage \in {"create", "update"} => c \in Writers
    /\ q.pc = "patching" => q.stage = "update"

InOrder(c, q) == Apart(q) /\ Scoped(c, q)

TokenInv == TokenTypes /\ \A c \in Callers : InOrder(c, call[c])

\* Every step of a tool call, or of the tokens.
ToolNext ==
    \/ \E c \in Callers : \/ CallStep(c) \/ Collect(c)
                          \/ \E tool \in {"check", "create", "update", "stock"}, ref \in Refs,
                                want \in VALID_STATUSES : Begin(c, tool, ref, want)
    \/ TokenNext

LEMMA NoCallTyped ==
  NoCall \in Call /\ NoCall.token = 0 /\ NoCall.rejected = 0 /\ NoCall.pc = "idle" /\ NoCall.stage = "none"
<1> DEFINE open == "open"
           ref == ""
<1>1. open \in VALID_STATUSES
  BY DEF VALID_STATUSES
<1>2. ref \in Refs
  BY DEF Refs
<1>3. NoCall = [pc |-> "idle", tool |-> "none", stage |-> "none", ref |-> ref, want |-> open,
                token |-> 0, rejected |-> 0, result |-> "none", id |-> 0, status |-> open]
  BY DEF NoCall, NoServiceToken
<1> HIDE DEF open, ref
<1> QED
  BY <1>1, <1>2, <1>3 DEF Call

LEMMA TokenStart == ToolsInit => TokenInv
BY NoCallTyped DEF ToolsInit, TokenInv, TokenTypes, InOrder, Scoped, Apart, NoServiceToken

LEMMA CallChanged ==
  ASSUME TokenTypes, NEW c \in Callers, NEW q \in Call, call' = [call EXCEPT ![c] = q]
  PROVE  /\ call' \in [Callers -> Call] /\ call'[c] = q
         /\ \A d \in Callers : d # c => call'[d] = call[d]
BY DEF TokenTypes

\* A call that ends, or starts again.
Afresh(c, q) ==
    /\ q \in Call /\ q.token = 0 /\ q.rejected = 0 /\ q.pc \in {"idle", "token", "done"}
    /\ Scoped(c, q)

LEMMA AfreshKeeps ==
  ASSUME TokenInv, NEW c \in Callers, NEW q, Afresh(c, q), call' = [call EXCEPT ![c] = q],
         UNCHANGED <<issued, good, cached>>
  PROVE  TokenInv'
<1>1. TokenTypes /\ q \in Call
  BY DEF TokenInv, Afresh
<1>2. /\ call' \in [Callers -> Call] /\ call'[c] = q
      /\ \A d \in Callers : d # c => call'[d] = call[d]
  BY <1>1, CallChanged
<1>3. TokenTypes'
  BY <1>1, <1>2 DEF TokenTypes
<1>4. InOrder(c, call[c])'
  BY <1>1, <1>2 DEF InOrder, Scoped, Apart, Afresh, TokenTypes
<1>5. \A d \in Callers : d # c => InOrder(d, call[d])'
  BY <1>2 DEF TokenInv, InOrder, Scoped, Apart
<1> QED
  BY <1>3, <1>4, <1>5 DEF TokenInv

LEMMA ReturnsAfresh ==
  ASSUME TokenInv, NEW c \in Callers,
         NEW result \in {"ok", "NOT_FOUND", "UPSTREAM_ERROR", "VALIDATION_ERROR"},
         Returns(c, result), UNCHANGED <<issued, good, cached>>
  PROVE  TokenInv'
<1> DEFINE none == NoCall
           q == [none EXCEPT !.pc = "done", !.result = result]
<1>1. none \in Call /\ none.token = 0 /\ none.rejected = 0 /\ none.stage = "none"
  BY NoCallTyped
<1>2. call' = [call EXCEPT ![c] = q]
  BY DEF Returns
<1> HIDE DEF none
<1>3. Afresh(c, q)
  BY <1>1 DEF Afresh, Scoped, Call
<1> HIDE DEF q
<1> QED
  BY <1>2, <1>3, AfreshKeeps

LEMMA FindsAfresh ==
  ASSUME TokenInv, DeskTypes, NEW c \in Callers, NEW i \in DOMAIN incidents, Finds(c, i),
         UNCHANGED <<issued, good, cached>>
  PROVE  TokenInv'
<1> DEFINE none == NoCall
           status == incidents[i].status
           q == [none EXCEPT !.pc = "done", !.result = "ok", !.id = i, !.status = status]
<1>1. none \in Call /\ none.token = 0 /\ none.rejected = 0 /\ none.stage = "none"
  BY NoCallTyped
<1>2. call' = [call EXCEPT ![c] = q]
  BY DEF Finds
<1>3. i \in Nat /\ status \in VALID_STATUSES
  <2>1. incidents \in Seq(Incident)
    BY DEF DeskTypes
  <2>2. i \in Nat /\ incidents[i] \in Incident
    BY <2>1
  <2> QED
    BY <2>2 DEF Incident
<1> HIDE DEF none, status
<1>4. Afresh(c, q)
  BY <1>1, <1>3 DEF Afresh, Scoped, Call
<1> HIDE DEF q
<1> QED
  BY <1>2, <1>4, AfreshKeeps

LEMMA BeginKeeps ==
  ASSUME TokenInv, NEW c \in Callers, NEW tool \in {"check", "create", "update", "stock"},
         NEW ref \in Refs, NEW want \in VALID_STATUSES, Begin(c, tool, ref, want)
  PROVE  TokenInv'
<1> DEFINE none == NoCall
           stage == IF tool # "check" THEN tool ELSE IF IsNumericRef(ref) THEN "get" ELSE "list"
           q == [none EXCEPT !.pc = "token", !.tool = tool, !.ref = ref, !.want = want,
                             !.stage = stage]
<1>1. none \in Call /\ none.token = 0 /\ none.rejected = 0 /\ none.stage = "none"
  BY NoCallTyped
<1>2. call' = [call EXCEPT ![c] = q] /\ UNCHANGED <<issued, good, cached>>
  BY DEF Begin, token_vars
<1>3. /\ stage \in {"get", "list", "create", "update", "stock"}
      /\ stage \in {"create", "update"} => c \in Writers
  BY DEF Begin, require_scopes
<1> HIDE DEF none, stage
<1>4. Afresh(c, q)
  BY <1>1, <1>3 DEF Afresh, Scoped, Call
<1> HIDE DEF q
<1> QED
  BY <1>2, <1>4, AfreshKeeps

LEMMA CollectKeeps ==
  ASSUME TokenInv, NEW c \in Callers, Collect(c)
  PROVE  TokenInv'
<1>1. Afresh(c, NoCall)
  BY NoCallTyped DEF Afresh, Scoped
<1> QED
  BY <1>1, AfreshKeeps DEF Collect, token_vars

LEMMA TakesToken ==
  ASSUME TokenInv, NEW c \in Callers, service_access_token(c)
  PROVE  TokenInv'
<1>1. TokenTypes /\ call[c] \in Call /\ InOrder(c, call[c]) /\ call[c].pc = "token"
      /\ cached \in Nat /\ UNCHANGED <<issued, good, cached>>
  BY DEF TokenInv, TokenTypes, service_access_token, InCall
<1> DEFINE old == call[c]
           sends == [old EXCEPT !.pc = "send", !.token = cached]
           acquires == [old EXCEPT !.pc = "acquire"]
<1>2. \/ cached # 0 /\ call' = [call EXCEPT ![c] = sends]
      \/ call' = [call EXCEPT ![c] = acquires]
  BY <1>1 DEF service_access_token, NoServiceToken, TokenTypes
<1>3. old \in Call /\ old.pc = "token"
  BY <1>1
<1> HIDE DEF old
<1>4. /\ sends \in Call /\ sends.token = cached /\ sends.rejected = old.rejected /\ sends.stage = old.stage
      /\ sends.pc = "send"
      /\ acquires \in Call /\ acquires.token = old.token /\ acquires.rejected = old.rejected /\ acquires.stage = old.stage
      /\ acquires.pc = "acquire"
  BY <1>1, <1>3 DEF Call
<1> HIDE DEF sends, acquires
<1>5. PICK q \in Call : /\ call' = [call EXCEPT ![c] = q]
                        /\ q = acquires \/ (q = sends /\ cached # 0)
  BY <1>2, <1>4
<1>6. /\ call' \in [Callers -> Call] /\ call'[c] = q
      /\ \A d \in Callers : d # c => call'[d] = call[d]
  BY <1>1, <1>5, CallChanged
<1>7. TokenTypes'
  BY <1>1, <1>6 DEF TokenTypes
<1>8. InOrder(c, call[c])'
  BY <1>1, <1>3, <1>4, <1>5, <1>6 DEF InOrder, Scoped, Apart, TokenTypes, old
<1>9. \A d \in Callers : d # c => InOrder(d, call[d])'
  BY <1>1, <1>6 DEF TokenInv, InOrder, Scoped, Apart
<1> QED
  BY <1>7, <1>8, <1>9 DEF TokenInv

LEMMA AcquireKeeps ==
  ASSUME TokenInv, NEW c \in Callers, _acquire_service_token(c)
  PROVE  TokenInv'
<1>1. TokenTypes /\ call[c] \in Call /\ InOrder(c, call[c]) /\ issued \in Nat
  BY DEF TokenInv, TokenTypes
<1> DEFINE old == call[c]
           new == issued + 1
           q == [old EXCEPT !.pc = "send", !.token = new]
<1>2. /\ issued' = new /\ good' = good \cup {new} /\ cached' = new
      /\ call' = [call EXCEPT ![c] = q]
  BY <1>1 DEF _acquire_service_token, TokenTypes
<1>3. old \in Call /\ new \in Nat
  BY <1>1
<1> HIDE DEF old, new
<1>4. q \in Call /\ q.token = new /\ q.rejected = old.rejected /\ q.stage = old.stage /\ q.pc = "send"
  BY <1>3 DEF Call
<1> HIDE DEF q
<1>5. /\ call' \in [Callers -> Call] /\ call'[c] = q
      /\ \A d \in Callers : d # c => call'[d] = call[d]
  BY <1>1, <1>2, <1>4, CallChanged
<1>6. TokenTypes'
  BY <1>1, <1>2, <1>5 DEF TokenTypes, new
<1>7. InOrder(c, call[c])'
  BY <1>1, <1>2, <1>4, <1>5 DEF InOrder, Scoped, Apart, old, new
<1>8. ASSUME NEW d \in Callers, d # c PROVE InOrder(d, call[d])'
  <2>1. InOrder(d, call[d]) /\ call'[d] = call[d]
    BY <1>5, <1>8 DEF TokenInv
  <2> QED
    BY <1>1, <1>2, <2>1 DEF InOrder, Scoped, Apart, new
<1> QED
  BY <1>6, <1>7, <1>8 DEF TokenInv

LEMMA DropKeeps ==
  ASSUME TokenInv, NEW c \in Callers, _invalidate_if_current(c)
  PROVE  TokenInv' /\ (cached' # cached => cached \notin good)
<1>1. TokenTypes /\ call[c] \in Call /\ InOrder(c, call[c]) /\ call[c].pc = "drop"
  BY DEF TokenInv, TokenTypes, _invalidate_if_current, InCall
<1> DEFINE old == call[c]
           q == [old EXCEPT !.pc = "token"]
<1>2. /\ cached' = IF cached = old.rejected THEN 0 ELSE cached
      /\ call' = [call EXCEPT ![c] = q] /\ UNCHANGED <<issued, good>>
  BY <1>1 DEF _invalidate_if_current, TokenTypes, NoServiceToken
<1>3. old \in Call /\ old.rejected # 0 /\ old.rejected \notin good
  BY <1>1 DEF InOrder, Scoped, Apart
<1> HIDE DEF old
<1>4. q \in Call /\ q.token = old.token /\ q.rejected = old.rejected /\ q.stage = old.stage /\ q.pc = "token"
  BY <1>3 DEF Call
<1> HIDE DEF q
<1>5. /\ call' \in [Callers -> Call] /\ call'[c] = q
      /\ \A d \in Callers : d # c => call'[d] = call[d]
  BY <1>1, <1>2, <1>4, CallChanged
<1>6. TokenTypes'
  BY <1>1, <1>2, <1>5 DEF TokenTypes
<1>7. InOrder(c, call[c])'
  BY <1>1, <1>2, <1>3, <1>4, <1>5 DEF InOrder, Scoped, Apart, old
<1>8. ASSUME NEW d \in Callers, d # c PROVE InOrder(d, call[d])'
  <2>1. InOrder(d, call[d]) /\ call'[d] = call[d]
    BY <1>5, <1>8 DEF TokenInv
  <2> QED
    BY <1>2, <2>1 DEF InOrder, Scoped, Apart
<1> QED
  BY <1>2, <1>3, <1>6, <1>7, <1>8 DEF TokenInv

LEMMA UnauthorizedKeeps ==
  ASSUME TokenInv, NEW c \in Callers, Unauthorized(c)
  PROVE  TokenInv'
<1>1. /\ TokenTypes /\ call[c] \in Call /\ InOrder(c, call[c]) /\ call[c].pc = "send"
      /\ call[c].token \notin good /\ UNCHANGED <<issued, good, cached>>
  BY DEF TokenInv, TokenTypes, Unauthorized, InCall, token_vars
<1>2. CASE Returns(c, "UPSTREAM_ERROR")
  BY <1>1, <1>2, ReturnsAfresh
<1>3. CASE ~Returns(c, "UPSTREAM_ERROR")
  <2> DEFINE old == call[c]
             q == [old EXCEPT !.pc = "drop", !.rejected = old.token]
  <2>1. old.rejected = 0 /\ call' = [call EXCEPT ![c] = q]
    BY <1>1, <1>3 DEF Unauthorized, TokenTypes, NoServiceToken
  <2>2. old \in Call /\ old.token # 0 /\ old.token \in Nat
    BY <1>1, <2>1 DEF InOrder, Scoped, Apart, Call
  <2> HIDE DEF old
  <2>3. q \in Call /\ q.token = old.token /\ q.rejected = old.token /\ q.stage = old.stage /\ q.pc = "drop"
    BY <2>2 DEF Call
  <2> HIDE DEF q
  <2>4. /\ call' \in [Callers -> Call] /\ call'[c] = q
        /\ \A d \in Callers : d # c => call'[d] = call[d]
    BY <1>1, <2>1, <2>3, CallChanged
  <2>5. TokenTypes'
    BY <1>1, <2>4 DEF TokenTypes
  <2>6. InOrder(c, call[c])'
    BY <1>1, <2>2, <2>3, <2>4 DEF InOrder, Scoped, Apart, old
  <2>7. \A d \in Callers : d # c => InOrder(d, call[d])'
    BY <1>1, <2>4 DEF TokenInv, InOrder, Scoped, Apart
  <2> QED
    BY <2>5, <2>6, <2>7 DEF TokenInv
<1> QED
  BY <1>2, <1>3

\* A number that is no incident's id is looked up as a source id.
LEMMA AsksAgainKeeps ==
  ASSUME TokenInv, NEW c \in Callers, call[c].stage = "get",
         call' = [call EXCEPT ![c].pc = "token", ![c].stage = "list",
                              ![c].rejected = NoServiceToken],
         UNCHANGED <<issued, good, cached>>
  PROVE  TokenInv'
<1>1. TokenTypes /\ call[c] \in Call /\ InOrder(c, call[c])
  BY DEF TokenInv, TokenTypes
<1> DEFINE old == call[c]
           q == [old EXCEPT !.pc = "token", !.stage = "list", !.rejected = 0]
<1>2. call' = [call EXCEPT ![c] = q]
  BY <1>1 DEF TokenTypes, NoServiceToken
<1>3. old \in Call
  BY <1>1
<1> HIDE DEF old
<1>4. q \in Call /\ q.token = old.token /\ q.rejected = 0 /\ q.stage = "list" /\ q.pc = "token"
  BY <1>3 DEF Call
<1> HIDE DEF q
<1>5. /\ call' \in [Callers -> Call] /\ call'[c] = q
      /\ \A d \in Callers : d # c => call'[d] = call[d]
  BY <1>1, <1>2, <1>4, CallChanged
<1>6. TokenTypes'
  BY <1>1, <1>5 DEF TokenTypes
<1>7. InOrder(c, call[c])'
  <2>1. old.token \in 0..issued /\ issued \in Nat /\ issued' = issued
    BY <1>1 DEF InOrder, Apart, TokenTypes, old
  <2>2. q.token \in 0..issued' /\ 0 \in 0..issued'
    BY <1>4, <2>1
  <2> QED
    BY <1>4, <1>5, <2>2 DEF InOrder, Scoped, Apart
<1>8. \A d \in Callers : d # c => InOrder(d, call[d])'
  BY <1>5 DEF TokenInv, InOrder, Scoped, Apart
<1> QED
  BY <1>6, <1>7, <1>8 DEF TokenInv

LEMMA PatchingKeeps ==
  ASSUME TokenInv, NEW c \in Callers, call[c].stage = "update",
         call' = [call EXCEPT ![c].pc = "patching"], UNCHANGED <<issued, good, cached>>
  PROVE  TokenInv'
<1>1. TokenTypes /\ call[c] \in Call /\ InOrder(c, call[c])
  BY DEF TokenInv, TokenTypes
<1> DEFINE old == call[c]
           q == [old EXCEPT !.pc = "patching"]
<1>2. call' = [call EXCEPT ![c] = q]
  BY <1>1 DEF TokenTypes
<1>3. old \in Call
  BY <1>1
<1> HIDE DEF old
<1>4. /\ q \in Call /\ q.token = old.token /\ q.rejected = old.rejected
      /\ q.stage = old.stage /\ q.pc = "patching"
  BY <1>3 DEF Call
<1> HIDE DEF q
<1>5. /\ call' \in [Callers -> Call] /\ call'[c] = q
      /\ \A d \in Callers : d # c => call'[d] = call[d]
  BY <1>1, <1>2, <1>4, CallChanged
<1>6. TokenTypes'
  BY <1>1, <1>5 DEF TokenTypes
<1>7. InOrder(c, call[c])'
  BY <1>1, <1>4, <1>5 DEF InOrder, Scoped, Apart, old
<1>8. \A d \in Callers : d # c => InOrder(d, call[d])'
  BY <1>5 DEF TokenInv, InOrder, Scoped, Apart
<1> QED
  BY <1>6, <1>7, <1>8 DEF TokenInv

LEMMA TokenStep ==
  ASSUME TokenInv, DeskTypes, ToolNext
  PROVE  TokenInv' /\ (cached' # cached => cached' # 0 \/ cached \notin good)
<1> DEFINE Kept == TokenInv' /\ (cached' # cached => cached' # 0 \/ cached \notin good)
<1>0. ASSUME TokenInv', UNCHANGED cached PROVE Kept
  BY <1>0
<1> HIDE DEF Kept
<1>1. ASSUME NEW c \in Callers, CallStep(c) PROVE Kept
  <2>1. CASE service_access_token(c)
    BY <1>0, <2>1, TakesToken DEF service_access_token
  <2>2. CASE _acquire_service_token(c)
    <3>1. cached' # 0
      BY <2>2 DEF _acquire_service_token, TokenInv, TokenTypes
    <3> QED
      BY <2>2, <3>1, AcquireKeeps DEF Kept
  <2>3. CASE AcquireFails(c)
    <3>1. Returns(c, "UPSTREAM_ERROR") /\ UNCHANGED <<issued, good, cached>>
      BY <2>3 DEF AcquireFails
    <3> QED
      BY <1>0, <3>1, ReturnsAfresh
  <2>4. CASE _invalidate_if_current(c)
    BY <2>4, DropKeeps DEF Kept
  <2>5. CASE Unauthorized(c)
    BY <1>0, <2>5, UnauthorizedKeeps DEF Unauthorized, token_vars
  <2>6. CASE check_ticket_status(c)
    <3>1. UNCHANGED <<issued, good, cached>>
      BY <2>6 DEF check_ticket_status, token_vars
    <3>2. CASE \E i \in DOMAIN incidents : Finds(c, i)
      BY <1>0, <3>1, <3>2, FindsAfresh
    <3>3. CASE Returns(c, "NOT_FOUND")
      BY <1>0, <3>1, <3>3, ReturnsAfresh
    <3>4. CASE /\ call[c].stage = "get"
               /\ call' = [call EXCEPT ![c].pc = "token", ![c].stage = "list",
                                       ![c].rejected = NoServiceToken]
      BY <1>0, <3>1, <3>4, AsksAgainKeeps
    <3> QED
      BY <2>6, <3>2, <3>3, <3>4 DEF check_ticket_status, _match_source_incident_id, Named,
         find_by_source_incident_id
  <2>7. CASE create_ticket(c)
    <3>1. Returns(c, "ok") /\ UNCHANGED <<issued, good, cached>>
      BY <2>7 DEF create_ticket, token_vars
    <3> QED
      BY <1>0, <3>1, ReturnsAfresh
  <2>8. CASE update_ticket_status(c)
    <3>1. UNCHANGED <<issued, good, cached>> /\ call[c].stage = "update"
      BY <2>8 DEF update_ticket_status, token_vars
    <3>2. \/ call' = [call EXCEPT ![c].pc = "patching"]
          \/ Returns(c, "NOT_FOUND") \/ Returns(c, "VALIDATION_ERROR")
      BY <2>8 DEF update_ticket_status
    <3> QED
      BY <1>0, <3>1, <3>2, PatchingKeeps, ReturnsAfresh
  <2>9. CASE StatusPatched(c)
    <3>1. Returns(c, "ok") /\ UNCHANGED <<issued, good, cached>>
      BY <2>9 DEF StatusPatched, token_vars
    <3> QED
      BY <1>0, <3>1, ReturnsAfresh
  <2>10. CASE check_stock(c)
    <3>1. Returns(c, "ok") /\ UNCHANGED <<issued, good, cached>>
      BY <2>10 DEF check_stock, token_vars
    <3> QED
      BY <1>0, <3>1, ReturnsAfresh
  <2>11. CASE RequestTimesOut(c)
    <3>1. Returns(c, "UPSTREAM_ERROR") /\ UNCHANGED <<issued, good, cached>>
      BY <2>11 DEF RequestTimesOut, token_vars
    <3> QED
      BY <1>0, <3>1, ReturnsAfresh
  <2>12. CASE PatchWithoutCaller(c)
    <3>1. UNCHANGED <<issued, good, cached, call>>
      BY <2>12 DEF PatchWithoutCaller, token_vars
    <3> QED
      BY <1>0, <3>1 DEF TokenInv, TokenTypes, InOrder, Scoped, Apart
  <2> QED
    BY <1>1, <2>1, <2>2, <2>3, <2>4, <2>5, <2>6, <2>7, <2>8, <2>9, <2>10, <2>11, <2>12
       DEF CallStep
<1>2. ASSUME NEW c \in Callers, Collect(c) PROVE Kept
  BY <1>0, <1>2, CollectKeeps DEF Collect, token_vars
<1>3. ASSUME NEW c \in Callers, NEW tool \in {"check", "create", "update", "stock"},
             NEW ref \in Refs, NEW want \in VALID_STATUSES, Begin(c, tool, ref, want)
      PROVE  Kept
  BY <1>0, <1>3, BeginKeeps DEF Begin, token_vars
<1>4. CASE TokenComesDue
  <2>1. UNCHANGED <<issued, good, cached, call>>
    BY <1>4 DEF TokenComesDue
  <2> QED
    BY <1>0, <2>1 DEF TokenInv, TokenTypes, InOrder, Scoped, Apart
<1>5. ASSUME NEW k, TokenDies(k) PROVE Kept
  <2>1. UNCHANGED <<issued, cached, call>> /\ good' = good \ {k}
    BY <1>5 DEF TokenDies
  <2>2. TokenTypes'
    BY <2>1 DEF TokenInv, TokenTypes
  <2>3. \A c \in Callers : InOrder(c, call[c])'
    BY <2>1 DEF TokenInv, InOrder, Scoped, Apart
  <2> QED
    BY <1>0, <2>1, <2>2, <2>3 DEF TokenInv
<1> QED
  BY <1>1, <1>2, <1>3, <1>4, <1>5 DEF ToolNext, TokenNext, Kept

-----------------------------------------------------------------------------
(* The lookups.                                                            *)

\* A turn that has asked the tool waits at its node; its call is under way
\* and is of the ticket it asked for, or has ended and, if it found one,
\* found it as it was seen.
UnderWay(t, q) ==
    /\ q.ref = turn[t].ref /\ q.stage \in {"get", "list"}
    /\ q.pc \in {"token", "acquire", "send", "drop"}
Ended(t, q) == q.pc = "done" /\ (q.result = "ok" => <<q.id, q.status>> \in seen[t])
Waits(t) ==
    turn[t].tool = "asked" =>
        turn[t].pc = "lookup" /\ (UnderWay(t, call[t]) \/ Ended(t, call[t]))

LookupInv ==
    /\ told = [t \in Turns |-> told[t]]
    /\ \A t \in Turns : Waits(t)

LEMMA LookupStart == AssistantInit => LookupInv
BY DEF AssistantInit, AgentInit, LookupInv, Waits, Rest

LEMMA TurnMoves ==
  ASSUME AgentInv, NEW u \in Turns, TurnStep(u, Suggestions)
  PROVE  /\ turn[u].pc # "lookup"
         /\ \E state : /\ state.tool \in {turn[u].tool, "none"}
                       /\ Moves(u, state) \/ \E label : MovesPast(u, label, state)
<1> DEFINE q == turn[u]
           As(state) == state.tool \in {turn[u].tool, "none"}
           Goes(state) == Moves(u, state) \/ \E label : MovesPast(u, label, state)
<1>1. AgentTypes /\ q \in Turn
  BY DEF AgentInv, AgentTypes
<1>2. turn[u].pc # "lookup"
  BY DEF TurnStep, resolve_memory, WriteRefused, write_memory, read_memory,
     consolidate_location, log_proposal_event, clear_pending_memory, route_sources,
     compose_answer, NodeRaises, attach_memory_proposal, Propose, output_guardrails,
     Answered, AtNode
<1>3. \A pc : As([q EXCEPT !.pc = pc])
  BY <1>1 DEF Turn
<1>4. ASSUME NEW pc, GoTo(u, pc) PROVE \E state : As(state) /\ Goes(state)
  <2> DEFINE state == [q EXCEPT !.pc = pc]
  <2>1. As(state) /\ Moves(u, state)
    BY <1>3, <1>4 DEF GoTo
  <2> HIDE DEF state
  <2> QED
    BY <2>1
<1>5. CASE resolve_memory(u)
  <2> DEFINE p == _purge_expired.pending
             what == ledger.what
             decision == classify_memory_decision(q.cues)
             holds == [q EXCEPT !.p = p, !.what = what]
             pc == IF decision = "rejected" THEN "log" ELSE "write"
             state == [holds EXCEPT !.pc = pc, !.outcome = decision]
  <2>1. GoTo(u, "route") \/ Moves(u, state)
    BY <1>5 DEF resolve_memory
  <2> HIDE DEF p, what, decision, pc
  <2>2. As(state)
    BY <1>1 DEF Turn
  <2> HIDE DEF state
  <2> QED
    BY <1>2, <1>4, <2>1, <2>2
<1>6. CASE WriteRefused(u)
  <2> DEFINE cues == q.cues \ {"asks"}
             state == [q EXCEPT !.pc = "log", !.outcome = "rejected", !.cues = cues]
  <2>1. Moves(u, state)
    BY <1>1, <1>6 DEF WriteRefused
  <2> HIDE DEF cues
  <2>2. As(state)
    BY <1>1 DEF Turn
  <2> HIDE DEF state
  <2> QED
    BY <1>2, <2>1, <2>2
<1>7. CASE write_memory(u)
  <2> DEFINE state == [q EXCEPT !.pc = "read"]
  <2>1. Goes(state) /\ As(state)
    BY <1>3, <1>7 DEF write_memory
  <2> HIDE DEF state
  <2> QED
    BY <1>2, <2>1
<1>8. CASE read_memory(u)
  <2> DEFINE row == Head(Found(q.what.label))
             late == row.label # q.what.label
             state == [q EXCEPT !.pc = "tidy", !.row = row, !.late = late]
  <2>1. GoTo(u, "log") \/ Moves(u, state)
    BY <1>8 DEF read_memory, GoTo
  <2> HIDE DEF row, late
  <2>2. As(state)
    BY <1>1 DEF Turn
  <2> HIDE DEF state
  <2> QED
    BY <1>2, <1>4, <2>1, <2>2
<1>9. CASE consolidate_location(u)
  <2> DEFINE state == [q EXCEPT !.pc = "log", !.row = 0]
  <2>1. Goes(state)
    BY <1>9 DEF consolidate_location
  <2>2. As(state)
    BY <1>1 DEF Turn
  <2> HIDE DEF state
  <2> QED
    BY <1>2, <2>1, <2>2
<1>10. CASE log_proposal_event(u)
  BY <1>2, <1>4, <1>10 DEF log_proposal_event
<1>11. CASE clear_pending_memory(u)
  <2> DEFINE pc == IF Residual(q.cues) THEN "route" ELSE "output"
             state == [q EXCEPT !.p = NoProposal, !.what = NoSuggestion, !.late = FALSE, !.pc = pc]
  <2>1. Moves(u, state)
    BY <1>11 DEF clear_pending_memory
  <2> HIDE DEF pc
  <2>2. As(state)
    BY <1>1 DEF Turn
  <2> HIDE DEF state
  <2> QED
    BY <1>2, <2>1, <2>2
<1>12. CASE route_sources(u)
  <2> DEFINE route == _decide_route(q.cues)
             pc == IF route = "rag" THEN "answer" ELSE "lookup"
             state == [q EXCEPT !.route = route, !.outcome = "none", !.pc = pc]
  <2>1. Moves(u, state)
    BY <1>12 DEF route_sources
  <2> HIDE DEF route, pc
  <2>2. As(state)
    BY <1>1 DEF Turn
  <2> HIDE DEF state
  <2> QED
    BY <1>2, <2>1, <2>2
<1>13. ASSUME NEW documents, NEW reads, NEW what, compose_answer(u, documents, reads, what)
       PROVE  \E state : As(state) /\ Goes(state)
  <2> DEFINE pc == IF what = NoSuggestion THEN "output" ELSE "attach"
             state == [q EXCEPT !.what = what, !.pc = pc]
  <2>1. Moves(u, state)
    BY <1>13 DEF compose_answer
  <2> HIDE DEF pc
  <2>2. As(state)
    BY <1>1 DEF Turn
  <2> HIDE DEF state
  <2> QED
    BY <2>1, <2>2
<1>14. CASE NodeRaises(u)
  <2> DEFINE state == [Rest EXCEPT !.pc = "done"]
  <2>1. Moves(u, state)
    BY <1>14 DEF NodeRaises
  <2>2. As(state)
    BY DEF Rest
  <2> HIDE DEF state
  <2> QED
    BY <1>2, <2>1, <2>2
<1>15. CASE attach_memory_proposal(u)
  <2> DEFINE state == [q EXCEPT !.pc = "output", !.what = NoSuggestion]
  <2>1. GoTo(u, "propose") \/ Moves(u, state)
    BY <1>15 DEF attach_memory_proposal
  <2>2. As(state)
    BY <1>1 DEF Turn
  <2> HIDE DEF state
  <2> QED
    BY <1>2, <1>4, <2>1, <2>2
<1>16. CASE Propose(u)
  <2> DEFINE state == [q EXCEPT !.pc = "output", !.what = NoSuggestion, !.shown = made']
  <2>1. Moves(u, state)
    BY <1>16 DEF Propose
  <2>2. As(state)
    BY <1>1 DEF Turn
  <2> HIDE DEF state
  <2> QED
    BY <1>2, <2>1, <2>2
<1>17. ASSUME NEW blocked, output_guardrails(u, blocked) PROVE \E state : As(state) /\ Goes(state)
  BY <1>4, <1>17 DEF output_guardrails
<1>18. CASE Answered(u)
  <2>1. Moves(u, Rest) /\ As(Rest)
    BY <1>18 DEF Answered, Rest
  <2> QED
    BY <1>2, <2>1
<1> QED
  BY <1>2, <1>5, <1>6, <1>7, <1>8, <1>9, <1>10, <1>11, <1>12, <1>13, <1>14, <1>15, <1>16,
     <1>17, <1>18 DEF TurnStep

\* What turns do besides looking up a ticket leaves those that look one up
\* as they are.
LEMMA TurnsAside ==
  ASSUME AgentInv, AgentInv', NEW u \in Turns, TurnStep(u, Suggestions) \/ \E q : Ask(u, q),
         turn[u].tool = "asked" => turn[u].pc = "lookup",
         NEW t \in Turns, turn[t].tool = "asked" => turn[t].pc = "lookup",
         turn'[t].tool = "asked"
  PROVE  turn'[t] = turn[t]
<1>1. turn \in [Turns -> Turn]
  BY DEF AgentInv, AgentTypes
<1>2. /\ turn[u].pc # "lookup"
      /\ \E state : /\ state.tool \in {turn[u].tool, "none"}
                    /\ Moves(u, state) \/ \E label : MovesPast(u, label, state)
  <2>1. CASE TurnStep(u, Suggestions)
    BY <2>1, TurnMoves
  <2>2. ASSUME NEW q, Ask(u, q) PROVE <1>2
    <3> DEFINE cues == q.cues
               ref == q.ref
               state(pc) == [Rest EXCEPT !.cues = cues, !.ref = ref, !.pc = pc]
    <3>1. turn[u].pc = "idle" /\ \E pc : Moves(u, state(pc))
      BY <2>2 DEF Ask, AtNode, Rest
    <3> HIDE DEF cues, ref
    <3>2. \A pc : state(pc).tool = "none"
      BY DEF Rest
    <3> HIDE DEF state
    <3> QED
      BY <3>1, <3>2
  <2> QED
    BY <2>1, <2>2
<1>3. PICK state : /\ state.tool \in {turn[u].tool, "none"}
                   /\ Moves(u, state) \/ \E label : MovesPast(u, label, state)
  BY <1>2
<1>4. state.tool # "asked"
  BY <1>2, <1>3
<1>5. CASE Moves(u, state)
  BY <1>1, <1>4, <1>5 DEF Moves
<1>6. CASE \E label : MovesPast(u, label, state)
  <2>1. PICK label : MovesPast(u, label, state)
    BY <1>6
  <2>2. t # u
    BY <1>4, <2>1 DEF MovesPast
  <2>3. turn'[t] \in {turn[t], [turn[t] EXCEPT !.late = TRUE]}
        /\ (turn[t].pc # "tidy" => turn'[t] = turn[t])
    BY <2>1, <2>2 DEF MovesPast
  <2> DEFINE old == turn[t]
  <2>4. old \in Turn
    BY <1>1
  <2> HIDE DEF old
  <2>5. [old EXCEPT !.late = TRUE].tool = old.tool
    BY <2>4 DEF Turn
  <2>6. turn[t].tool = "asked"
    BY <2>3, <2>5 DEF old
  <2> QED
    BY <2>3, <2>6
<1> QED
  BY <1>3, <1>5, <1>6

LEMMA LookupMoves ==
  ASSUME AgentInv, NEW t \in Turns, LookupBegins(t) \/ \E found : LookupEnds(t, found)
  PROVE  /\ \A u \in Turns : u # t => turn'[u] = turn[u]
         /\ LookupBegins(t) => turn'[t].pc = "lookup" /\ turn'[t].ref = turn[t].ref
         /\ (\E found : LookupEnds(t, found)) => turn'[t].tool # "asked"
<1> DEFINE q == turn[t]
<1>1. turn \in [Turns -> Turn] /\ q \in Turn
  BY DEF AgentInv, AgentTypes
<1>2. \A u \in Turns : u # t => turn'[u] = turn[u]
  BY <1>1 DEF LookupBegins, LookupEnds, Moves
<1>3. ASSUME LookupBegins(t) PROVE turn'[t].pc = "lookup" /\ turn'[t].ref = turn[t].ref
  <2>1. turn'[t] = [q EXCEPT !.tool = "asked"] /\ q.pc = "lookup"
    BY <1>1, <1>3 DEF LookupBegins, Moves, AtNode
  <2>2. [q EXCEPT !.tool = "asked"].pc = q.pc /\ [q EXCEPT !.tool = "asked"].ref = q.ref
    BY <1>1 DEF Turn
  <2> QED
    BY <2>1, <2>2
<1>4. ASSUME NEW found, LookupEnds(t, found) PROVE turn'[t].tool # "asked"
  <2> DEFINE tool == IF found THEN "found" ELSE "failed"
  <2>1. turn'[t] = [q EXCEPT !.tool = tool, !.pc = "answer"]
    BY <1>1, <1>4 DEF LookupEnds, Moves
  <2>2. tool # "asked"
    OBVIOUS
  <2> HIDE DEF tool
  <2>3. [q EXCEPT !.tool = tool, !.pc = "answer"].tool = tool
    BY <1>1 DEF Turn
  <2> QED
    BY <2>1, <2>2, <2>3
<1> QED
  BY <1>2, <1>3, <1>4

LEMMA SeenGrows ==
  ASSUME AssistantNext, NEW t \in Turns, turn'[t].pc = "lookup"
  PROVE  seen[t] \subseteq seen'[t] /\ NamedBy(incidents', turn'[t].ref) \subseteq seen'[t]
BY DEF AssistantNext, Watches

LEMMA AsideWaits ==
  ASSUME AssistantNext, NEW t \in Turns, Waits(t),
         turn'[t].tool = "asked" => turn'[t] = turn[t] /\ call'[t] = call[t]
  PROVE  Waits(t)'
<1> SUFFICES ASSUME turn'[t].tool = "asked"
             PROVE  turn'[t].pc = "lookup" /\ (UnderWay(t, call[t]) \/ Ended(t, call[t]))'
  BY DEF Waits
<1>1. /\ turn'[t] = turn[t] /\ call'[t] = call[t] /\ turn'[t].pc = "lookup"
      /\ UnderWay(t, call[t]) \/ Ended(t, call[t])
  BY DEF Waits
<1>2. seen[t] \subseteq seen'[t]
  BY <1>1, SeenGrows
<1> QED
  BY <1>1, <1>2 DEF UnderWay, Ended

\* A call of one does not touch the call of another.
LEMMA OneCall ==
  ASSUME TokenTypes, NEW c \in Callers, CallStep(c)
  PROVE  \A d \in Callers : d # c => call'[d] = call[d]
<1>1. call \in [Callers -> Call]
  BY DEF TokenTypes
<1>2. CASE service_access_token(c) \/ _acquire_service_token(c) \/ AcquireFails(c)
  BY <1>1, <1>2 DEF service_access_token, _acquire_service_token, AcquireFails, Returns
<1>3. CASE _invalidate_if_current(c) \/ Unauthorized(c) \/ check_ticket_status(c)
  BY <1>1, <1>3 DEF _invalidate_if_current, Unauthorized, check_ticket_status,
     _match_source_incident_id, Returns, Finds
<1>4. CASE create_ticket(c) \/ update_ticket_status(c) \/ StatusPatched(c)
  BY <1>1, <1>4 DEF create_ticket, update_ticket_status, StatusPatched, Returns
<1>5. CASE check_stock(c) \/ RequestTimesOut(c) \/ PatchWithoutCaller(c)
  BY <1>1, <1>5 DEF check_stock, RequestTimesOut, PatchWithoutCaller, Returns
<1> QED
  BY <1>2, <1>3, <1>4, <1>5 DEF CallStep

\* The call of a turn that waits goes on, or ends with what is true.
LEMMA CallWaits ==
  ASSUME TokenTypes, AssistantNext, NEW t \in Turns, Waits(t), CallStep(t), UNCHANGED turn
  PROVE  Waits(t)'
<1> SUFFICES ASSUME turn[t].tool = "asked"
             PROVE  turn[t].pc = "lookup" /\ (UnderWay(t, call[t]) \/ Ended(t, call[t]))'
  BY DEF Waits
<1> DEFINE q == call[t]
<1>1. /\ turn[t].pc = "lookup" /\ t \in Callers /\ call \in [Callers -> Call] /\ q \in Call
      /\ UnderWay(t, q) \/ Ended(t, q)
  BY AssistantAssumption DEF Waits, TokenTypes
<1>2. /\ \A r : call' = [call EXCEPT ![t] = r] => call'[t] = r
      /\ seen[t] \subseteq seen'[t]
  BY <1>1, SeenGrows
<1>3. CASE UNCHANGED call
  BY <1>1, <1>2, <1>3 DEF UnderWay, Ended
<1>4. ASSUME NEW result, result # "ok", Returns(t, result) PROVE Ended(t, call[t])'
  <2> DEFINE r == [NoCall EXCEPT !.pc = "done", !.result = result]
  <2>1. r.pc = "done" /\ r.result = result
    BY DEF NoCall
  <2>2. call'[t] = r
    BY <1>1, <1>4 DEF Returns
  <2> QED
    BY <1>4, <2>1, <2>2 DEF Ended
<1>5. CASE PatchWithoutCaller(t)
  BY <1>3, <1>5 DEF PatchWithoutCaller
<1>6. CASE ~PatchWithoutCaller(t)
  <2>1. q.pc # "done"
    BY <1>6 DEF CallStep, service_access_token, _acquire_service_token, AcquireFails,
       _invalidate_if_current, Unauthorized, check_ticket_status, create_ticket,
       update_ticket_status, StatusPatched, check_stock, RequestTimesOut, Accepted, InCall
  <2>2. UnderWay(t, q)
    BY <1>1, <2>1 DEF Ended
  <2>3. CASE service_access_token(t) \/ _acquire_service_token(t) \/ _invalidate_if_current(t)
    <3> DEFINE Same(r) == /\ r.ref = q.ref /\ r.stage = q.stage
                          /\ r.pc \in {"send", "acquire", "token"}
    <3>1. ASSUME NEW pc \in {"acquire", "token"}, NEW r, r = [q EXCEPT !.pc = pc] PROVE Same(r)
      BY <1>1, <3>1 DEF Call
    <3>2. ASSUME NEW k, NEW r, r = [q EXCEPT !.pc = "send", !.token = k] PROVE Same(r)
      BY <1>1, <3>2 DEF Call
    <3> HIDE DEF Same
    <3> DEFINE r == call'[t]
    <3>3. ASSUME service_access_token(t) PROVE Same(r)
      <4>1. r = [q EXCEPT !.pc = "send", !.token = cached] \/ r = [q EXCEPT !.pc = "acquire"]
        BY <1>1, <3>3 DEF service_access_token
      <4> HIDE DEF r
      <4> QED
        BY <3>1, <3>2, <4>1
    <3>4. ASSUME _acquire_service_token(t) PROVE Same(r)
      <4>1. r = [q EXCEPT !.pc = "send", !.token = issued']
        BY <1>1, <3>4 DEF _acquire_service_token
      <4> HIDE DEF r
      <4> QED
        BY <3>2, <4>1
    <3>5. ASSUME _invalidate_if_current(t) PROVE Same(r)
      <4>1. r = [q EXCEPT !.pc = "token"]
        BY <1>1, <3>5 DEF _invalidate_if_current
      <4> HIDE DEF r
      <4> QED
        BY <3>1, <4>1
    <3>6. Same(r)
      BY <2>3, <3>3, <3>4, <3>5
    <3> QED
      BY <1>1, <2>2, <3>6 DEF UnderWay, Same
  <2>4. CASE AcquireFails(t) \/ RequestTimesOut(t)
    BY <1>1, <1>4, <2>4 DEF AcquireFails, RequestTimesOut
  <2>5. CASE Unauthorized(t)
    <3>1. CASE Returns(t, "UPSTREAM_ERROR")
      BY <1>1, <1>4, <3>1
    <3>2. CASE ~Returns(t, "UPSTREAM_ERROR")
      <4>1. call'[t] = [q EXCEPT !.pc = "drop", !.rejected = q.token]
        BY <1>1, <2>5, <3>2 DEF Unauthorized
      <4>2. \A k : /\ [q EXCEPT !.pc = "drop", !.rejected = k].ref = q.ref
                   /\ [q EXCEPT !.pc = "drop", !.rejected = k].stage = q.stage
                   /\ [q EXCEPT !.pc = "drop", !.rejected = k].pc = "drop"
        BY <1>1 DEF Call
      <4>3. call'[t].ref = q.ref /\ call'[t].stage = q.stage /\ call'[t].pc = "drop"
        BY <4>1, <4>2
      <4> QED
        BY <1>1, <2>2, <4>3 DEF UnderWay
    <3> QED
      BY <3>1, <3>2
  <2>6. CASE check_ticket_status(t)
    <3>1. UNCHANGED incidents
      BY <2>6 DEF check_ticket_status, desk_vars
    <3>2. ASSUME NEW i \in Named(q.ref) \cup find_by_source_incident_id(q.ref), Finds(t, i)
          PROVE  Ended(t, call[t])'
      <4> DEFINE r == [NoCall EXCEPT !.pc = "done", !.result = "ok", !.id = i,
                                     !.status = incidents[i].status]
      <4>1. r.pc = "done" /\ r.id = i /\ r.status = incidents[i].status
        BY DEF NoCall
      <4>2. call'[t] = r
        BY <1>1, <3>2 DEF Finds
      <4>3. i \in DOMAIN incidents /\ q.ref \in {IdText[i], incidents[i].source}
        BY <3>2 DEF Named, find_by_source_incident_id
      <4>4. <<i, incidents[i].status>> \in NamedBy(incidents', turn'[t].ref)
        BY <2>2, <3>1, <4>3 DEF NamedBy, UnderWay
      <4>5. <<i, incidents[i].status>> \in seen'[t]
        BY <1>1, <4>4, SeenGrows
      <4> QED
        BY <4>1, <4>2, <4>5 DEF Ended
    <3>3. CASE Returns(t, "NOT_FOUND")
      BY <1>1, <1>4, <3>3
    <3>4. CASE call' = [call EXCEPT ![t].pc = "token", ![t].stage = "list",
                                    ![t].rejected = NoServiceToken]
      <4>1. call'[t] = [q EXCEPT !.pc = "token", !.stage = "list", !.rejected = NoServiceToken]
        BY <1>1, <3>4
      <4>2. \A k : /\ [q EXCEPT !.pc = "token", !.stage = "list", !.rejected = k].ref = q.ref
                   /\ [q EXCEPT !.pc = "token", !.stage = "list", !.rejected = k].stage = "list"
                   /\ [q EXCEPT !.pc = "token", !.stage = "list", !.rejected = k].pc = "token"
        BY <1>1 DEF Call
      <4>3. call'[t].ref = q.ref /\ call'[t].stage = "list" /\ call'[t].pc = "token"
        BY <4>1, <4>2
      <4> QED
        BY <1>1, <2>2, <4>3 DEF UnderWay
    <3> QED
      BY <1>1, <2>6, <3>2, <3>3, <3>4 DEF check_ticket_status, _match_source_incident_id
  <2>7. ~(create_ticket(t) \/ update_ticket_status(t) \/ StatusPatched(t) \/ check_stock(t))
    BY <2>2 DEF UnderWay, create_ticket, update_ticket_status, StatusPatched, check_stock, InCall
  <2> QED
    BY <1>1, <1>6, <2>3, <2>4, <2>5, <2>6, <2>7 DEF CallStep
<1> QED
  BY <1>5, <1>6

-----------------------------------------------------------------------------
(* The assistant: each step is one of some of the parts.                   *)

AssistantInv == scene \in Scenes /\ AgentInv /\ DeskInv /\ TokenInv /\ LookupInv

LEMMA PartOfAgent ==
  ASSUME scene \in Scenes, AssistantNext
  PROVE  AgentNext \/ UNCHANGED agent_vars
<1>1. /\ scene.suggestions \subseteq Suggestions /\ scene.questions \subseteq Questions
      /\ scene.turns \subseteq Turns
  BY AssistantAssumption
<1>2. CASE \E t \in Turns : TurnStep(t, scene.suggestions)
  <2>1. PICK t \in Turns : TurnStep(t, scene.suggestions)
    BY <1>2
  <2>2. TurnStep(t, Suggestions)
    BY <1>1, <2>1 DEF TurnStep
  <2> QED
    BY <2>2 DEF AgentNext
<1>3. CASE \E t \in scene.turns, q \in scene.questions : Ask(t, q)
  BY <1>1, <1>3 DEF AgentNext
<1>4. CASE SessionAges \/ EntryAges
  BY <1>4 DEF AgentNext
<1>5. ASSUME NEW t \in Turns,
             \/ _parse_ticket_input(t) \/ _ainvoke(t) \/ lookup_ticket(t) \/ LookupTimesOut(t)
      PROVE  AgentNext \/ UNCHANGED agent_vars
  <2>1. (call[t].result = "ok") \in BOOLEAN
    OBVIOUS
  <2> QED
    BY <1>5, <2>1 DEF AgentNext, _parse_ticket_input, _ainvoke, lookup_ticket, LookupTimesOut
<1> QED
  BY <1>2, <1>3, <1>4, <1>5 DEF AssistantNext

LEMMA PartOfTools ==
  ASSUME scene \in Scenes, AgentTypes, AssistantNext
  PROVE  ToolNext \/ UNCHANGED <<issued, good, cached, call>>
<1>1. CASE UNCHANGED tool_vars
  BY <1>1 DEF tool_vars, token_vars
<1>2. ASSUME NEW t \in Turns,
             \/ _parse_ticket_input(t) \/ _ainvoke(t) \/ lookup_ticket(t) \/ LookupTimesOut(t)
      PROVE  ToolNext \/ UNCHANGED <<issued, good, cached, call>>
  <2>1. t \in Callers /\ turn[t].ref \in Refs
    BY AssistantAssumption DEF AgentTypes, Turn, Refs
  <2>2. CASE _parse_ticket_input(t)
    BY <1>1, <2>2 DEF _parse_ticket_input
  <2>3. CASE _ainvoke(t)
    BY <2>1, <2>3 DEF _ainvoke, ToolNext, VALID_STATUSES
  <2>4. CASE lookup_ticket(t)
    BY <2>1, <2>4 DEF lookup_ticket, ToolNext
  <2>5. CASE LookupTimesOut(t)
    BY <2>5 DEF LookupTimesOut, token_vars
  <2> QED
    BY <1>2, <2>2, <2>3, <2>4, <2>5
<1>3. ASSUME NEW c \in Callers \ Turns, OtherClient(c) PROVE ToolNext
  <2>1. \A r \in ToSet(IdText) : r \in Refs
    <3>1. IdText \in Seq(STRING)
      BY IncidentDeskAssumption
    <3>2. \A i \in DOMAIN IdText : IdText[i] \in STRING
      BY <3>1
    <3> QED
      BY <3>2 DEF ToSet, Refs
  <2>2. scene.statuses \subseteq VALID_STATUSES
    BY AssistantAssumption
  <2> QED
    BY <1>3, <2>1, <2>2 DEF OtherClient, ToolNext
<1>4. CASE \E c \in Callers : CallStep(c)
  BY <1>4 DEF ToolNext
<1>5. CASE TokenNext
  BY <1>5 DEF ToolNext
<1>6. CASE UNCHANGED <<token_vars, call, toolFaults, others>>
  BY <1>6 DEF token_vars
<1> QED
  BY <1>1, <1>2, <1>3, <1>4, <1>5, <1>6 DEF AssistantNext

LEMMA PartOfDesk ==
  ASSUME scene \in Scenes, DeskInv, TokenInv, AssistantNext
  PROVE  DeskInv'
<1>1. CASE UNCHANGED desk_vars
  BY <1>1, DeskStep
<1>2. ASSUME NEW c \in Callers, CallStep(c) PROVE DeskInv'
  <2>1. InOrder(c, call[c]) /\ call[c].want \in VALID_STATUSES
    BY DEF TokenInv, TokenTypes, Call
  <2>2. call[c].stage \in {"create", "update"} \/ call[c].pc = "patching" => c \in Handlers
    BY <2>1, CompanyToolsAssumption DEF InOrder, Scoped
  <2>3. CASE create_incident(call[c].want) /\ UNCHANGED <<handler, patches>>
    <3>1. DeskNext
      BY <2>1, <2>3 DEF DeskNext, StaffNext
    <3> QED
      BY <3>1, DeskStep
  <2>4. CASE update_ticket_status(c)
    <3>1. c \in Handlers
      BY <2>2, <2>4 DEF update_ticket_status
    <3>2. UNCHANGED desk_vars \/ \E i : update_incident_status(c, i, call[c].want)
      BY <2>4 DEF update_ticket_status
    <3> QED
      BY <1>1, <2>1, <3>1, <3>2, PatchChecked
  <2>5. CASE StatusPatched(c) \/ (c \in Writers /\ PatchWithoutCaller(c))
    <3>1. c \in Handlers /\ update_status_fields(c)
      BY <2>2, <2>5, CompanyToolsAssumption DEF StatusPatched, PatchWithoutCaller, InCall
    <3>2. DeskNext
      BY <3>1 DEF DeskNext, StaffNext
    <3> QED
      BY <3>2, DeskStep
  <2> QED
    BY <1>1, <1>2, <2>3, <2>4, <2>5 DEF CallStep, service_access_token, _acquire_service_token,
       AcquireFails, _invalidate_if_current, Unauthorized, check_ticket_status, create_ticket,
       check_stock, RequestTimesOut, desk_vars
<1>3. CASE StaffNext(scene.staff, scene.statuses)
  <2>1. scene.staff \subseteq Handlers /\ scene.statuses \subseteq VALID_STATUSES
    BY AssistantAssumption
  <2>2. DeskNext
    BY <1>3, <2>1 DEF DeskNext, StaffNext
  <2> QED
    BY <2>2, DeskStep
<1>4. CASE TokenNext
  BY <1>1, <1>4 DEF TokenNext, TokenComesDue, TokenDies
<1>5. ASSUME NEW c \in Callers \ Turns, OtherClient(c) PROVE DeskInv'
  BY <1>1, <1>5 DEF OtherClient, Begin, Collect
<1>6. ASSUME NEW t \in Turns,
             \/ _parse_ticket_input(t) \/ _ainvoke(t) \/ lookup_ticket(t) \/ LookupTimesOut(t)
      PROVE  DeskInv'
  BY <1>1, <1>6 DEF _parse_ticket_input, _ainvoke, lookup_ticket, LookupTimesOut, Begin,
     Collect, tool_vars
<1>7. CASE UNCHANGED tool_vars
  BY <1>1, <1>7 DEF tool_vars
<1> QED
  BY <1>2, <1>3, <1>4, <1>5, <1>6, <1>7 DEF AssistantNext

LEMMA PartOfTable ==
  ASSUME scene \in Scenes, DeskInv, TokenInv, AssistantNext
  PROVE  TableSteps
<1>1. ASSUME NEW c \in Callers, CallStep(c) PROVE TableSteps
  <2>1. call[c].pc = "patching" => c \in Handlers
    BY CompanyToolsAssumption DEF TokenInv, TokenTypes, InOrder, Scoped
  <2>2. CASE StatusPatched(c) \/ (c \in Writers /\ PatchWithoutCaller(c))
    BY <2>1, <2>2, CompanyToolsAssumption DEF StatusPatched, PatchWithoutCaller, InCall, TableSteps
  <2>3. CASE update_ticket_status(c)
    BY <2>3 DEF update_ticket_status, update_incident_status, desk_vars, TableSteps
  <2>4. CASE create_ticket(c) \/ RequestTimesOut(c)
    BY <2>4 DEF create_ticket, RequestTimesOut, create_incident, desk_vars, TableSteps
  <2> QED
    BY <1>1, <2>2, <2>3, <2>4 DEF CallStep, service_access_token, _acquire_service_token,
       AcquireFails, _invalidate_if_current, Unauthorized, check_ticket_status,
       check_stock, desk_vars, TableSteps
<1>2. CASE StaffNext(scene.staff, scene.statuses)
  <2>1. scene.staff \subseteq Handlers
    BY AssistantAssumption
  <2> QED
    BY <1>2, <2>1 DEF StaffNext, seed_batch, create_incident, update_incident_status, TableSteps
<1>3. CASE TokenNext
  BY <1>3 DEF TokenNext, TokenComesDue, TokenDies, desk_vars, TableSteps
<1>4. ASSUME NEW c \in Callers \ Turns, OtherClient(c) PROVE TableSteps
  BY <1>4 DEF OtherClient, Begin, Collect, desk_vars, TableSteps
<1>5. ASSUME NEW t \in Turns,
             \/ _parse_ticket_input(t) \/ _ainvoke(t) \/ lookup_ticket(t) \/ LookupTimesOut(t)
      PROVE  TableSteps
  BY <1>5 DEF _parse_ticket_input, _ainvoke, lookup_ticket, LookupTimesOut, Begin,
     Collect, tool_vars, desk_vars, TableSteps
<1>6. CASE UNCHANGED tool_vars
  BY <1>6 DEF tool_vars, desk_vars, TableSteps
<1> QED
  BY <1>1, <1>2, <1>3, <1>4, <1>5, <1>6 DEF AssistantNext

\* What a turn asks and is told.
LEMMA PartOfLookups ==
  ASSUME AssistantInv, AgentInv', AssistantNext
  PROVE  /\ LookupInv'
         /\ \A t \in Turns : told'[t] # told[t] => told'[t] \in seen[t] \cup {Nothing}
<1> DEFINE ToldTrue == \A t \in Turns : told'[t] # told[t] => told'[t] \in seen[t] \cup {Nothing}
<1>1. /\ AgentInv /\ TokenTypes /\ LookupInv /\ turn \in [Turns -> Turn]
      /\ call \in [Callers -> Call] /\ Turns \subseteq Callers /\ Turns \cap Writers = {}
      /\ \A t \in Turns : Waits(t)
  BY AssistantAssumption DEF AssistantInv, AgentInv, AgentTypes, TokenInv, TokenTypes, LookupInv
<1>2. \A t \in Turns : turn[t].tool = "asked" => turn[t].pc = "lookup"
  BY <1>1 DEF Waits
<1>3. /\ scene.suggestions \subseteq Suggestions /\ scene.questions \subseteq Questions
      /\ scene.turns \subseteq Turns
  BY AssistantAssumption DEF AssistantInv
<1>4. ASSUME UNCHANGED <<agent_vars, told>>,
             \A t \in Turns : call'[t] = call[t] \/ Waits(t)'
      PROVE  LookupInv' /\ ToldTrue
  <2>1. turn' = turn
    BY <1>4 DEF agent_vars
  <2> QED
    BY <1>1, <1>4, <2>1, AsideWaits DEF LookupInv
<1>5. CASE /\ \/ \E t \in Turns : TurnStep(t, scene.suggestions)
              \/ \E t \in scene.turns, q \in scene.questions : Ask(t, q)
              \/ SessionAges \/ EntryAges
           /\ told' = [t \in Turns |-> IF turn'[t].pc = "idle" THEN Nothing ELSE told[t]]
           /\ UNCHANGED tool_vars
  <2>1. call' = call
    BY <1>5 DEF tool_vars
  <2>2. ASSUME NEW t \in Turns, turn'[t].tool = "asked" PROVE turn'[t] = turn[t]
    <3>1. ASSUME NEW u \in Turns, TurnStep(u, scene.suggestions) PROVE turn'[t] = turn[t]
      <4>1. TurnStep(u, Suggestions)
        BY <1>3, <3>1 DEF TurnStep
      <4> QED
        BY <1>1, <1>2, <2>2, <4>1, TurnsAside
    <3>2. ASSUME NEW u \in Turns, NEW q, Ask(u, q) PROVE turn'[t] = turn[t]
      BY <1>1, <1>2, <2>2, <3>2, TurnsAside
    <3>3. CASE SessionAges \/ EntryAges
      BY <3>3 DEF SessionAges, EntryAges
    <3> QED
      BY <1>3, <1>5, <3>1, <3>2, <3>3
  <2>3. \A t \in Turns : Waits(t)'
    BY <1>1, <2>1, <2>2, AsideWaits
  <2> QED
    BY <1>1, <1>5, <2>3 DEF LookupInv
\* A lookup that has nothing to ask, or is given up.
<1>6. ASSUME NEW t \in Turns, LookupEnds(t, FALSE), UNCHANGED <<call, told>>
      PROVE  LookupInv' /\ ToldTrue
  <2>1. turn'[t].tool # "asked" /\ \A u \in Turns : u # t => turn'[u] = turn[u]
    BY <1>1, <1>6, LookupMoves
  <2>2. \A u \in Turns : Waits(u)'
    BY <1>1, <1>6, <2>1, AsideWaits
  <2> QED
    BY <1>1, <1>6, <2>2 DEF LookupInv
<1>7. ASSUME NEW t \in Turns, _ainvoke(t) PROVE LookupInv' /\ ToldTrue
  <2>1. /\ LookupBegins(t) /\ Begin(t, "check", turn[t].ref, "open") /\ told' = told
    BY <1>7 DEF _ainvoke
  <2>2. /\ turn'[t].pc = "lookup" /\ turn'[t].ref = turn[t].ref
        /\ \A u \in Turns : u # t => turn'[u] = turn[u]
    BY <1>1, <2>1, LookupMoves
  <2> DEFINE ref == turn[t].ref
             stage == IF IsNumericRef(ref) THEN "get" ELSE "list"
             q == [NoCall EXCEPT !.pc = "token", !.tool = "check", !.ref = ref,
                                 !.want = "open", !.stage = stage]
  <2>3. call'[t] = q /\ \A u \in Turns : u # t => call'[u] = call[u]
    BY <1>1, <2>1 DEF Begin
  <2> HIDE DEF ref
  <2>4. q.pc = "token" /\ q.ref = ref /\ q.stage \in {"get", "list"}
    BY DEF NoCall
  <2> HIDE DEF q
  <2>5. Waits(t)'
    BY <2>2, <2>3, <2>4 DEF Waits, UnderWay, ref
  <2>6. \A u \in Turns : u # t => Waits(u)'
    BY <1>1, <2>2, <2>3, AsideWaits
  <2> QED
    BY <1>1, <2>1, <2>5, <2>6 DEF LookupInv
<1>8. ASSUME NEW t \in Turns, lookup_ticket(t) PROVE LookupInv' /\ ToldTrue
  <2>1. /\ call[t].pc = "done" /\ \A u \in Turns : u # t => call'[u] = call[u]
    BY <1>1, <1>8 DEF lookup_ticket, Collect, InCall
  <2>2. CASE AtNode(t, "lookup") /\ turn[t].tool = "asked"
    <3> DEFINE found == call[t].result = "ok"
               tells == IF found THEN <<call[t].id, call[t].status>> ELSE Nothing
    <3>1. LookupEnds(t, found) /\ told' = [told EXCEPT ![t] = tells]
      BY <1>8, <2>2 DEF lookup_ticket
    <3>2. turn'[t].tool # "asked" /\ \A u \in Turns : u # t => turn'[u] = turn[u]
      BY <1>1, <3>1, LookupMoves
    <3>3. \A u \in Turns : Waits(u)'
      BY <1>1, <2>1, <3>2, AsideWaits
    <3>4. tells \in seen[t] \cup {Nothing}
      BY <1>1, <2>1, <2>2 DEF Waits, UnderWay, Ended
    <3> HIDE DEF found, tells
    <3>5. told' = [u \in Turns |-> told'[u]]
          /\ \A u \in Turns : told'[u] = IF u = t THEN tells ELSE told[u]
      BY <1>1, <3>1 DEF LookupInv
    <3> QED
      BY <3>3, <3>4, <3>5 DEF LookupInv
  <2>3. CASE ~(AtNode(t, "lookup") /\ turn[t].tool = "asked")
    <3>1. UNCHANGED <<agent_vars, told>>
      BY <1>8, <2>3 DEF lookup_ticket
    <3>2. turn' = turn
      BY <3>1 DEF agent_vars
    <3>3. turn[t].tool # "asked"
      BY <1>2, <2>3 DEF AtNode
    <3>4. Waits(t)'
      BY <3>2, <3>3 DEF Waits
    <3> QED
      BY <1>4, <2>1, <3>1, <3>4
  <2> QED
    BY <2>2, <2>3
<1>9. ASSUME UNCHANGED <<agent_vars, told>>, NEW c \in Callers, CallStep(c)
      PROVE  LookupInv' /\ ToldTrue
  <2>1. \A d \in Callers : d # c => call'[d] = call[d]
    BY <1>1, <1>9, OneCall
  <2>2. turn' = turn
    BY <1>9 DEF agent_vars
  <2>3. c \in Turns => Waits(c)'
    BY <1>1, <1>9, <2>2, CallWaits
  <2> QED
    BY <1>1, <1>4, <1>9, <2>1, <2>3
<1>10. ASSUME UNCHANGED <<agent_vars, told>>, NEW c \in Callers \ Turns, OtherClient(c)
       PROVE  LookupInv' /\ ToldTrue
  <2>1. \A d \in Callers : d # c => call'[d] = call[d]
    BY <1>1, <1>10 DEF OtherClient, Begin, Collect
  <2> QED
    BY <1>1, <1>4, <1>10, <2>1
<1>11. ASSUME UNCHANGED <<agent_vars, told>>, UNCHANGED call PROVE LookupInv' /\ ToldTrue
  BY <1>4, <1>11
<1>12. CASE \E t \in Turns : \/ _parse_ticket_input(t) \/ _ainvoke(t)
                             \/ lookup_ticket(t) \/ LookupTimesOut(t)
  BY <1>6, <1>7, <1>8, <1>12 DEF _parse_ticket_input, LookupTimesOut, tool_vars
<1>13. CASE /\ \/ \E c \in Callers : CallStep(c)
               \/ TokenNext
               \/ \E c \in Callers \ Turns : OtherClient(c)
               \/ UNCHANGED call
            /\ UNCHANGED <<agent_vars, told>>
  <2>1. TokenNext => UNCHANGED call
    BY DEF TokenNext, TokenComesDue, TokenDies
  <2> QED
    BY <1>9, <1>10, <1>11, <1>13, <2>1
<1> QED
  BY <1>5, <1>12, <1>13 DEF AssistantNext

LEMMA AssistantStart == AssistantInit => AssistantInv
<1> SUFFICES ASSUME AssistantInit PROVE AssistantInv
  OBVIOUS
<1>1. AgentInit /\ ToolsInit /\ scene \in Scenes
  BY DEF AssistantInit
<1>2. DeskInv
  BY <1>1, DeskStart DEF ToolsInit
<1> QED
  BY <1>1, <1>2, AgentStart, TokenStart, LookupStart DEF AssistantInv

LEMMA AssistantStep == AssistantInv /\ [AssistantNext]_assistant_vars => AssistantInv'
<1> SUFFICES ASSUME AssistantInv, [AssistantNext]_assistant_vars PROVE AssistantInv'
  OBVIOUS
<1>1. scene \in Scenes /\ AgentInv /\ DeskInv /\ TokenInv /\ LookupInv
  BY DEF AssistantInv
<1>2. CASE AssistantNext
  <2>1. scene' \in Scenes
    BY <1>1, <1>2 DEF AssistantNext
  <2>2. AgentInv'
    BY <1>1, <1>2, PartOfAgent, AgentStep
  <2>3. DeskInv'
    BY <1>1, <1>2, PartOfDesk
  <2>4. TokenInv'
    <3>1. CASE ToolNext
      BY <1>1, <3>1, TokenStep DEF DeskInv
    <3>2. CASE UNCHANGED <<issued, good, cached, call>>
      BY <1>1, <3>2 DEF TokenInv, TokenTypes, InOrder, Scoped, Apart
    <3> QED
      BY <1>1, <1>2, <3>1, <3>2, PartOfTools DEF AgentInv
  <2>5. LookupInv'
    BY <1>2, <2>2, PartOfLookups
  <2> QED
    BY <2>1, <2>2, <2>3, <2>4, <2>5 DEF AssistantInv
<1>3. CASE UNCHANGED assistant_vars
  <2>1. UNCHANGED <<agent_vars, desk_vars, issued, good, cached, call, scene, told, seen>>
    BY <1>3 DEF assistant_vars, tool_vars, token_vars
  <2>2. AgentInv' /\ DeskInv'
    BY <1>1, <2>1, AgentStep, DeskStep
  <2>3. TokenInv'
    BY <1>1, <2>1 DEF TokenInv, TokenTypes, InOrder, Scoped, Apart
  <2>4. LookupInv'
    BY <1>1, <2>1 DEF LookupInv, Waits, UnderWay, Ended, agent_vars
  <2> QED
    BY <1>1, <2>1, <2>2, <2>3, <2>4 DEF AssistantInv
<1> QED
  BY <1>2, <1>3

-----------------------------------------------------------------------------
(* The theorems.                                                           *)

(* In every reachable state the four parts fit together: the agent's       *)
(* memory, ledger and log, the incident desk, the token cache and the      *)
(* lookups that are under way.                                             *)
THEOREM AssistantInvariant == AssistantSpec => []AssistantInv
BY AssistantStart, AssistantStep, PTL DEF AssistantSpec

(* A memory proposal is pending or has been closed once, by the user's     *)
(* reply or by the purge of its session, unless two turns of the session   *)
(* or a turn and the TTL met over it (resolve_memory, _purge_expired).     *)
THEOREM EveryProposalAccounted == AssistantSpec => []ProposalsAccounted
<1>1. AssistantInv => ProposalsAccounted
  BY AgentGood DEF AssistantInv
<1> QED
  BY <1>1, AssistantInvariant, PTL

(* What the agent remembers was approved or put in words by the user, in a *)
(* reply that did not refuse it, and is nothing that must not be stored,   *)
(* however turns, consolidations and TTLs interleave.                      *)
THEOREM OnlyApprovedRemembered == AssistantSpec => []MemoryIsApproved
<1>1. AssistantInv => MemoryIsApproved
  BY AgentGood DEF AssistantInv
<1> QED
  BY <1>1, AssistantInvariant, PTL

(* The memory of a location is replaced by a newer approval only: no write *)
(* loses it or falls back, but for a consolidation whose row was written   *)
(* meanwhile (write_memory, consolidate_location).                         *)
THEOREM MemoryStays == AssistantSpec => MemoryKeepsUp
<1> DEFINE Kept == \A e \in ToSet(entries) :
                      \/ e.old
                      \/ \E f \in ToSet(entries') : f.label = e.label /\ f.at >= e.at
                      \/ \E t \in Turns : turn[t].pc = "tidy" /\ turn[t].late
<1>1. AssistantInv /\ [AssistantNext]_assistant_vars => [Kept]_agent_vars
  <2> SUFFICES ASSUME AssistantInv, [AssistantNext]_assistant_vars, ~UNCHANGED agent_vars
               PROVE  Kept
    OBVIOUS
  <2>1. AgentNext
    BY PartOfAgent DEF AssistantInv, assistant_vars
  <2> QED
    BY <2>1, Remembers DEF AssistantInv, Replaced
<1> QED
  BY <1>1, AssistantInvariant, PTL DEF AssistantSpec, MemoryKeepsUp

(* The cache of the service token loses a token only when that token was   *)
(* refused, and no request is sent again with the token it was refused     *)
(* for, whatever calls share the cache (_invalidate_if_current).           *)
THEOREM NoGoodTokenDropped == AssistantSpec => TokenDiscipline
<1> DEFINE Kept == /\ cached # NoServiceToken /\ cached' = NoServiceToken => cached \notin good
                   /\ \A c \in Callers :
                         call'[c].pc = "send" => call'[c].token # call'[c].rejected
<1>1. AssistantInv /\ AssistantInv' /\ [AssistantNext]_assistant_vars => [Kept]_tool_vars
  <2> SUFFICES ASSUME AssistantInv, AssistantInv', [AssistantNext]_assistant_vars,
                      ~UNCHANGED tool_vars
               PROVE  Kept
    OBVIOUS
  <2>1. AssistantNext /\ AgentInv /\ DeskInv /\ TokenInv /\ TokenInv'
    BY DEF AssistantInv, assistant_vars
  <2>2. cached' # cached => cached' # 0 \/ cached \notin good
    BY <2>1, PartOfTools, TokenStep DEF AgentInv, DeskInv, AssistantInv
  <2>3. \A c \in Callers : call'[c].pc = "send" => call'[c].token # call'[c].rejected
    BY <2>1 DEF TokenInv, InOrder, Apart
  <2> QED
    BY <2>2, <2>3 DEF NoServiceToken
<1> QED
  BY <1>1, AssistantInvariant, PTL DEF AssistantSpec, TokenDiscipline

(* What a turn tells of a ticket is true: the incident is the one the      *)
(* question names, and had that status at some moment of the lookup; a     *)
(* lookup that was given up, refused or failed tells nothing.              *)
THEOREM ToldWhatWasTrue == AssistantSpec => TicketAnswersTrue
<1> DEFINE Kept == \A t \in Turns :
                      told'[t] # told[t] => told'[t] \in seen[t] \cup {Nothing}
<1>1. AssistantInv /\ AssistantInv' /\ [AssistantNext]_assistant_vars => [Kept]_assistant_vars
  <2> SUFFICES ASSUME AssistantInv, AssistantInv', AssistantNext PROVE Kept
    OBVIOUS
  <2>1. AgentInv'
    BY DEF AssistantInv
  <2> QED
    BY <2>1, PartOfLookups
<1> QED
  BY <1>1, AssistantInvariant, PTL DEF AssistantSpec, TicketAnswersTrue

(* A closed incident keeps its status, whether staff or a tool call of an  *)
(* agent changes it, unless the change that replaces it was checked before *)
(* another request closed it (update_incident_status reads and writes in   *)
(* two sessions).                                                          *)
THEOREM IncidentsStayClosed == AssistantSpec => ClosedStaysClosed
<1> DEFINE Kept == \A i \in DOMAIN incidents :
                      _ALLOWED_TRANSITIONS[incidents[i].status] = {} =>
                          \/ incidents'[i].status = incidents[i].status
                          \/ incidents'[i].raced
<1>1. AssistantInv /\ [AssistantNext]_assistant_vars => [Kept]_desk_vars
  <2> SUFFICES ASSUME AssistantInv, [AssistantNext]_assistant_vars, ~UNCHANGED desk_vars
               PROVE  Kept
    OBVIOUS
  <2>1. TableSteps
    BY PartOfTable DEF AssistantInv, assistant_vars, tool_vars
  <2> QED
    BY <2>1, ClosedRowKept DEF AssistantInv
<1> QED
  BY <1>1, AssistantInvariant, PTL DEF AssistantSpec, ClosedStaysClosed
=============================================================================
