----------------------------- MODULE Knowledge ------------------------------
(***************************************************************************)
(* The knowledge pipelines (data/pipelines/rag.py, public_rag.py,          *)
(* public_loaders.py): an operator indexes the manuals of a profile by     *)
(* clearing the profile's collection and loading it again, while staff and *)
(* guests ask.  Nothing holds a collection while it is cleared; an indexer *)
(* may die between two calls, and two may run at once.                     *)
(*                                                                         *)
(* A source is a sequence of sections, a section its paragraphs, and a     *)
(* paragraph a number of sentences.                                        *)
(***************************************************************************)
EXTENDS Generation, Integers, SequencesExt

CONSTANTS
    Indexers,
    Askers,        \* each asks one question
    Sources,       \* per profile, what its corpus may hold
    TierSettings,  \* the slots that may be configured: [public, staff]
    TOP_K,
    MaxEdits,      \* changes of a corpus in one behaviour
    MaxBuilds      \* runs of setup in one behaviour

PROFILES == {"staff", "public"}

(* How many sentences a heading and each paragraph of it have; a paragraph *)
(* is a block of text that is not blank.                                   *)
Section == [heading : Nat, paragraphs : Seq(Nat \ {0})]
Source == [format : {"markdown", "json"}, audience : STRING, sections : Seq(Section)]

ASSUME KnowledgeAssumption ==
    /\ \A p \in PROFILES : Sources[p] \subseteq Source
    /\ TierSettings \subseteq [public : Seq(SlotStates), staff : Seq(SlotStates)]
    /\ {TOP_K, MaxEdits, MaxBuilds} \subseteq Nat

VARIABLES
    corpus,     \* per profile: its source, with its version
    store,      \* per profile: its collection in Qdrant
    indexer, asker,
    slots,      \* what is configured
    builds,
    overlapped  \* profiles that two indexers have changed at once

knowledge_vars == <<corpus, store, indexer, asker, slots, builds, overlapped>>

MAX_PUBLIC_ATTEMPTS == 2   \* max_generation_fallbacks + 1
Absent_store == [there |-> FALSE, points |-> {}]
NoIndexing == [pc |-> "idle", profile |-> "staff", points |-> {}]
NoQuestion == [pc |-> "idle", profile |-> "staff", hits |-> {}, calls |-> {}]

(***************************************************************************)
(* Chunks.  A sentence is <<section, paragraph, number>>, and one that     *)
(* ends a heading has paragraph 0.                                         *)
(***************************************************************************)
split_sentences(s, p, n) == [k \in 1..n |-> <<s, p, k>>]

Pieces(sections) ==
    FlattenSeq([s \in DOMAIN sections |->
        [p \in DOMAIN sections[s].paragraphs |->
            split_sentences(s, p, sections[s].paragraphs[p])]])

\* A piece is split into its sentences if that yields three chunks.
Expanded(pieces) ==
    FlattenSeq([i \in DOMAIN pieces |->
        IF Len(pieces[i]) > 1 /\ Len(pieces) + Len(pieces[i]) - 1 >= 3
        THEN [k \in DOMAIN pieces[i] |-> <<pieces[i][k]>>]
        ELSE <<pieces[i]>>])

\* The whole text with its headings, in about three groups.
Grouped(sections) ==
    LET all == FlattenSeq([s \in DOMAIN sections |->
                   split_sentences(s, 0, sections[s].heading)
                   \o FlattenSeq([p \in DOMAIN sections[s].paragraphs |->
                          split_sentences(s, p, sections[s].paragraphs[p])])])
        n == Len(all)
        size == IF n \div 3 = 0 THEN 1 ELSE n \div 3
    IN  IF n < 3 THEN <<>>
        ELSE [i \in 1..(n + size - 1) \div size |->
                 SubSeq(all, (i - 1) * size + 1, IF i * size < n THEN i * size ELSE n)]

\* At least three chunks, or none: the source is refused.
chunk_markdown(sections) ==
    LET raw == Pieces(sections)
        wider == IF Len(raw) < 3 THEN Expanded(raw) ELSE raw
        last == IF Len(wider) < 3 /\ Grouped(sections) # <<>> THEN Grouped(sections) ELSE wider
    IN  IF Len(last) < 3 THEN <<>> ELSE last

\* A record of a JSON source is a chunk, however few there are.
chunks_of(source) ==
    IF source.format = "json" THEN Pieces(source.sections) ELSE chunk_markdown(source.sections)

\* The manifest allows sources for the public only.
load_manifest(profile, source) == profile = "public" => source.audience = "public"

(***************************************************************************)
(* setup.                                                                  *)
(***************************************************************************)
Writing(i) == indexer[i].pc \in {"delete", "create", "upsert"}

\* Sources, chunks and vectors come first; a source that is refused leaves
\* the collection alone.
BuildChunks(i, profile) ==
    /\ indexer[i].pc = "idle" /\ builds < MaxBuilds
    /\ builds' = builds + 1
    /\ LET source == corpus[profile].source
           chunks == chunks_of(source) IN
       indexer' =
           IF load_manifest(profile, source) /\ chunks # <<>>
           THEN [indexer EXCEPT ![i] =
                    [pc |-> "exists", profile |-> profile,
                     points |-> {[build |-> builds', index |-> k, text |-> chunks[k],
                                  version |-> corpus[profile].version, from |-> profile,
                                  audience |-> source.audience] : k \in DOMAIN chunks}]]
           ELSE indexer
    /\ UNCHANGED <<corpus, store, asker, slots, overlapped>>

CollectionExists(i) ==
    /\ indexer[i].pc = "exists"
    /\ LET p == indexer[i].profile IN
       /\ indexer' = [indexer EXCEPT ![i].pc = IF store[p].there THEN "delete" ELSE "create"]
       /\ overlapped' = IF \E j \in Indexers \ {i} : Writing(j) /\ indexer[j].profile = p
                        THEN overlapped \cup {p} ELSE overlapped
    /\ UNCHANGED <<corpus, store, asker, slots, builds>>

\* Mutant: the points are added to the collection that is there.
DeleteNothing(i) ==
    /\ indexer[i].pc = "delete"
    /\ indexer' = [indexer EXCEPT ![i].pc = "upsert"]
    /\ UNCHANGED <<corpus, store, asker, slots, builds, overlapped>>

delete_collection(i) ==
    /\ indexer[i].pc = "delete"
    /\ store' = [store EXCEPT ![indexer[i].profile] = Absent_store]
    /\ indexer' = [indexer EXCEPT ![i].pc = "create"]
    /\ UNCHANGED <<corpus, asker, slots, builds, overlapped>>

\* It raises when somebody else has created the collection.
create_collection(i) ==
    /\ indexer[i].pc = "create"
    /\ LET p == indexer[i].profile IN
       IF store[p].there
       THEN indexer' = [indexer EXCEPT ![i] = NoIndexing] /\ UNCHANGED store
       ELSE /\ store' = [store EXCEPT ![p].there = TRUE]
            /\ indexer' = [indexer EXCEPT ![i].pc = "upsert"]
    /\ UNCHANGED <<corpus, asker, slots, builds, overlapped>>

upsert(i) ==
    /\ indexer[i].pc = "upsert"
    /\ LET p == indexer[i].profile IN
       IF store[p].there
       THEN store' = [store EXCEPT ![p].points = @ \cup indexer[i].points]
       ELSE UNCHANGED store
    /\ indexer' = [indexer EXCEPT ![i] = NoIndexing]
    /\ UNCHANGED <<corpus, asker, slots, builds, overlapped>>

IndexerDies(i) ==
    /\ indexer[i].pc # "idle"
    /\ indexer' = [indexer EXCEPT ![i] = NoIndexing]
    /\ UNCHANGED <<corpus, store, asker, slots, builds, overlapped>>

EditCorpus(profile) ==
    /\ \A p \in PROFILES : corpus[p].version <= MaxEdits
    /\ \A p \in PROFILES \ {profile} : corpus[p].version = 1
    /\ \E s \in Sources[profile] \ {corpus[profile].source} :
          corpus' = [corpus EXCEPT ![profile] = [version |-> @.version + 1, source |-> s]]
    /\ UNCHANGED <<store, indexer, asker, slots, builds, overlapped>>

(***************************************************************************)
(* Questions.                                                              *)
(***************************************************************************)
Tagged(of) == [k \in DOMAIN generation_tiers(slots[of]) |-> <<of, generation_tiers(slots[of])[k]>>]

\* Mutant: guests share the providers of the staff.
StaffTiers == Tagged("staff")

resolve_public_generation_tiers ==
    IF Tagged("public") # <<>> THEN Tagged("public") ELSE Tagged("staff")

TiersFor(profile) ==
    IF profile = "public" THEN resolve_public_generation_tiers ELSE Tagged("staff")

Limit(profile) == IF profile = "public" THEN MAX_PUBLIC_ATTEMPTS ELSE Len(Tagged("staff"))

Says(q, pc) == asker[q].pc = pc
Ends(q, how) == asker' = [asker EXCEPT ![q].pc = how]

Ask_knowledge(q, profile) ==
    /\ Says(q, "idle")
    /\ asker' = [asker EXCEPT ![q] = [NoQuestion EXCEPT !.profile = profile,
                     !.pc = IF profile = "public" THEN "exists" ELSE "query"]]
    /\ UNCHANGED <<corpus, store, indexer, slots, builds, overlapped>>

\* A guest's question never falls back to the other collection.
PublicIndexed(q) ==
    /\ Says(q, "exists")
    /\ Ends(q, IF store["public"].there THEN "query" ELSE "not_indexed")
    /\ UNCHANGED <<corpus, store, indexer, slots, builds, overlapped>>

\* The nearest points whose score is high enough, for guests those for
\* guests; a collection that is not there raises.
retrieve(q) ==
    /\ Says(q, "query")
    /\ LET profile == asker[q].profile
           there == store[profile] IN
       IF ~there.there THEN Ends(q, "raised")
       ELSE \E near \in SUBSET there.points :
               /\ Cardinality(near) <= TOP_K
               /\ profile = "public" => \A h \in near : h.audience = "public"
               /\ asker' = [asker EXCEPT ![q].hits = near,
                                         ![q].pc = IF near = {} THEN "no_context" ELSE "generate"]
    /\ UNCHANGED <<corpus, store, indexer, slots, builds, overlapped>>

bounded_chat_completion(q) ==
    /\ Says(q, "generate")
    /\ LET tiers == TiersFor(asker[q].profile)
           limit == Limit(asker[q].profile) IN
       \E up \in SUBSET ToSet(tiers) :
          asker' = [asker EXCEPT ![q].calls = {tiers[k] : k \in Attempted(tiers, up, limit)},
                                 ![q].pc = IF Answered_by(tiers, up, limit) = {}
                                           THEN "raised" ELSE "answered"]
    /\ UNCHANGED <<corpus, store, indexer, slots, builds, overlapped>>

Ended == {"not_indexed", "raised", "no_context", "answered"}

-----------------------------------------------------------------------------
KnowledgeInit ==
    /\ \E s \in Sources["staff"], g \in Sources["public"] :
          corpus = [p \in PROFILES |->
                       [version |-> 1, source |-> IF p = "staff" THEN s ELSE g]]
    /\ store = [p \in PROFILES |-> Absent_store]
    /\ indexer = [i \in Indexers |-> NoIndexing]
    /\ asker = [q \in Askers |-> NoQuestion]
    /\ slots \in TierSettings
    /\ builds = 0
    /\ overlapped = {}

KnowledgeNext ==
    \/ \E i \in Indexers : \/ \E p \in PROFILES : BuildChunks(i, p)
                           \/ CollectionExists(i) \/ delete_collection(i)
                           \/ create_collection(i) \/ upsert(i) \/ IndexerDies(i)
    \/ \E p \in PROFILES : EditCorpus(p)
    \/ \E q \in Askers : \/ \E p \in PROFILES : Ask_knowledge(q, p)
                         \/ PublicIndexed(q) \/ retrieve(q)
                         \/ bounded_chat_completion(q)

-----------------------------------------------------------------------------
Sentences(points) == UNION {ToSet(c.text) : c \in points}
InBody(sentence) == sentence[2] # 0

(* A collection is empty or holds one build of its corpus: each sentence   *)
(* of the source is in exactly one of its chunks, in the order of the      *)
(* text, and the chunks of an earlier build are gone -- also when an       *)
(* indexer died on the way.  Where two indexers of a profile overlapped,   *)
(* the chunks of both may be there.                                        *)
IndexHoldsCorpus ==
    \A p \in PROFILES :
        p \in overlapped \/ store[p].points = {} \/
        LET points == store[p].points IN
        /\ \A c, e \in points : c.build = e.build /\ c.from = p
        /\ \A c, e \in points :
              c.index < e.index => /\ ToSet(c.text) \cap ToSet(e.text) = {}
                                   /\ c.text # <<>> /\ e.text # <<>>
        /\ \A c \in points : c.version = corpus[p].version =>
              {s \in Sentences(points) : InBody(s)} =
                  UNION {ToSet(x) : x \in ToSet(Pieces(corpus[p].source.sections))}

(* What a guest is told rests on chunks for guests, of which there is at   *)
(* least one; the model is called at most twice, and by providers of the   *)
(* guests' own where there are any.                                        *)
GuestsGetPublic ==
    \A q \in Askers :
        asker[q].profile = "public" /\ asker[q].pc \in Ended =>
            /\ \A h \in asker[q].hits : h.from = "public" /\ h.audience = "public"
            /\ asker[q].pc = "answered" => asker[q].hits # {}
            /\ asker[q].hits = {} => asker[q].calls = {}
            /\ Cardinality(asker[q].calls) <= MAX_PUBLIC_ATTEMPTS
            /\ Tagged("public") # <<>> => \A c \in asker[q].calls : c[1] = "public"
=============================================================================
