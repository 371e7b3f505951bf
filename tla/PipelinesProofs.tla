--------------------------- MODULE PipelinesProofs ---------------------------
(***************************************************************************)
(* The drafts, the indexes, the questions of the guests and the figures of *)
(* the weekly report are as they are defined to be, for every document,    *)
(* source, provider, answer and event.  What is proved of the chunks is    *)
(* proved by induction over the joined sequences.                          *)
(***************************************************************************)
EXTENDS Pipelines, RowsProofs, FiniteSetTheorems, TLAPS

-----------------------------------------------------------------------------
(* Flattening.                                                             *)

\* The sequences joined so far, of which FlattenSeq is the last value.
Joins(f, seqs) ==
    /\ f[0] = <<>>
    /\ \A n \in 1..Len(seqs) : f[n] = f[n - 1] \o seqs[n]
    /\ FlattenSeq(seqs) = f[Len(seqs)]

LEMMA RunningJoin ==
  ASSUME NEW S, NEW seqs \in Seq(Seq(S))
  PROVE  \E f \in [0..Len(seqs) -> Seq(S)] : Joins(f, seqs)
<1> DEFINE N == Len(seqs)
           joined == [n \in 1..N |-> [v \in Seq(S) |-> v \o seqs[n]]]
           P(g) == g = [i \in 1..N |-> IF i = 1 THEN seqs[i] ELSE g[i - 1] \o seqs[i]]
           upto == CHOOSE g : P(g)
<1>1. N \in Nat /\ <<>> \in Seq(S) /\ \A n \in 1..N : seqs[n] \in Seq(S)
  OBVIOUS
<1>2. \A n \in 1..N, v \in Seq(S) : v \o seqs[n] \in Seq(S) /\ joined[n][v] = v \o seqs[n]
  BY <1>1
<1>3. joined \in [1..N -> [Seq(S) -> Seq(S)]]
  <2> HIDE DEF N
  <2> QED
    BY <1>2
<1>4. PICK f \in [0..N -> Seq(S)] : f[0] = <<>> /\ \A n \in 1..N : f[n] = joined[n][f[n - 1]]
  <2> HIDE DEF joined, P, upto
  <2>1. \E f \in [0..N -> Seq(S)] : Runs(f, N, <<>>, joined)
    <3> HIDE DEF N
    <3> QED
      BY <1>1, <1>3, Recursion
  <2> QED
    BY <2>1 DEF Runs
<1>5. \A n \in 1..N : f[n] = f[n - 1] \o seqs[n]
  <2> HIDE DEF joined
  <2>1. \A n \in 1..N : n - 1 \in 0..N /\ f[n - 1] \in Seq(S)
    <3> HIDE DEF N
    <3> QED
      BY <1>1, <1>4
  <2> QED
    BY <1>2, <1>4, <2>1
<1>6. N # 0 => f[1] = seqs[1]
  <2>1. \A v \in Seq(S) : <<>> \o v = v
    OBVIOUS
  <2>2. N # 0 => 1 \in 1..N /\ 1 - 1 = 0
    BY <1>1
  <2>3. N # 0 => f[1] = f[0] \o seqs[1]
    BY <2>2, <1>5
  <2> QED
    BY <2>1, <2>2, <2>3, <1>1, <1>4
<1> DEFINE F == [n \in 1..N |-> f[n]]
<1>7. P(F)
  <2> HIDE DEF joined, upto
  <2>1. \A i \in 1..N : F[i] = IF i = 1 THEN seqs[i] ELSE F[i - 1] \o seqs[i]
    <3> TAKE i \in 1..N
    <3>1. CASE i = 1
      BY <3>1, <1>1, <1>6
    <3>2. CASE i # 1
      <4> HIDE DEF N
      <4>1. i - 1 \in 1..N
        BY <3>2, <1>1
      <4> QED
        BY <3>2, <4>1, <1>5
    <3> QED
      BY <3>1, <3>2
  <2> QED
    BY <2>1
<1>8. P(upto)
  BY <1>7
<1>9. N # 0 => FlattenSeq(seqs) = upto[N]
  BY DEF FlattenSeq
<1>10. \A i \in 1..N : upto[i] = IF i = 1 THEN seqs[i] ELSE upto[i - 1] \o seqs[i]
  <2> HIDE DEF upto
  <2> QED
    BY <1>8
<1> HIDE DEF upto, P, joined, F
<1>11. \A i \in 1..N : upto[i] = f[i]
  <2> DEFINE D == {n \in 1..N : upto[n] # f[n]}
  <2>1. SUFFICES ASSUME D # {} PROVE FALSE
    OBVIOUS
  <2>2. PICK m \in D : \A k \in D : m <= k
    <3>1. D \subseteq Nat
      OBVIOUS
    <3> HIDE DEF D
    <3> QED
      BY <2>1, <3>1, LeastNumber
  <2>3. m # 1
    BY <1>1, <1>6, <1>10
  <2>4. m - 1 \in 1..N /\ m \in 1..N /\ m - 1 \notin D
    <3>1. m \in 1..N
      OBVIOUS
    <3>2. m - 1 \in 1..N
      <4> HIDE DEF N, D
      <4> QED
        BY <1>1, <2>3, <3>1
    <3>3. m - 1 \notin D
      <4> HIDE DEF N, D
      <4> QED
        BY <1>1, <2>2, <3>1
    <3> QED
      BY <3>1, <3>2, <3>3
  <2> QED
    BY <2>3, <2>4, <1>5, <1>10
<1>12. FlattenSeq(seqs) = f[N]
  <2>1. CASE N = 0
    BY <2>1, <1>4 DEF FlattenSeq
  <2>2. CASE N # 0
    <3>1. N \in 1..N
      BY <2>2, <1>1
    <3> QED
      BY <2>2, <3>1, <1>9, <1>11
  <2> QED
    BY <2>1, <2>2
<1> QED
  BY <1>4, <1>5, <1>12 DEF Joins

\* Where the elements of flat come from: each from a place of one of the
\* first n sequences, none is left out, and they are in the order of their
\* places.
From(flat, seqs, n) ==
    \A x \in 1..Len(flat) :
        \E i \in 1..n : \E j \in 1..Len(seqs[i]) : flat[x] = seqs[i][j]
Covers(flat, seqs, n) ==
    \A i \in 1..n : \A j \in 1..Len(seqs[i]) :
        \E x \in 1..Len(flat) : flat[x] = seqs[i][j]
Before(flat, seqs, n, x, y) ==
    \E i, k \in 1..n : \E j \in 1..Len(seqs[i]), l \in 1..Len(seqs[k]) :
        /\ flat[x] = seqs[i][j] /\ flat[y] = seqs[k][l]
        /\ i < k \/ (i = k /\ j < l)
Ordered(flat, seqs, n) ==
    \A x, y \in 1..Len(flat) : x < y => Before(flat, seqs, n, x, y)
Placed(flat, seqs, n) == From(flat, seqs, n) /\ Covers(flat, seqs, n) /\ Ordered(flat, seqs, n)

(* One sequence more, after those that were joined.                        *)
LEMMA PlacedNext ==
  ASSUME NEW S, NEW seqs \in Seq(Seq(S)), NEW n \in 1..Len(seqs), NEW flat \in Seq(S),
         Placed(flat, seqs, n - 1)
  PROVE  Placed(flat \o seqs[n], seqs, n)
<1> DEFINE last == seqs[n]
           g == flat \o last
           L == Len(flat)
<1>1. /\ n \in Nat /\ L \in Nat /\ last \in Seq(S) /\ Len(last) \in Nat
      /\ 1..n = 1..(n - 1) \cup {n}
  OBVIOUS
<1>2. /\ Len(g) = L + Len(last)
      /\ \A x \in 1..Len(g) : g[x] = IF x <= L THEN flat[x] ELSE last[x - L]
  <2> HIDE DEF last
  <2> QED
    BY <1>1
<1> HIDE DEF g, L
<1>3. /\ \A x \in 1..L : x \in 1..Len(g) /\ g[x] = flat[x]
      /\ \A j \in 1..Len(last) : L + j \in 1..Len(g) /\ g[L + j] = last[j]
      /\ \A x \in 1..Len(g) : x \in 1..L \/ (x > L /\ \E j \in 1..Len(last) : x = L + j)
  <2> HIDE DEF last
  <2>1. \A x \in 1..L : x \in 1..Len(g) /\ g[x] = flat[x]
    BY <1>1, <1>2
  <2>2. \A j \in 1..Len(last) : L + j \in 1..Len(g) /\ g[L + j] = last[j]
    <3> TAKE j \in 1..Len(last)
    <3>1. L + j \in 1..Len(g) /\ ~(L + j <= L) /\ (L + j) - L = j
      BY <1>1, <1>2
    <3> QED
      BY <1>2, <3>1
  <2>3. ASSUME NEW x \in 1..Len(g), x \notin 1..L
        PROVE  x > L /\ \E j \in 1..Len(last) : x = L + j
    <3>1. x - L \in 1..Len(last) /\ x = L + (x - L) /\ x > L
      BY <1>1, <1>2, <2>3
    <3> QED
      BY <3>1
  <2> QED
    BY <2>1, <2>2, <2>3
<1>4. \A i \in 1..(n - 1) : i \in 1..n /\ i < n
  BY <1>1
<1>5. From(g, seqs, n)
  <2> SUFFICES ASSUME NEW x \in 1..Len(g)
               PROVE  \E i \in 1..n : \E j \in 1..Len(seqs[i]) : g[x] = seqs[i][j]
    BY DEF From
  <2>1. CASE x \in 1..L
    <3>1. PICK i \in 1..(n - 1) : \E j \in 1..Len(seqs[i]) : flat[x] = seqs[i][j]
      BY <2>1 DEF Placed, From, L
    <3> QED
      BY <2>1, <3>1, <1>3, <1>4
  <2>2. CASE x \notin 1..L
    <3>1. PICK j \in 1..Len(last) : g[x] = last[j]
      BY <2>2, <1>3
    <3>2. n \in 1..n
      BY <1>1
    <3> QED
      BY <3>1, <3>2
  <2> QED
    BY <2>1, <2>2
<1>6. Covers(g, seqs, n)
  <2> SUFFICES ASSUME NEW i \in 1..n, NEW j \in 1..Len(seqs[i])
               PROVE  \E x \in 1..Len(g) : g[x] = seqs[i][j]
    BY DEF Covers
  <2>1. CASE i = n
    BY <2>1, <1>3
  <2>2. CASE i # n
    <3>1. i \in 1..(n - 1)
      BY <2>2, <1>1
    <3>2. PICK x \in 1..L : flat[x] = seqs[i][j]
      BY <3>1 DEF Placed, Covers, L
    <3> QED
      BY <3>2, <1>3
  <2> QED
    BY <2>1, <2>2
<1>7. Ordered(g, seqs, n)
  <2> SUFFICES ASSUME NEW x \in 1..Len(g), NEW y \in 1..Len(g), x < y
               PROVE  Before(g, seqs, n, x, y)
    BY DEF Ordered
  <2>1. CASE y \in 1..L
    <3>1. x \in 1..L /\ g[x] = flat[x] /\ g[y] = flat[y]
      <4>1. x \in 1..L
        BY <2>1, <1>1
      <4> QED
        BY <2>1, <4>1, <1>3
    <3>2. Before(flat, seqs, n - 1, x, y)
      BY <2>1, <3>1 DEF Placed, Ordered, L
    <3>3. PICK i, k \in 1..(n - 1) : \E j \in 1..Len(seqs[i]), l \in 1..Len(seqs[k]) :
                /\ flat[x] = seqs[i][j] /\ flat[y] = seqs[k][l]
                /\ i < k \/ (i = k /\ j < l)
      BY <3>2 DEF Before
    <3>4. i \in 1..n /\ k \in 1..n
      BY <1>4
    <3> QED
      BY <3>1, <3>3, <3>4 DEF Before
  <2>2. CASE x \in 1..L /\ y \notin 1..L
    <3>0. PICK i \in 1..(n - 1) : \E j \in 1..Len(seqs[i]) : flat[x] = seqs[i][j]
      BY <2>2 DEF Placed, From, L
    <3>1. \E j \in 1..Len(seqs[i]) : g[x] = seqs[i][j]
      BY <2>2, <3>0, <1>3
    <3>2. PICK l \in 1..Len(seqs[n]) : g[y] = seqs[n][l]
      BY <2>2, <1>3
    <3>3. i \in 1..n /\ n \in 1..n /\ i < n
      BY <1>1, <1>4
    <3> QED
      BY <3>1, <3>2, <3>3 DEF Before
  <2>3. CASE x \notin 1..L /\ y \notin 1..L
    <3>1. PICK j \in 1..Len(seqs[n]) : x = L + j
      BY <2>3, <1>3
    <3>2. PICK l \in 1..Len(seqs[n]) : y = L + l
      BY <2>3, <1>3
    <3>3. j < l /\ n \in 1..n
      <4>1. j \in Int /\ l \in Int
        OBVIOUS
      <4> HIDE DEF last
      <4> QED
        BY <1>1, <3>1, <3>2, <4>1
    <3>4. g[x] = seqs[n][j] /\ g[y] = seqs[n][l]
      BY <1>3, <3>1, <3>2
    <3> QED
      BY <3>3, <3>4 DEF Before
  <2>4. x \in 1..L \/ y \in 1..L => x \in 1..L
    BY <1>1
  <2> QED
    BY <2>1, <2>2, <2>3, <2>4
<1>8. Placed(g, seqs, n)
  BY <1>5, <1>6, <1>7 DEF Placed
<1> QED
  BY <1>8 DEF g

LEMMA FlattenPlaces ==
  ASSUME NEW S, NEW seqs \in Seq(Seq(S))
  PROVE  FlattenSeq(seqs) \in Seq(S) /\ Placed(FlattenSeq(seqs), seqs, Len(seqs))
<1>1. PICK f \in [0..Len(seqs) -> Seq(S)] : Joins(f, seqs)
  BY RunningJoin
<1>2. /\ f[0] = <<>>
      /\ \A n \in 1..Len(seqs) : f[n] = f[n - 1] \o seqs[n]
      /\ FlattenSeq(seqs) = f[Len(seqs)]
  BY <1>1 DEF Joins
<1>3. Len(seqs) \in Nat
  OBVIOUS
<1> DEFINE D == {n \in 0..Len(seqs) : ~Placed(f[n], seqs, n)}
<1>4. D = {}
  <2>1. SUFFICES ASSUME D # {} PROVE FALSE
    OBVIOUS
  <2>2. PICK m \in D : \A k \in D : m <= k
    <3>1. D \subseteq Nat
      OBVIOUS
    <3> HIDE DEF D
    <3> QED
      BY <2>1, <3>1, LeastNumber
  <2>3. m # 0
    <3>1. Len(f[0]) = 0 /\ 1..0 = {}
      BY <1>2, <1>3
    <3>2. Placed(f[0], seqs, 0)
      BY <3>1 DEF Placed, From, Covers, Ordered
    <3> QED
      BY <3>2
  <2>4. m - 1 \in 0..Len(seqs) /\ m \in 1..Len(seqs) /\ m - 1 \notin D
    <3>1. m \in 0..Len(seqs)
      OBVIOUS
    <3>2. m - 1 \in 0..Len(seqs) /\ m \in 1..Len(seqs)
      BY <1>2, <1>3, <2>3, <3>1
    <3>3. m - 1 \notin D
      <4> HIDE DEF D
      <4> QED
        BY <1>2, <1>3, <2>2, <3>2
    <3> QED
      BY <3>2, <3>3
  <2>5. Placed(f[m - 1], seqs, m - 1) /\ f[m - 1] \in Seq(S) /\ f[m] = f[m - 1] \o seqs[m]
    BY <1>2, <1>3, <2>4
  <2>6. Placed(f[m], seqs, m)
    BY <2>4, <2>5, PlacedNext
  <2> QED
    BY <2>4, <2>6
<1>5. Len(seqs) \in 0..Len(seqs)
  BY <1>2, <1>3
<1> QED
  BY <1>2, <1>4, <1>5
-----------------------------------------------------------------------------
(* What the RFP tasks compute.                                            *)

Intake_open == {"convert", "classify", "extract", "orchestrator", "workers"}
Named_steps == {"workers", "intake_complete", "drafting", "under_evaluation", "arbitrated",
                "response_failed"}
Drafted_steps == {"drafting", "under_evaluation", "arbitrated"}

\* What the response worker of a department has to show for itself.
Judged(d) ==
    LET own == evaluate_all(worker[d].draft, key_aspects_for(d), metadata.budget) IN
    /\ worker[d].eval.ceo => metadata.budget > CEO_USD_THRESHOLD
    /\ worker[d].done =>
          /\ worker[d].review <=> ~own.overall_pass
          /\ worker[d].review => worker[d].iterations = ITERATION_LIMIT

\* A document gets to the extraction only when the triage lets it.
TriageInv ==
    /\ rfp.doc \in Document
    /\ step # "discarded" => cause = "none"
    /\ step \notin {"convert", "discarded"} => rfp.doc.file = "text"
    /\ step = "extract" => prefilter_validity(rfp.doc) # "invalid"
    /\ DiscardedForCause

\* Sections are for departments that are needed, at most one for each; none
\* is missing once the intake is complete.
SectionsInv ==
    /\ metadata \in [budget : Int, needed : Seq(Departments_known)]
    /\ step \in Named_steps \cup {"orchestrator"} => "marketing" \in needed
    /\ \A s \in sections : s.department_id \in needed
    /\ \A s, u \in sections : s.department_id = u.department_id => s = u
    /\ step \in {"convert", "classify", "extract", "orchestrator"} => sections = {}
    /\ step \in Named_steps \ {"workers"} => \A d \in needed : Has_section(d)

\* The workers are those of the departments, and each is judged.
WorkersInv ==
    /\ step \in Intake_open \cup {"intake_complete"} => worker = <<>>
    /\ step \in Drafted_steps => DOMAIN worker = needed
    /\ \A d \in DOMAIN worker : Judged(d)
    /\ step \in {"under_evaluation", "arbitrated"} => \A d \in needed : worker[d].done

DraftingInv == TriageInv /\ SectionsInv /\ WorkersInv /\ ArbitrationJustified

LEMMA KnownDepartments ==
  /\ Departments_known = {"marketing", "operaciones", "procurement", "training"}
  /\ IsFiniteSet(Departments_known)
<1>1. Departments_known = {"marketing", "operaciones", "procurement", "training"}
  BY DEF Departments_known, ALL_DEPARTMENTS, ToSet
<1>2. IsFiniteSet({"marketing", "operaciones", "procurement", "training"})
  <2>1. IsFiniteSet({"marketing"})
    BY FS_Singleton
  <2>2. IsFiniteSet({"marketing"} \cup {"operaciones"})
    BY <2>1, FS_AddElement
  <2>3. IsFiniteSet({"marketing"} \cup {"operaciones"} \cup {"procurement"})
    BY <2>2, FS_AddElement
  <2>4. IsFiniteSet({"marketing"} \cup {"operaciones"} \cup {"procurement"} \cup {"training"})
    BY <2>3, FS_AddElement
  <2>5. {"marketing"} \cup {"operaciones"} \cup {"procurement"} \cup {"training"}
          = {"marketing", "operaciones", "procurement", "training"}
    OBVIOUS
  <2> QED
    BY <2>4, <2>5
<1> QED
  BY <1>1, <1>2

(* The departments the intake works on are departments that there are, and *)
(* marketing is one of them.                                               *)
LEMMA MarketingIsIn ==
  ASSUME NEW named \in Seq(STRING)
  PROVE  /\ WithMarketing(named) \in Seq(Departments_known)
         /\ "marketing" \in ToSet(WithMarketing(named))
<1> DEFINE allowed == Where(named, Departments_known)
<1>1. allowed \in Seq(Departments_known)
  <2>1. allowed \in Seq(STRING) /\ \A i \in 1..Len(allowed) : allowed[i] \in Departments_known
    BY WhereKeeps
  <2> HIDE DEF allowed
  <2> QED
    BY <2>1
<1>2. "marketing" \in Departments_known
  BY KnownDepartments
<1> HIDE DEF allowed
<1>3. CASE "marketing" \in ToSet(allowed)
  BY <1>1, <1>3 DEF WithMarketing, allowed
<1>4. CASE "marketing" \notin ToSet(allowed)
  <2> DEFINE w == <<"marketing">> \o allowed
  <2>1. w \in Seq(Departments_known) /\ 1 \in DOMAIN w /\ w[1] = "marketing"
    BY <1>1, <1>2
  <2>2. "marketing" \in ToSet(w)
    BY <2>1 DEF ToSet
  <2>3. WithMarketing(named) = w
    BY <1>4 DEF WithMarketing, allowed
  <2> QED
    BY <2>1, <2>2, <2>3
<1> QED
  BY <1>3, <1>4

LEMMA DraftingStarts == DraftingInit => DraftingInv
<1> SUFFICES ASSUME DraftingInit PROVE DraftingInv
  OBVIOUS
<1>1. rfp.doc \in Document
  BY DraftingAssumption DEF DraftingInit
<1>2. TriageInv
  BY <1>1 DEF TriageInv, DraftingInit, DiscardedForCause
<1>3. SectionsInv
  <2>1. metadata \in [budget : Int, needed : Seq(Departments_known)]
    BY DEF DraftingInit, NoFigure
  <2> QED
    BY <2>1 DEF SectionsInv, DraftingInit, Named_steps
<1>4. WorkersInv
  BY DEF WorkersInv, DraftingInit, Drafted_steps
<1>5. ArbitrationJustified
  BY DEF ArbitrationJustified, DraftingInit
<1> QED
  BY <1>2, <1>3, <1>4, <1>5 DEF DraftingInv

LEMMA TriageStep ==
  ASSUME TriageInv, DraftingNext
  PROVE  TriageInv'
<1> USE DEF TriageInv, DiscardedForCause, prefilter_validity, Down
<1>1. CASE convert_node
  BY <1>1 DEF convert_node
<1>2. CASE classify_node
  BY <1>2 DEF classify_node, Document
<1>3. CASE extract_node
  BY <1>3 DEF extract_node, Document
<1>4. CASE orchestrator_node \/ synthesize_node \/ run_response \/ join_node \/ run_arbitration
  BY <1>4 DEF orchestrator_node, synthesize_node, run_response, join_node, run_arbitration
<1>5. ASSUME NEW d \in Departments_known,
             department_worker(d) \/ make_worker(d) \/ extract_section_numbers(d)
      PROVE  TriageInv'
  BY <1>5 DEF department_worker, make_worker, extract_section_numbers
<1> QED
  BY <1>1, <1>2, <1>3, <1>4, <1>5 DEF DraftingNext

LEMMA SectionsStep ==
  ASSUME SectionsInv, DraftingNext
  PROVE  SectionsInv'
<1> USE DEF SectionsInv, Named_steps, needed, Has_section
<1>1. CASE convert_node \/ classify_node
  BY <1>1 DEF convert_node, classify_node
<1>2. CASE extract_node
  <2>1. CASE metadata' = metadata /\ step' = "discarded"
    BY <1>2, <2>1 DEF extract_node
  <2>2. ASSUME NEW named \in Extracted, NEW budget \in Budgets,
               metadata' = [budget |-> budget, needed |-> WithMarketing(named)],
               step' = "orchestrator"
        PROVE  SectionsInv'
    <3>1. /\ WithMarketing(named) \in Seq(Departments_known)
          /\ "marketing" \in ToSet(WithMarketing(named)) /\ budget \in Int
      BY DraftingAssumption, MarketingIsIn
    <3>2. /\ metadata' \in [budget : Int, needed : Seq(Departments_known)]
          /\ "marketing" \in needed' /\ sections' = {}
      BY <1>2, <2>2, <3>1 DEF extract_node
    <3> QED
      BY <2>2, <3>2
  <2> QED
    BY <1>2, <2>1, <2>2 DEF extract_node
<1>3. CASE orchestrator_node
  <2>1. metadata' = metadata
    <3>1. metadata.needed # <<>>
      BY <1>3 DEF orchestrator_node, ToSet
    <3> QED
      BY <1>3, <3>1 DEF orchestrator_node
  <2> QED
    BY <1>3, <2>1 DEF orchestrator_node
<1>4. CASE synthesize_node
  BY <1>4 DEF synthesize_node
<1>5. CASE run_response \/ join_node \/ run_arbitration
  BY <1>5 DEF run_response, join_node, run_arbitration
<1>6. ASSUME NEW d \in Departments_known, department_worker(d)
      PROVE  SectionsInv'
  <2>1. PICK a : sections' = sections \cup {[department_id |-> d, key_aspects |-> a]}
    BY <1>6 DEF department_worker
  <2>2. /\ step = "workers" /\ step' = step /\ metadata' = metadata /\ d \in needed
        /\ \A s \in sections : s.department_id # d
    BY <1>6 DEF department_worker
  <2> QED
    BY <2>1, <2>2
<1>7. ASSUME NEW d \in Departments_known, make_worker(d) \/ extract_section_numbers(d)
      PROVE  SectionsInv'
  BY <1>7 DEF make_worker, extract_section_numbers
<1> QED
  BY <1>1, <1>2, <1>3, <1>4, <1>5, <1>6, <1>7 DEF DraftingNext

(* A worker that has just tried again is judged by what it wrote.          *)
LEMMA JudgedAgain ==
  ASSUME SectionsInv, NEW d \in DOMAIN worker, NEW draft, Judged(d),
         sections' = sections, metadata' = metadata,
         worker' = [worker EXCEPT ![d] = AttemptedOnce(@, draft, d)]
  PROVE  Judged(d)'
<1> DEFINE own == evaluate_all(draft, key_aspects_for(d), metadata.budget)
<1>1. key_aspects_for(d)' = key_aspects_for(d)
  BY DEF key_aspects_for
<1>2. worker'[d] = AttemptedOnce(worker[d], draft, d)
  OBVIOUS
<1>3. /\ worker'[d].draft = draft /\ worker'[d].eval = own
      /\ worker'[d].iterations = worker[d].iterations + 1
      /\ worker'[d].done = (own.overall_pass \/ worker[d].iterations + 1 = ITERATION_LIMIT)
      /\ worker'[d].review = (~own.overall_pass /\ worker[d].iterations + 1 = ITERATION_LIMIT)
  BY <1>2 DEF AttemptedOnce
<1>4. own.ceo => metadata.budget > CEO_USD_THRESHOLD
  BY DEF evaluate_all, parse_budget_usd_ceiling
<1> HIDE DEF own
<1>5. evaluate_all(worker'[d].draft, key_aspects_for(d)', metadata'.budget) = own
  BY <1>1, <1>3 DEF own
<1> QED
  BY <1>3, <1>4, <1>5 DEF Judged

LEMMA WorkersStep ==
  ASSUME SectionsInv, WorkersInv, DraftingNext
  PROVE  WorkersInv'
<1> USE DEF WorkersInv, Intake_open, Drafted_steps, needed
<1>0. ASSUME UNCHANGED <<worker, sections, metadata>>
      PROVE  \A d \in DOMAIN worker' : Judged(d)'
  BY <1>0 DEF Judged, key_aspects_for
<1>1. CASE convert_node \/ classify_node
  BY <1>0, <1>1 DEF convert_node, classify_node
<1>2. CASE extract_node
  <2>1. worker' = <<>> /\ step' \in {"orchestrator", "discarded"} /\ DOMAIN worker' = {}
    BY <1>2 DEF extract_node, Down
  <2> QED
    BY <2>1
<1>3. CASE orchestrator_node
  <2>1. worker' = <<>> /\ step' = "workers" /\ DOMAIN worker' = {}
    BY <1>3 DEF orchestrator_node
  <2> QED
    BY <2>1
<1>4. CASE synthesize_node
  BY <1>0, <1>4 DEF synthesize_node
<1>5. CASE run_response
  <2>1. CASE ~rfp.rulebook
    BY <1>0, <1>5, <2>1 DEF run_response
  <2>2. CASE rfp.rulebook
    <3>1. /\ step' = "drafting" /\ DOMAIN worker' = needed' /\ needed' = needed
          /\ \A d \in needed : ~worker'[d].done
                               /\ worker'[d].eval = evaluate_all(NoDraft, {}, NoFigure)
      BY <1>5, <2>2 DEF run_response
    <3>2. ~evaluate_all(NoDraft, {}, NoFigure).ceo
      BY DEF evaluate_all, parse_budget_usd_ceiling
    <3>3. \A d \in DOMAIN worker' : Judged(d)'
      BY <3>1, <3>2 DEF Judged
    <3> QED
      BY <3>1, <3>3
  <2> QED
    BY <2>1, <2>2
<1>6. CASE join_node
  BY <1>0, <1>6 DEF join_node
<1>7. CASE run_arbitration
  BY <1>0, <1>7 DEF run_arbitration
<1>8. ASSUME NEW d \in Departments_known, department_worker(d)
      PROVE  WorkersInv'
  <2>1. worker' = <<>> /\ step' = "workers" /\ DOMAIN worker' = {}
    BY <1>8 DEF department_worker
  <2> QED
    BY <2>1
<1>9. ASSUME NEW d \in Departments_known, make_worker(d)
      PROVE  WorkersInv'
  <2>1. PICK draft : worker' = [worker EXCEPT ![d] = AttemptedOnce(@, draft, d)]
    BY <1>9 DEF make_worker
  <2>2. /\ step = "drafting" /\ step' = step /\ metadata' = metadata /\ sections' = sections
        /\ d \in DOMAIN worker
    BY <1>9 DEF make_worker
  <2>3. Judged(d)'
    BY <2>1, <2>2, JudgedAgain
  <2>4. ASSUME NEW e \in DOMAIN worker, e # d PROVE Judged(e)'
    <3>1. worker'[e] = worker[e] /\ key_aspects_for(e)' = key_aspects_for(e)
      BY <2>1, <2>2, <2>4 DEF key_aspects_for
    <3> QED
      BY <2>2, <3>1 DEF Judged
  <2>5. DOMAIN worker' = DOMAIN worker
    BY <2>1
  <2> QED
    BY <2>2, <2>3, <2>4, <2>5
<1>10. ASSUME NEW d \in Departments_known, extract_section_numbers(d)
       PROVE  WorkersInv'
  BY <1>0, <1>10 DEF extract_section_numbers
<1> QED
  BY <1>1, <1>2, <1>3, <1>4, <1>5, <1>6, <1>7, <1>8, <1>9, <1>10 DEF DraftingNext

(* A department is sent back only when a figure was found.                 *)
LEMMA ForcedByFigure ==
  ASSUME NEW d \in DOMAIN numbers, ForcedBy(d) # {}
  PROVE  \E e \in DOMAIN numbers : numbers[e] # NoNumbers
<1>1. CASE SetupSlaBreach(d)
  BY <1>1 DEF SetupSlaBreach, NoNumbers
<1>2. CASE ~SetupSlaBreach(d)
  <2>1. CostVsFeasibility
    BY <1>2 DEF ForcedBy
  <2>2. "procurement" \in DOMAIN numbers /\ numbers["procurement"].cost # NoFigure
    BY <2>1 DEF CostVsFeasibility
  <2> QED
    BY <2>2 DEF NoNumbers
<1> QED
  BY <1>1, <1>2

LEMMA ArbitrationStep ==
  ASSUME SectionsInv, WorkersInv, ArbitrationJustified, DraftingNext
  PROVE  ArbitrationJustified'
<1>1. CASE run_arbitration
  <2> DEFINE forced == {d \in needed : ForcedBy(d) # {}}
  <2>0. /\ step = "under_evaluation" /\ DOMAIN numbers = needed
        /\ UNCHANGED <<metadata, sections, worker, numbers>> /\ needed' = needed
        /\ arbitration'.forced = forced /\ arbitration'.ceo = CeoThreshold
        /\ arbitration'.feedback = [d \in forced |-> ForcedBy(d)]
    BY <1>1 DEF run_arbitration, needed
  <2>1. arbitration'.ceo <=> metadata'.budget > CEO_USD_THRESHOLD
    <3>1. \A d \in DOMAIN worker : worker[d].eval.ceo => metadata.budget > CEO_USD_THRESHOLD
      BY DEF WorkersInv, Judged
    <3>2. metadata.budget > CEO_USD_THRESHOLD => metadata.budget # NoFigure
      BY DEF SectionsInv, CEO_USD_THRESHOLD, NoFigure
    <3> QED
      BY <2>0, <3>1, <3>2 DEF CeoThreshold, parse_budget_usd_ceiling
  <2>2. \A d \in forced : \E n \in {numbers[e] : e \in needed} : n # NoNumbers
    BY <2>0, ForcedByFigure
  <2>3. \A d \in forced : arbitration'.feedback[d] # {}
    BY <2>0
  <2>4. ASSUME NEW d \in needed, worker[d].draft.days \in 0..SETUP_SLA_MIN_DAYS - 1
        PROVE  worker[d].review
    <3>1. worker[d].done /\ Judged(d)
      BY <2>0 DEF WorkersInv, Drafted_steps
    <3>2. "setup_sla" \in failed_rules(worker[d].draft)
      BY <2>4 DEF failed_rules, Rules, NoFigure, SETUP_SLA_MIN_DAYS
    <3>3. ~evaluate_all(worker[d].draft, key_aspects_for(d), metadata.budget).overall_pass
      BY <3>2 DEF evaluate_all
    <3> QED
      BY <3>1, <3>3 DEF Judged
  <2> HIDE DEF forced
  <2> QED
    BY <2>0, <2>1, <2>2, <2>3, <2>4 DEF ArbitrationJustified
<1>2. CASE ~run_arbitration
  <2>1. step' # "arbitrated"
    BY <1>2 DEF DraftingNext, convert_node, classify_node, extract_node, orchestrator_node,
                synthesize_node, run_response, join_node, department_worker, make_worker,
                extract_section_numbers, Down
  <2> QED
    BY <2>1 DEF ArbitrationJustified
<1> QED
  BY <1>1, <1>2

LEMMA DraftingKept ==
  ASSUME DraftingInv, [DraftingNext]_drafting_vars
  PROVE  DraftingInv'
<1>1. CASE DraftingNext
  BY <1>1, TriageStep, SectionsStep, WorkersStep, ArbitrationStep DEF DraftingInv
<1>2. CASE UNCHANGED drafting_vars
  <2> USE <1>2 DEF drafting_vars
  <2>1. TriageInv'
    BY DEF DraftingInv, TriageInv, DiscardedForCause
  <2>2. SectionsInv'
    BY DEF DraftingInv, SectionsInv, needed, Has_section
  <2>3. WorkersInv'
    BY DEF DraftingInv, WorkersInv, Judged, key_aspects_for, needed
  <2>4. ArbitrationJustified'
    BY DEF DraftingInv, ArbitrationJustified, needed
  <2> QED
    BY <2>1, <2>2, <2>3, <2>4 DEF DraftingInv
<1> QED
  BY <1>1, <1>2

(* There are as many sections as departments.                              *)
LEMMA SectionsCounted ==
  ASSUME SectionsInv, \A d \in needed : Has_section(d)
  PROVE  Cardinality(sections) = Cardinality(needed)
<1>1. IsFiniteSet(needed)
  <2>1. needed \subseteq Departments_known
    BY DEF SectionsInv, needed, ToSet
  <2> QED
    BY <2>1, KnownDepartments, FS_Subset
<1> DEFINE of == [d \in needed |-> CHOOSE s \in sections : s.department_id = d]
<1>2. \A d \in needed : of[d] \in sections /\ of[d].department_id = d
  BY DEF Has_section
<1>3. of \in [needed -> sections]
  BY <1>2
<1> HIDE DEF of
<1>4. of \in Bijection(needed, sections)
  <2>1. \A d, e \in needed : of[d] = of[e] => d = e
    BY <1>2
  <2>2. \A s \in sections : \E d \in needed : of[d] = s
    BY <1>2 DEF SectionsInv
  <2> QED
    BY <1>3, <2>1, <2>2 DEF Bijection, Injection, Surjection, IsInjective
<1>5. ExistsBijection(needed, sections)
  BY <1>4 DEF ExistsBijection
<1> QED
  BY <1>1, <1>5, FS_Bijection

LEMMA DraftingInvImplies == DraftingInv => DraftsJudged
<1> SUFFICES ASSUME DraftingInv PROVE DraftsJudged
  OBVIOUS
<1>1. DiscardedForCause
  BY DEF DraftingInv, TriageInv
<1>2. OneSectionEach
  <2> SUFFICES ASSUME step \in {"intake_complete", "drafting", "under_evaluation", "arbitrated"}
               PROVE  /\ "marketing" \in needed
                      /\ Cardinality(sections) = Cardinality(needed)
                      /\ {s.department_id : s \in sections} = needed
    BY DEF OneSectionEach
  <2>1. SectionsInv /\ "marketing" \in needed /\ \A d \in needed : Has_section(d)
    BY DEF DraftingInv, SectionsInv, Named_steps
  <2>2. {s.department_id : s \in sections} = needed
    BY <2>1 DEF SectionsInv, Has_section
  <2> QED
    BY <2>1, <2>2, SectionsCounted
<1>3. FlaggedOrPassed
  BY DEF DraftingInv, WorkersInv, Judged, FlaggedOrPassed
<1>4. ArbitrationJustified
  BY DEF DraftingInv
<1> QED
  BY <1>1, <1>2, <1>3, <1>4 DEF DraftsJudged

-----------------------------------------------------------------------------
(* Questions to the knowledge service.                                    *)

SentenceId == Nat \X Nat \X Nat
Point == [build : Nat, index : Nat, text : Seq(SentenceId), version : Nat,
          from : PROFILES, audience : STRING]
Collection == [there : BOOLEAN, points : SUBSET Point]
Indexing == [pc : {"idle", "exists", "delete", "create", "upsert"}, profile : PROFILES,
             points : SUBSET Point]
Asking == [pc : {"idle", "exists", "query", "generate"} \cup Ended, profile : PROFILES,
           hits : SUBSET Point, calls : SUBSET (PROFILES \X Nat)]
KnowledgeTypes ==
    /\ corpus \in [PROFILES -> [version : Nat, source : Source]]
    /\ store \in [PROFILES -> Collection]
    /\ indexer \in [Indexers -> Indexing]
    /\ asker \in [Askers -> Asking]
    /\ slots \in [public : Seq(SlotStates), staff : Seq(SlotStates)]
    /\ builds \in Nat

\* The points of a profile come from its own corpus, and those of guests
\* from sources for guests.
PointsFor(points, p) ==
    \A c \in points : c.from = p /\ (p = "public" => c.audience = "public")

\* Wherever the points of a profile are on their way, they are for it.
PointsInv ==
    /\ \A p \in PROFILES : PointsFor(store[p].points, p)
    /\ \A i \in Indexers : PointsFor(indexer[i].points, indexer[i].profile)

\* What a guest's question has found and called so far.
GuestInv(q) ==
    /\ PointsFor(asker[q].hits, "public")
    /\ asker[q].pc \in {"generate", "answered"} => asker[q].hits # {}
    /\ asker[q].hits = {} \/ asker[q].pc = "query" => asker[q].calls = {}
    /\ asker[q].pc \in {"idle", "exists"} => asker[q].hits = {}
    /\ Cardinality(asker[q].calls) <= MAX_PUBLIC_ATTEMPTS
    /\ Tagged("public") # <<>> => \A c \in asker[q].calls : c[1] = "public"
GuestsInv == \A q \in Askers : asker[q].profile = "public" => GuestInv(q)


-----------------------------------------------------------------------------
(* The chunks of a source.                                                *)

\* The first and the last of the n sentences that the i-th group has.
First(i, size) == (i - 1) * size + 1
Until(i, size, n) == IF i * size < n THEN i * size ELSE n

LEMMA Divided ==
  ASSUME NEW a \in Nat, NEW d \in Nat \ {0}
  PROVE  a \div d \in Nat /\ d * (a \div d) <= a /\ a < d * (a \div d) + d
OBVIOUS

LEMMA Product ==
  ASSUME NEW i \in Nat, NEW k \in Nat, NEW d \in Nat, i <= k
  PROVE  d * i \in Nat /\ d * k \in Nat /\ d * i <= d * k /\ i * d = d * i /\ k * d = d * k
<1>1. k - i \in Nat /\ k = i + (k - i)
  OBVIOUS
<1>2. d * (k - i) \in Nat /\ d * k = d * i + d * (k - i) /\ d * i \in Nat /\ d * k \in Nat
  BY <1>1
<1> QED
  BY <1>2

(* The groups are stretches of the text that follow one another, and each  *)
(* sentence is in one.                                                     *)
LEMMA Stretches ==
  ASSUME NEW n \in Nat, NEW size \in Nat \ {0}, NEW g, g = (n + size - 1) \div size
  PROVE  /\ g \in Nat
         /\ \A i \in 1..g : /\ First(i, size) \in 1..n /\ Until(i, size, n) \in 1..n
                            /\ First(i, size) <= Until(i, size, n)
         /\ \A i, k \in 1..g : i < k => Until(i, size, n) < First(k, size)
         /\ \A x \in 1..n : \E i \in 1..g : First(i, size) <= x /\ x <= Until(i, size, n)
<1> DEFINE a == n + size - 1
<1>1. a \in Nat /\ g \in Nat /\ size * g <= a /\ a < size * g + size
  BY Divided
<1>2. size \in Nat /\ size >= 1
  OBVIOUS
<1>3. \A i \in Nat, k \in Nat : i <= k =>
         /\ size * i \in Nat /\ size * k \in Nat /\ size * i <= size * k
         /\ i * size = size * i /\ k * size = size * k
  BY <1>2, Product
<1>4. ASSUME NEW i \in 1..g
      PROVE  /\ i - 1 \in Nat /\ i \in Nat /\ size * (i - 1) \in Nat
             /\ size * i = size * (i - 1) + size
             /\ size * (i - 1) <= n - 1
             /\ (i - 1) * size = size * (i - 1) /\ i * size = size * i
  <2>1. i - 1 \in Nat /\ i \in Nat /\ i <= g /\ i - 1 <= i
    BY <1>1
  <2>2. size * i = size * (i - 1) + size
    BY <1>2, <2>1
  <2>3. size * i <= size * g /\ size * (i - 1) \in Nat /\ size * g \in Nat /\ size * i \in Nat
        /\ (i - 1) * size = size * (i - 1) /\ i * size = size * i
    BY <1>1, <1>3, <2>1
  <2>4. size * (i - 1) <= n - 1
    BY <1>1, <1>2, <2>2, <2>3
  <2> QED
    BY <2>1, <2>2, <2>3, <2>4
<1>5. ASSUME NEW i \in 1..g
      PROVE  /\ First(i, size) \in 1..n /\ Until(i, size, n) \in 1..n
             /\ First(i, size) <= Until(i, size, n)
  <2> DEFINE before == size * (i - 1)
  <2>1. /\ before \in Nat /\ before <= n - 1 /\ First(i, size) = before + 1
        /\ Until(i, size, n) = IF before + size < n THEN before + size ELSE n
    BY <1>4 DEF First, Until
  <2> HIDE DEF before
  <2> QED
    BY <1>2, <2>1
<1>6. ASSUME NEW i \in 1..g, NEW k \in 1..g, i < k
      PROVE  Until(i, size, n) < First(k, size)
  <2>1. i \in Nat /\ k - 1 \in Nat /\ i <= k - 1
    BY <1>4, <1>6
  <2>2. size * i <= size * (k - 1) /\ size * i \in Nat /\ size * (k - 1) \in Nat
    BY <1>3, <2>1
  <2>3. First(k, size) = size * (k - 1) + 1
    BY <1>4 DEF First
  <2>4. Until(i, size, n) = IF size * i < n THEN size * i ELSE n
    BY <1>4 DEF Until
  <2> QED
    BY <2>2, <2>3, <2>4
<1>7. ASSUME NEW x \in 1..n
      PROVE  \E i \in 1..g : First(i, size) <= x /\ x <= Until(i, size, n)
  <2> DEFINE q == (x - 1) \div size
  <2>1. q \in Nat /\ size * q <= x - 1 /\ x - 1 < size * q + size
    <3>1. x - 1 \in Nat
      OBVIOUS
    <3> QED
      BY <3>1, Divided
  <2> HIDE DEF q
  <2>2. q + 1 <= g
    <3>1. CASE g <= q
      <4>1. size * g <= size * q /\ size * g \in Nat /\ size * q \in Nat
        BY <1>1, <1>3, <2>1, <3>1
      <4> QED
        BY <1>1, <1>2, <2>1, <4>1
    <3> QED
      BY <1>1, <2>1, <3>1
  <2>3. q + 1 \in 1..g /\ (q + 1) - 1 = q
    BY <1>1, <2>1, <2>2
  <2>4. /\ size * q \in Nat /\ First(q + 1, size) = size * q + 1
        /\ (q + 1) * size = size * q + size
    BY <1>4, <2>1, <2>3 DEF First
  <2>5. First(q + 1, size) <= x /\ x <= Until(q + 1, size, n)
    BY <1>2, <2>1, <2>4 DEF Until
  <2> QED
    BY <2>3, <2>5
<1> QED
  BY <1>1, <1>5, <1>6, <1>7


\* A sentence of the paragraphs of a source.
InText(sections_, x) ==
    \E s \in 1..Len(sections_) : \E p \in 1..Len(sections_[s].paragraphs) :
        \E k \in 1..sections_[s].paragraphs[p] : x = <<s, p, k>>
Holds(chunks, x) == \E i \in 1..Len(chunks) : \E j \in 1..Len(chunks[i]) : chunks[i][j] = x

\* No chunk is empty, and no sentence is twice in one or in two.
Apart(chunks) ==
    /\ \A i \in 1..Len(chunks) : chunks[i] # <<>>
    /\ \A i \in 1..Len(chunks) : \A j, l \in 1..Len(chunks[i]) :
          j < l => chunks[i][j] # chunks[i][l]
    /\ \A i, k \in 1..Len(chunks) : \A j \in 1..Len(chunks[i]), l \in 1..Len(chunks[k]) :
          i < k => chunks[i][j] # chunks[k][l]

\* Chunks of sentences of a text, whose paragraphs are all in them.
ChunksOfText(chunks, sections_) ==
    /\ chunks \in Seq(Seq(SentenceId))
    /\ Apart(chunks)
    /\ \A x \in SentenceId : x[2] # 0 => (Holds(chunks, x) <=> InText(sections_, x))

LEMMA SectionOf ==
  ASSUME NEW sections_ \in Seq(Section), NEW s \in 1..Len(sections_)
  PROVE  /\ sections_[s].heading \in Nat /\ sections_[s].paragraphs \in Seq(Nat \ {0})
         /\ s \in Nat /\ s # 0
<1>1. sections_[s] \in Section
  OBVIOUS
<1>2. sections_[s].heading \in Nat /\ sections_[s].paragraphs \in Seq(Nat \ {0})
  BY <1>1 DEF Section
<1> QED
  BY <1>2

LEMMA Splits ==
  ASSUME NEW s \in Nat, NEW p \in Nat, NEW n \in Nat
  PROVE  /\ split_sentences(s, p, n) \in Seq(SentenceId) /\ Len(split_sentences(s, p, n)) = n
         /\ \A k \in 1..n : split_sentences(s, p, n)[k] = <<s, p, k>>
<1>1. \A k \in 1..n : <<s, p, k>> \in SentenceId
  BY DEF SentenceId
<1> QED
  BY <1>1 DEF split_sentences

\* The paragraphs of a section, split.
Split_up(section, s) ==
    [p \in DOMAIN section.paragraphs |-> split_sentences(s, p, section.paragraphs[p])]

LEMMA SplitUp ==
  ASSUME NEW sections_ \in Seq(Section), NEW s \in 1..Len(sections_)
  PROVE  /\ Split_up(sections_[s], s) \in Seq(Seq(SentenceId))
         /\ Len(Split_up(sections_[s], s)) = Len(sections_[s].paragraphs)
         /\ \A p \in 1..Len(sections_[s].paragraphs) :
               /\ p \in Nat /\ p # 0
               /\ Len(Split_up(sections_[s], s)[p]) = sections_[s].paragraphs[p]
               /\ sections_[s].paragraphs[p] \in Nat \ {0}
               /\ \A k \in 1..sections_[s].paragraphs[p] :
                     Split_up(sections_[s], s)[p][k] = <<s, p, k>>
<1> DEFINE ps == sections_[s].paragraphs
           parts == Split_up(sections_[s], s)
<1>1. ps \in Seq(Nat \ {0}) /\ s \in Nat
  BY SectionOf
<1>2. parts = [p \in DOMAIN ps |-> split_sentences(s, p, ps[p])]
  BY DEF Split_up
<1> HIDE DEF ps, parts
<1>3. \A p \in 1..Len(ps) : p \in Nat /\ p # 0 /\ ps[p] \in Nat \ {0} /\ ps[p] \in Nat
  BY <1>1
<1>4. \A p \in 1..Len(ps) : parts[p] = split_sentences(s, p, ps[p])
  BY <1>1, <1>2
<1>5. \A p \in 1..Len(ps) : /\ split_sentences(s, p, ps[p]) \in Seq(SentenceId)
                            /\ Len(split_sentences(s, p, ps[p])) = ps[p]
                            /\ \A k \in 1..ps[p] : split_sentences(s, p, ps[p])[k] = <<s, p, k>>
  BY <1>1, <1>3, Splits
<1>6. parts \in Seq(Seq(SentenceId)) /\ Len(parts) = Len(ps)
  <2>1. DOMAIN ps = 1..Len(ps) /\ Len(ps) \in Nat
    BY <1>1
  <2>2. parts \in [1..Len(ps) -> Seq(SentenceId)]
    BY <1>2, <1>5, <2>1
  <2> QED
    BY <2>1, <2>2
<1>7. \A p \in 1..Len(ps) : /\ Len(parts[p]) = ps[p]
                            /\ \A k \in 1..ps[p] : parts[p][k] = <<s, p, k>>
  BY <1>4, <1>5
<1> QED
  BY <1>3, <1>6, <1>7 DEF ps, parts

(* One chunk per paragraph.                                                *)
LEMMA PiecesApart ==
  ASSUME NEW sections_ \in Seq(Section)
  PROVE  /\ ChunksOfText(Pieces(sections_), sections_)
         /\ \A x : Holds(Pieces(sections_), x) => \E s, p, k \in Nat : p # 0 /\ x = <<s, p, k>>
<1> DEFINE seqs == [s \in DOMAIN sections_ |-> Split_up(sections_[s], s)]
           flat == FlattenSeq(seqs)
           N == Len(sections_)
           ps(s) == sections_[s].paragraphs
<1>1. Pieces(sections_) = flat
  BY DEF Pieces, Split_up
<1>2. /\ seqs \in Seq(Seq(Seq(SentenceId))) /\ Len(seqs) = N
      /\ \A s \in 1..N : seqs[s] = Split_up(sections_[s], s)
  <2>1. \A s \in 1..N : Split_up(sections_[s], s) \in Seq(Seq(SentenceId))
    BY SplitUp
  <2>2. DOMAIN sections_ = 1..N /\ N \in Nat
    OBVIOUS
  <2>3. seqs \in [1..N -> Seq(Seq(SentenceId))]
    BY <2>1, <2>2
  <2> QED
    BY <2>2, <2>3
<1> HIDE DEF seqs
<1>3. flat \in Seq(Seq(SentenceId)) /\ Placed(flat, seqs, N)
  BY <1>2, FlattenPlaces
<1>4. ASSUME NEW s \in 1..N, NEW p \in 1..Len(seqs[s])
      PROVE  /\ p \in 1..Len(ps(s)) /\ Len(seqs[s][p]) = ps(s)[p] /\ ps(s)[p] \in Nat \ {0}
             /\ s \in Nat /\ p \in Nat /\ p # 0
             /\ \A k \in 1..Len(seqs[s][p]) : k \in Nat /\ seqs[s][p][k] = <<s, p, k>>
  <2>1. seqs[s] = Split_up(sections_[s], s) /\ s \in Nat
    BY <1>2
  <2>2. Len(seqs[s]) = Len(ps(s))
    BY <2>1, SplitUp
  <2>3. /\ p \in 1..Len(ps(s)) /\ Len(seqs[s][p]) = ps(s)[p] /\ ps(s)[p] \in Nat \ {0}
        /\ p \in Nat /\ p # 0 /\ \A k \in 1..ps(s)[p] : seqs[s][p][k] = <<s, p, k>>
    <3>1. p \in 1..Len(sections_[s].paragraphs)
      BY <2>2
    <3>2. /\ p \in Nat /\ p # 0
          /\ Len(Split_up(sections_[s], s)[p]) = sections_[s].paragraphs[p]
          /\ sections_[s].paragraphs[p] \in Nat \ {0}
          /\ \A k \in 1..sections_[s].paragraphs[p] :
                Split_up(sections_[s], s)[p][k] = <<s, p, k>>
      BY <3>1, SplitUp
    <3> QED
      BY <2>1, <3>1, <3>2
  <2>4. \A k \in 1..Len(seqs[s][p]) : k \in Nat
    OBVIOUS
  <2> QED
    BY <2>1, <2>3, <2>4
<1> HIDE DEF flat
<1>5. ASSUME NEW i \in 1..Len(flat)
      PROVE  \E s \in 1..N : \E p \in 1..Len(seqs[s]) : flat[i] = seqs[s][p]
  BY <1>3 DEF Placed, From
<1>6. \A i \in 1..Len(flat) : flat[i] # <<>>
  <2> TAKE i \in 1..Len(flat)
  <2>1. PICK s \in 1..N : \E p \in 1..Len(seqs[s]) : flat[i] = seqs[s][p]
    BY <1>5
  <2>2. PICK p \in 1..Len(seqs[s]) : flat[i] = seqs[s][p]
    BY <2>1
  <2>3. Len(flat[i]) # 0
    <3>1. Len(seqs[s][p]) \in Nat \ {0}
      <4>1. Len(seqs[s][p]) = ps(s)[p] /\ ps(s)[p] \in Nat \ {0}
        BY <1>4
      <4> HIDE DEF seqs, ps, N
      <4> QED
        BY <4>1
    <3> QED
      BY <2>2, <3>1
  <2> QED
    BY <2>3
<1>7. ASSUME NEW i \in 1..Len(flat), NEW j \in 1..Len(flat[i]), NEW l \in 1..Len(flat[i]), j < l
      PROVE  flat[i][j] # flat[i][l]
  <2>1. PICK s \in 1..N : \E p \in 1..Len(seqs[s]) : flat[i] = seqs[s][p]
    BY <1>5
  <2>2. PICK p \in 1..Len(seqs[s]) : flat[i] = seqs[s][p]
    BY <2>1
  <2>3. flat[i][j] = <<s, p, j>> /\ flat[i][l] = <<s, p, l>> /\ j \in Nat /\ l \in Nat
    <3>1. j \in 1..Len(seqs[s][p]) /\ l \in 1..Len(seqs[s][p])
      BY <2>2
    <3>2. /\ seqs[s][p][j] = <<s, p, j>> /\ j \in Nat
          /\ seqs[s][p][l] = <<s, p, l>> /\ l \in Nat
      BY <1>4, <3>1
    <3> QED
      BY <2>2, <3>2
  <2>4. j # l
    BY <1>7, <2>3
  <2> QED
    BY <2>3, <2>4
<1>8. ASSUME NEW i \in 1..Len(flat), NEW h \in 1..Len(flat), i < h,
             NEW j \in 1..Len(flat[i]), NEW l \in 1..Len(flat[h])
      PROVE  flat[i][j] # flat[h][l]
  <2>1. PICK s, t \in 1..N : \E p \in 1..Len(seqs[s]), q \in 1..Len(seqs[t]) :
                flat[i] = seqs[s][p] /\ flat[h] = seqs[t][q] /\ (s < t \/ (s = t /\ p < q))
    BY <1>3, <1>8 DEF Placed, Ordered, Before
  <2>2. PICK p \in 1..Len(seqs[s]), q \in 1..Len(seqs[t]) :
                flat[i] = seqs[s][p] /\ flat[h] = seqs[t][q] /\ (s < t \/ (s = t /\ p < q))
    BY <2>1
  <2>3. flat[i][j] = <<s, p, j>> /\ flat[h][l] = <<t, q, l>>
    <3>1. j \in 1..Len(seqs[s][p]) /\ l \in 1..Len(seqs[t][q])
      BY <2>2
    <3>2. seqs[s][p][j] = <<s, p, j>> /\ seqs[t][q][l] = <<t, q, l>>
      BY <1>4, <3>1
    <3> QED
      BY <2>2, <3>2
  <2>4. s \in Nat /\ t \in Nat /\ p \in Nat /\ q \in Nat
    BY <1>4
  <2>5. s # t \/ p # q
    BY <2>2, <2>4
  <2> QED
    BY <2>3, <2>5
<1>9. Apart(flat)
  BY <1>6, <1>7, <1>8 DEF Apart
<1>10. ASSUME NEW x, Holds(flat, x)
       PROVE  InText(sections_, x) /\ \E s, p, k \in Nat : p # 0 /\ x = <<s, p, k>>
  <2>1. PICK i \in 1..Len(flat) : \E j \in 1..Len(flat[i]) : flat[i][j] = x
    BY <1>10 DEF Holds
  <2>2. PICK s \in 1..N : \E p \in 1..Len(seqs[s]) : flat[i] = seqs[s][p]
    BY <1>5
  <2>3. PICK p \in 1..Len(seqs[s]) : flat[i] = seqs[s][p]
    BY <2>2
  <2>4. PICK j \in 1..Len(seqs[s][p]) : seqs[s][p][j] = x
    BY <2>1, <2>3
  <2>5. x = <<s, p, j>> /\ p \in 1..Len(ps(s)) /\ j \in 1..ps(s)[p] /\ p # 0
        /\ s \in Nat /\ p \in Nat /\ j \in Nat
    BY <1>4, <2>4
  <2> QED
    BY <2>5 DEF InText
<1>11. ASSUME NEW x, InText(sections_, x) PROVE Holds(flat, x)
  <2>1. PICK s \in 1..N : \E p \in 1..Len(ps(s)) : \E k \in 1..ps(s)[p] : x = <<s, p, k>>
    BY <1>11 DEF InText
  <2>2. PICK p \in 1..Len(ps(s)) : \E k \in 1..ps(s)[p] : x = <<s, p, k>>
    BY <2>1
  <2>3. PICK k \in 1..ps(s)[p] : x = <<s, p, k>>
    BY <2>2
  <2>4. p \in 1..Len(seqs[s]) /\ k \in 1..Len(seqs[s][p])
    <3>1. seqs[s] = Split_up(sections_[s], s)
      BY <1>2
    <3>2. Len(seqs[s]) = Len(ps(s))
      BY <3>1, SplitUp
    <3>3. p \in 1..Len(seqs[s])
      BY <3>2
    <3>4. Len(seqs[s][p]) = ps(s)[p]
      BY <1>4, <3>3
    <3> QED
      BY <3>3, <3>4
  <2>5. seqs[s][p][k] = x
    BY <1>4, <2>3, <2>4
  <2>6. PICK i \in 1..Len(flat) : flat[i] = seqs[s][p]
    BY <1>3, <2>4 DEF Placed, Covers
  <2> QED
    BY <2>4, <2>5, <2>6 DEF Holds
<1>12. ChunksOfText(flat, sections_)
  BY <1>3, <1>9, <1>10, <1>11 DEF ChunksOfText
<1> QED
  BY <1>1, <1>10, <1>12


(* Lists of chunks that have nothing in common, one after the other.       *)
LEMMA JoinedApart ==
  ASSUME NEW S, NEW seqs \in Seq(Seq(Seq(S))),
         \A i \in 1..Len(seqs) : Apart(seqs[i]),
         \A i, k \in 1..Len(seqs) : \A x : i < k => ~(Holds(seqs[i], x) /\ Holds(seqs[k], x))
  PROVE  /\ FlattenSeq(seqs) \in Seq(Seq(S))
         /\ Apart(FlattenSeq(seqs))
         /\ \A x : Holds(FlattenSeq(seqs), x) <=> \E i \in 1..Len(seqs) : Holds(seqs[i], x)
<1> DEFINE flat == FlattenSeq(seqs)
           N == Len(seqs)
<1>1. flat \in Seq(Seq(S)) /\ Placed(flat, seqs, N)
  BY FlattenPlaces
<1> HIDE DEF flat
<1>2. ASSUME NEW i \in 1..Len(flat)
      PROVE  \E s \in 1..N : \E p \in 1..Len(seqs[s]) : flat[i] = seqs[s][p]
  BY <1>1 DEF Placed, From
<1>3. ASSUME NEW i \in 1..Len(flat)
      PROVE  /\ flat[i] # <<>>
             /\ \A j, l \in 1..Len(flat[i]) : j < l => flat[i][j] # flat[i][l]
  <2>1. PICK s \in 1..N : \E p \in 1..Len(seqs[s]) : flat[i] = seqs[s][p]
    BY <1>2
  <2>2. PICK p \in 1..Len(seqs[s]) : flat[i] = seqs[s][p]
    BY <2>1
  <2> QED
    BY <2>2 DEF Apart
<1>4. ASSUME NEW i \in 1..Len(flat), NEW h \in 1..Len(flat), i < h,
             NEW j \in 1..Len(flat[i]), NEW l \in 1..Len(flat[h])
      PROVE  flat[i][j] # flat[h][l]
  <2>1. PICK s, t \in 1..N : \E p \in 1..Len(seqs[s]), q \in 1..Len(seqs[t]) :
                flat[i] = seqs[s][p] /\ flat[h] = seqs[t][q] /\ (s < t \/ (s = t /\ p < q))
    BY <1>1, <1>4 DEF Placed, Ordered, Before
  <2>2. PICK p \in 1..Len(seqs[s]), q \in 1..Len(seqs[t]) :
                flat[i] = seqs[s][p] /\ flat[h] = seqs[t][q] /\ (s < t \/ (s = t /\ p < q))
    BY <2>1
  <2>3. CASE s < t
    <3>1. Holds(seqs[s], flat[i][j]) /\ Holds(seqs[t], flat[h][l])
      BY <2>2 DEF Holds
    <3> QED
      BY <2>3, <3>1
  <2>4. CASE s = t /\ p < q
    <3>1. Apart(seqs[s]) /\ p \in 1..Len(seqs[s]) /\ q \in 1..Len(seqs[s])
      BY <2>4
    <3>2. j \in 1..Len(seqs[s][p]) /\ l \in 1..Len(seqs[s][q])
      BY <2>2, <2>4
    <3>3. seqs[s][p][j] # seqs[s][q][l]
      <4> DEFINE parts == seqs[s]
      <4>1. /\ Apart(parts) /\ p \in 1..Len(parts) /\ q \in 1..Len(parts) /\ p < q
            /\ j \in 1..Len(parts[p]) /\ l \in 1..Len(parts[q])
        BY <2>4, <3>1, <3>2
      <4> HIDE DEF parts
      <4>2. parts[p][j] # parts[q][l]
        BY <4>1 DEF Apart
      <4> QED
        BY <4>2 DEF parts
    <3> QED
      BY <2>2, <2>4, <3>3
  <2> QED
    BY <2>2, <2>3, <2>4
<1>5. Apart(flat)
  BY <1>3, <1>4 DEF Apart
<1>6. ASSUME NEW x, Holds(flat, x) PROVE \E i \in 1..N : Holds(seqs[i], x)
  <2>1. PICK i \in 1..Len(flat) : \E j \in 1..Len(flat[i]) : flat[i][j] = x
    BY <1>6 DEF Holds
  <2>2. PICK s \in 1..N : \E p \in 1..Len(seqs[s]) : flat[i] = seqs[s][p]
    BY <1>2
  <2> QED
    BY <2>1, <2>2 DEF Holds
<1>7. ASSUME NEW x, NEW i \in 1..N, Holds(seqs[i], x) PROVE Holds(flat, x)
  <2>1. PICK p \in 1..Len(seqs[i]) : \E j \in 1..Len(seqs[i][p]) : seqs[i][p][j] = x
    BY <1>7 DEF Holds
  <2>2. PICK h \in 1..Len(flat) : flat[h] = seqs[i][p]
    BY <1>1 DEF Placed, Covers
  <2> QED
    BY <2>1, <2>2 DEF Holds
<1> QED
  BY <1>1, <1>5, <1>6, <1>7 DEF flat

(* Pieces that are split into their sentences are as good.                 *)
LEMMA ExpandedApart ==
  ASSUME NEW S, NEW pieces \in Seq(Seq(S)), Apart(pieces)
  PROVE  /\ Expanded(pieces) \in Seq(Seq(S))
         /\ Apart(Expanded(pieces))
         /\ \A x : Holds(Expanded(pieces), x) <=> Holds(pieces, x)
<1> DEFINE wide(i) == Len(pieces[i]) > 1 /\ Len(pieces) + Len(pieces[i]) - 1 >= 3
           single(i) == [k \in DOMAIN pieces[i] |-> <<pieces[i][k]>>]
           parts == [i \in DOMAIN pieces |-> IF wide(i) THEN single(i) ELSE <<pieces[i]>>]
           N == Len(pieces)
<1>1. Expanded(pieces) = FlattenSeq(parts)
  BY DEF Expanded
<1>2. DOMAIN pieces = 1..N /\ N \in Nat /\ \A i \in 1..N : pieces[i] \in Seq(S)
  OBVIOUS
<1>3. ASSUME NEW i \in 1..N
      PROVE  /\ single(i) \in Seq(Seq(S)) /\ Len(single(i)) = Len(pieces[i])
             /\ \A k \in 1..Len(pieces[i]) : Len(single(i)[k]) = 1 /\ single(i)[k][1] = pieces[i][k]
  <2>1. pieces[i] \in Seq(S)
    BY <1>2
  <2>2. /\ DOMAIN pieces[i] = 1..Len(pieces[i]) /\ Len(pieces[i]) \in Nat
        /\ \A k \in 1..Len(pieces[i]) : <<pieces[i][k]>> \in Seq(S)
    BY <2>1
  <2> DEFINE L == Len(pieces[i])
             sg == single(i)
  <2>3. sg \in [1..L -> Seq(S)] /\ L \in Nat
    BY <2>2
  <2>4. \A k \in 1..L : sg[k] = <<pieces[i][k]>>
    BY <2>2
  <2> HIDE DEF sg, L
  <2>5. sg \in Seq(Seq(S)) /\ Len(sg) = L
    BY <2>3
  <2>6. ASSUME NEW k \in 1..L PROVE Len(sg[k]) = 1 /\ sg[k][1] = pieces[i][k]
    <3>1. sg[k] = <<pieces[i][k]>>
      BY <2>4
    <3> QED
      BY <3>1
  <2> QED
    BY <2>5, <2>6 DEF sg, L
<1>4. ASSUME NEW i \in 1..N
      PROVE  /\ parts[i] \in Seq(Seq(S)) /\ Apart(parts[i])
             /\ \A x : Holds(parts[i], x) <=> \E a \in 1..Len(pieces[i]) : pieces[i][a] = x
  <2>1. CASE wide(i)
    <3>1. parts[i] = single(i)
      BY <1>2, <2>1
    <3> HIDE DEF single, parts, wide
    <3>2. \A x : Holds(parts[i], x) <=> \E a \in 1..Len(pieces[i]) : pieces[i][a] = x
      BY <1>3, <3>1 DEF Holds
    <3>3. Apart(parts[i])
      <4>1. \A k \in 1..Len(parts[i]) : /\ parts[i][k] # <<>>
                                        /\ \A j \in 1..Len(parts[i][k]) : j = 1
                                        /\ parts[i][k][1] = pieces[i][k]
        <5> TAKE k \in 1..Len(parts[i])
        <5>1. k \in 1..Len(pieces[i]) /\ Len(parts[i][k]) = 1 /\ parts[i][k][1] = pieces[i][k]
          BY <1>3, <3>1
        <5>2. parts[i][k] # <<>> /\ \A j \in 1..Len(parts[i][k]) : j = 1
          BY <5>1
        <5> QED
          BY <5>1, <5>2
      <4>2. Len(parts[i]) = Len(pieces[i])
        BY <1>3, <3>1
      <4>3. \A j, l \in 1..Len(pieces[i]) : j < l => pieces[i][j] # pieces[i][l]
        BY DEF Apart
      <4>4. \A k \in 1..Len(parts[i]) : \A j, l \in 1..Len(parts[i][k]) :
               j < l => parts[i][k][j] # parts[i][k][l]
        <5> TAKE k \in 1..Len(parts[i])
        <5> TAKE j, l \in 1..Len(parts[i][k])
        <5>1. j = 1 /\ l = 1
          BY <4>1
        <5> QED
          BY <5>1
      <4>5. \A h, k \in 1..Len(parts[i]) :
               \A j \in 1..Len(parts[i][h]), l \in 1..Len(parts[i][k]) :
                  h < k => parts[i][h][j] # parts[i][k][l]
        <5> TAKE h, k \in 1..Len(parts[i])
        <5> TAKE j \in 1..Len(parts[i][h]), l \in 1..Len(parts[i][k])
        <5>1. j = 1 /\ l = 1 /\ parts[i][h][1] = pieces[i][h] /\ parts[i][k][1] = pieces[i][k]
          BY <4>1
        <5>2. h < k => pieces[i][h] # pieces[i][k]
          BY <4>2, <4>3
        <5> QED
          BY <5>1, <5>2
      <4> QED
        BY <4>1, <4>4, <4>5 DEF Apart
    <3> QED
      BY <1>3, <3>1, <3>2, <3>3
  <2>2. CASE ~wide(i)
    <3>1. parts[i] = <<pieces[i]>>
      BY <1>2, <2>2
    <3> HIDE DEF single, parts, wide
    <3>2. parts[i] \in Seq(Seq(S)) /\ Len(parts[i]) = 1 /\ parts[i][1] = pieces[i]
          /\ \A k \in 1..Len(parts[i]) : k = 1
      BY <1>2, <3>1
    <3>3. Apart(parts[i])
      <4>1. /\ pieces[i] # <<>>
            /\ \A j, l \in 1..Len(pieces[i]) : j < l => pieces[i][j] # pieces[i][l]
        BY DEF Apart
      <4> QED
        BY <3>2, <4>1 DEF Apart
    <3>4. \A x : Holds(parts[i], x) <=> \E a \in 1..Len(pieces[i]) : pieces[i][a] = x
      BY <3>2 DEF Holds
    <3> QED
      BY <3>2, <3>3, <3>4
  <2> HIDE DEF parts, single, wide
  <2> QED
    BY <2>1, <2>2
<1> HIDE DEF parts, single, wide
<1>5. parts \in Seq(Seq(Seq(S))) /\ Len(parts) = N
  <2>1. parts \in [1..N -> Seq(Seq(S))]
    <3>1. DOMAIN parts = 1..N /\ parts = [i \in 1..N |-> parts[i]]
      BY <1>2 DEF parts
    <3> QED
      BY <1>4, <3>1
  <2> HIDE DEF N
  <2> QED
    BY <1>2, <2>1
<1>6. \A i \in 1..Len(parts) : Apart(parts[i])
  BY <1>4, <1>5
<1>7. ASSUME NEW i \in 1..Len(parts), NEW k \in 1..Len(parts), NEW x, i < k,
             Holds(parts[i], x), Holds(parts[k], x)
      PROVE  FALSE
  <2>1. i \in 1..N /\ k \in 1..N
    BY <1>5
  <2>2. PICK a \in 1..Len(pieces[i]) : pieces[i][a] = x
    BY <1>4, <1>7, <2>1
  <2>3. PICK b \in 1..Len(pieces[k]) : pieces[k][b] = x
    BY <1>4, <1>7, <2>1
  <2> QED
    BY <1>7, <2>1, <2>2, <2>3 DEF Apart
<1>8. /\ FlattenSeq(parts) \in Seq(Seq(S))
      /\ Apart(FlattenSeq(parts))
      /\ \A x : Holds(FlattenSeq(parts), x) <=> \E i \in 1..Len(parts) : Holds(parts[i], x)
  BY <1>5, <1>6, <1>7, JoinedApart
<1>9. \A x : Holds(pieces, x) <=> \E i \in 1..Len(parts) : Holds(parts[i], x)
  <2> TAKE x
  <2>1. Holds(pieces, x) <=> \E i \in 1..N : \E a \in 1..Len(pieces[i]) : pieces[i][a] = x
    BY DEF Holds
  <2>2. \A i \in 1..N : Holds(parts[i], x) <=> \E a \in 1..Len(pieces[i]) : pieces[i][a] = x
    BY <1>4
  <2>3. ASSUME Holds(pieces, x) PROVE \E i \in 1..Len(parts) : Holds(parts[i], x)
    BY <1>5, <2>1, <2>2, <2>3
  <2>4. ASSUME NEW i \in 1..N, Holds(parts[i], x) PROVE Holds(pieces, x)
    BY <2>1, <2>2, <2>4
  <2>5. ASSUME \E i \in 1..Len(parts) : Holds(parts[i], x) PROVE Holds(pieces, x)
    BY <1>5, <2>4, <2>5
  <2> QED
    BY <2>3, <2>5
<1> QED
  BY <1>1, <1>8, <1>9


\* The sentences of a section, those of its heading first.
Row(section, s) == split_sentences(s, 0, section.heading) \o FlattenSeq(Split_up(section, s))

LEMMA RowsOnce ==
  ASSUME NEW sections_ \in Seq(Section), NEW s \in 1..Len(sections_)
  PROVE  /\ Row(sections_[s], s) \in Seq(SentenceId)
         /\ \A x \in 1..Len(Row(sections_[s], s)) :
               /\ Row(sections_[s], s)[x][1] = s
               /\ Row(sections_[s], s)[x][2] # 0 => InText(sections_, Row(sections_[s], s)[x])
         /\ \A x, y \in 1..Len(Row(sections_[s], s)) :
               x < y => Row(sections_[s], s)[x] # Row(sections_[s], s)[y]
         /\ \A p \in 1..Len(sections_[s].paragraphs) : \A k \in 1..sections_[s].paragraphs[p] :
               \E x \in 1..Len(Row(sections_[s], s)) : Row(sections_[s], s)[x] = <<s, p, k>>
<1> DEFINE h == sections_[s].heading
           ps == sections_[s].paragraphs
           head == split_sentences(s, 0, h)
           parts == Split_up(sections_[s], s)
           body == FlattenSeq(parts)
           row == head \o body
<1>1. Row(sections_[s], s) = row
  BY DEF Row
<1>2. h \in Nat /\ s \in Nat
  BY SectionOf
<1>3. head \in Seq(SentenceId) /\ Len(head) = h /\ \A k \in 1..h : head[k] = <<s, 0, k>>
  BY <1>2, Splits
<1>4. parts \in Seq(Seq(SentenceId)) /\ Len(parts) = Len(ps)
  BY SplitUp
<1>5. ASSUME NEW p \in 1..Len(parts)
      PROVE  /\ p \in 1..Len(ps) /\ p \in Nat /\ p # 0 /\ Len(parts[p]) = ps[p]
             /\ \A k \in 1..ps[p] : k \in Nat /\ parts[p][k] = <<s, p, k>>
  <2>1. p \in 1..Len(sections_[s].paragraphs)
    BY <1>4
  <2>2. /\ p \in Nat /\ p # 0 /\ Len(parts[p]) = ps[p]
        /\ \A k \in 1..ps[p] : parts[p][k] = <<s, p, k>>
    <3> HIDE DEF parts
    <3>1. \A q \in 1..Len(sections_[s].paragraphs) :
             /\ q \in Nat /\ q # 0
             /\ Len(Split_up(sections_[s], s)[q]) = sections_[s].paragraphs[q]
             /\ sections_[s].paragraphs[q] \in Nat \ {0}
             /\ \A k \in 1..sections_[s].paragraphs[q] :
                   Split_up(sections_[s], s)[q][k] = <<s, q, k>>
      BY SplitUp
    <3> QED
      BY <2>1, <3>1 DEF parts
  <2>3. \A k \in 1..ps[p] : k \in Nat
    OBVIOUS
  <2> QED
    BY <2>1, <2>2, <2>3
<1>6. body \in Seq(SentenceId) /\ Placed(body, parts, Len(parts))
  BY <1>4, FlattenPlaces
<1> HIDE DEF h, head, parts, body
<1>7. row \in Seq(SentenceId) /\ Len(row) = h + Len(body) /\ Len(body) \in Nat
  <2>1. body \in Seq(SentenceId) /\ Len(body) \in Nat
    BY <1>6
  <2>2. row \in Seq(SentenceId) /\ Len(row) = Len(head) + Len(body)
    <3> DEFINE b == body
    <3>1. b \in Seq(SentenceId) /\ head \in Seq(SentenceId) /\ row = head \o b
      BY <1>3, <2>1
    <3> HIDE DEF row, b
    <3>2. row \in Seq(SentenceId) /\ Len(row) = Len(head) + Len(b)
      BY <3>1
    <3> QED
      BY <3>2 DEF b
  <2> QED
    BY <1>3, <2>1, <2>2
<1>8. /\ \A x \in 1..h : row[x] = head[x] /\ x \in 1..Len(row)
      /\ \A z \in 1..Len(body) : row[h + z] = body[z] /\ h + z \in 1..Len(row)
      /\ \A x \in 1..Len(row) : x \in 1..h \/ (x > h /\ \E z \in 1..Len(body) : x = h + z)
  <2>1. \A x \in 1..h : row[x] = head[x] /\ x \in 1..Len(row)
    BY <1>2, <1>3, <1>6
  <2>2. \A z \in 1..Len(body) : row[h + z] = body[z] /\ h + z \in 1..Len(row)
    BY <1>2, <1>3, <1>6
  <2>3. ASSUME NEW x \in 1..Len(row), x \notin 1..h
        PROVE  x > h /\ \E z \in 1..Len(body) : x = h + z
    <3> HIDE DEF row
    <3>1. x - h \in 1..Len(body) /\ x = h + (x - h) /\ x > h
      BY <1>2, <1>7, <2>3
    <3> QED
      BY <3>1
  <2> QED
    BY <2>1, <2>2, <2>3
<1> HIDE DEF row
<1>9. ASSUME NEW z \in 1..Len(body)
      PROVE  \E p \in 1..Len(ps) : \E k \in 1..ps[p] : body[z] = <<s, p, k>> /\ p \in Nat /\ p # 0
  <2>1. PICK p \in 1..Len(parts) : \E k \in 1..Len(parts[p]) : body[z] = parts[p][k]
    BY <1>6 DEF Placed, From
  <2>2. PICK k \in 1..Len(parts[p]) : body[z] = parts[p][k]
    BY <2>1
  <2>3. p \in 1..Len(ps) /\ k \in 1..ps[p] /\ body[z] = <<s, p, k>> /\ p \in Nat /\ p # 0
    BY <1>5, <2>2
  <2> QED
    BY <2>3
<1>10. ASSUME NEW x \in 1..Len(row)
       PROVE  row[x][1] = s /\ (row[x][2] # 0 => InText(sections_, row[x]))
  <2>1. CASE x \in 1..h
    <3>1. row[x] = <<s, 0, x>>
      BY <1>3, <1>8, <2>1
    <3> QED
      BY <3>1
  <2>2. CASE x \notin 1..h
    <3>1. PICK z \in 1..Len(body) : row[x] = body[z]
      BY <1>8, <2>2
    <3>2. PICK p \in 1..Len(ps) : \E k \in 1..ps[p] : body[z] = <<s, p, k>>
      BY <1>9
    <3>3. InText(sections_, row[x])
      BY <3>1, <3>2 DEF InText
    <3> QED
      BY <3>1, <3>2, <3>3
  <2> QED
    BY <2>1, <2>2
<1>11. ASSUME NEW x \in 1..Len(row), NEW y \in 1..Len(row), x < y
       PROVE  row[x] # row[y]
  <2>0. y \in 1..h => x \in 1..h
    BY <1>2, <1>11
  <2>1. CASE y \in 1..h
    <3>1. row[x] = <<s, 0, x>> /\ row[y] = <<s, 0, y>> /\ x # y
      <4>1. x # y
        BY <1>7, <1>11
      <4> QED
        BY <1>3, <1>8, <2>0, <2>1, <4>1
    <3> QED
      BY <3>1
  <2>2. CASE x \in 1..h /\ y \notin 1..h
    <3>1. row[x] = <<s, 0, x>>
      BY <1>3, <1>8, <2>2
    <3>2. PICK z \in 1..Len(body) : row[y] = body[z]
      BY <1>8, <2>2
    <3>3. row[y][2] # 0
      BY <1>9, <3>2
    <3> QED
      BY <3>1, <3>3
  <2>3. CASE x \notin 1..h /\ y \notin 1..h
    <3>1. PICK w \in 1..Len(body) : x = h + w
      BY <1>8, <2>3
    <3>2. PICK z \in 1..Len(body) : y = h + z
      BY <1>8, <2>3
    <3>3. w < z
      <4>1. w \in Int /\ z \in Int
        OBVIOUS
      <4> QED
        BY <1>2, <1>11, <3>1, <3>2, <4>1
    <3>4. PICK p, q \in 1..Len(parts) : \E k \in 1..Len(parts[p]), l \in 1..Len(parts[q]) :
             body[w] = parts[p][k] /\ body[z] = parts[q][l] /\ (p < q \/ (p = q /\ k < l))
      BY <1>6, <3>3 DEF Placed, Ordered, Before
    <3>5. PICK k \in 1..Len(parts[p]), l \in 1..Len(parts[q]) :
             body[w] = parts[p][k] /\ body[z] = parts[q][l] /\ (p < q \/ (p = q /\ k < l))
      BY <3>4
    <3>6. /\ parts[p][k] = <<s, p, k>> /\ parts[q][l] = <<s, q, l>>
          /\ p \in Nat /\ q \in Nat /\ k \in Nat /\ l \in Nat
      BY <1>5
    <3>7. p # q \/ k # l
      BY <3>5, <3>6
    <3>8. row[x] = <<s, p, k>> /\ row[y] = <<s, q, l>>
      BY <1>8, <3>1, <3>2, <3>5, <3>6
    <3> QED
      BY <3>7, <3>8
  <2> QED
    BY <2>0, <2>1, <2>2, <2>3
<1>12. ASSUME NEW p \in 1..Len(ps), NEW k \in 1..ps[p]
       PROVE  \E x \in 1..Len(row) : row[x] = <<s, p, k>>
  <2>1. p \in 1..Len(parts) /\ k \in 1..Len(parts[p]) /\ parts[p][k] = <<s, p, k>>
    BY <1>4, <1>5
  <2>2. PICK z \in 1..Len(body) : body[z] = parts[p][k]
    BY <1>6, <2>1 DEF Placed, Covers
  <2> QED
    BY <1>8, <2>1, <2>2
<1> QED
  BY <1>1, <1>7, <1>10, <1>11, <1>12

\* The whole text, with its headings.
All_of(sections_) == FlattenSeq([s \in DOMAIN sections_ |-> Row(sections_[s], s)])

LEMMA TextOnce ==
  ASSUME NEW sections_ \in Seq(Section)
  PROVE  /\ All_of(sections_) \in Seq(SentenceId)
         /\ \A x, y \in 1..Len(All_of(sections_)) :
               x < y => All_of(sections_)[x] # All_of(sections_)[y]
         /\ \A x \in 1..Len(All_of(sections_)) :
               All_of(sections_)[x][2] # 0 => InText(sections_, All_of(sections_)[x])
         /\ \A i : InText(sections_, i) =>
               \E x \in 1..Len(All_of(sections_)) : All_of(sections_)[x] = i
<1> DEFINE rows == [s \in DOMAIN sections_ |-> Row(sections_[s], s)]
           all == FlattenSeq(rows)
           N == Len(sections_)
<1>1. DOMAIN sections_ = 1..N /\ N \in Nat
  OBVIOUS
<1>2. \A s \in 1..N : rows[s] = Row(sections_[s], s) /\ Row(sections_[s], s) \in Seq(SentenceId)
  BY <1>1, RowsOnce
<1>3. rows \in Seq(Seq(SentenceId)) /\ Len(rows) = N
  <2>1. rows \in [1..N -> Seq(SentenceId)]
    BY <1>1, <1>2
  <2> HIDE DEF rows
  <2> QED
    BY <1>1, <2>1
<1> HIDE DEF rows
<1>4. all \in Seq(SentenceId) /\ Placed(all, rows, N)
  BY <1>3, FlattenPlaces
<1> HIDE DEF all
<1>5. ASSUME NEW s \in 1..N, NEW j \in 1..Len(rows[s])
      PROVE  /\ rows[s][j][1] = s
             /\ rows[s][j][2] # 0 => InText(sections_, rows[s][j])
             /\ \A l \in 1..Len(rows[s]) : j < l => rows[s][j] # rows[s][l]
  <2>1. rows[s] = Row(sections_[s], s) /\ j \in 1..Len(Row(sections_[s], s))
    BY <1>2
  <2> QED
    BY <2>1, RowsOnce
<1>6. ASSUME NEW x \in 1..Len(all), NEW y \in 1..Len(all), x < y
      PROVE  all[x] # all[y]
  <2>1. PICK i, k \in 1..N : \E j \in 1..Len(rows[i]), l \in 1..Len(rows[k]) :
           all[x] = rows[i][j] /\ all[y] = rows[k][l] /\ (i < k \/ (i = k /\ j < l))
    BY <1>4, <1>6 DEF Placed, Ordered, Before
  <2>2. PICK j \in 1..Len(rows[i]), l \in 1..Len(rows[k]) :
           all[x] = rows[i][j] /\ all[y] = rows[k][l] /\ (i < k \/ (i = k /\ j < l))
    BY <2>1
  <2>3. CASE i < k
    <3>1. rows[i][j][1] = i /\ rows[k][l][1] = k /\ i # k
      BY <1>1, <1>5, <2>3
    <3> QED
      BY <2>2, <3>1
  <2>4. CASE i = k /\ j < l
    BY <1>5, <2>2, <2>4
  <2> QED
    BY <2>2, <2>3, <2>4
<1>7. ASSUME NEW x \in 1..Len(all), all[x][2] # 0
      PROVE  InText(sections_, all[x])
  <2>1. PICK i \in 1..N : \E j \in 1..Len(rows[i]) : all[x] = rows[i][j]
    BY <1>4 DEF Placed, From
  <2> QED
    BY <1>5, <1>7, <2>1
<1>8. ASSUME NEW i, InText(sections_, i)
      PROVE  \E x \in 1..Len(all) : all[x] = i
  <2>1. PICK s \in 1..N : \E p \in 1..Len(sections_[s].paragraphs) :
                             \E k \in 1..sections_[s].paragraphs[p] : i = <<s, p, k>>
    BY <1>8 DEF InText
  <2>2. PICK p \in 1..Len(sections_[s].paragraphs) :
           \E k \in 1..sections_[s].paragraphs[p] : i = <<s, p, k>>
    BY <2>1
  <2>3. \E j \in 1..Len(Row(sections_[s], s)) : Row(sections_[s], s)[j] = i
    <3>1. \A q \in 1..Len(sections_[s].paragraphs) : \A k \in 1..sections_[s].paragraphs[q] :
             \E x \in 1..Len(Row(sections_[s], s)) : Row(sections_[s], s)[x] = <<s, q, k>>
      BY RowsOnce
    <3> QED
      BY <2>2, <3>1
  <2>4. PICK j \in 1..Len(rows[s]) : rows[s][j] = i
    BY <1>2, <2>3
  <2> QED
    BY <1>4, <2>4 DEF Placed, Covers
<1> QED
  BY <1>4, <1>6, <1>7, <1>8 DEF All_of, all, rows


LEMMA Stretch ==
  ASSUME NEW S, NEW all \in Seq(S), NEW a \in 1..Len(all), NEW b \in 1..Len(all), a <= b
  PROVE  /\ SubSeq(all, a, b) \in Seq(S) /\ SubSeq(all, a, b) # <<>>
         /\ \A j \in 1..Len(SubSeq(all, a, b)) :
               /\ a + j - 1 \in 1..Len(all) /\ a + j - 1 <= b
               /\ SubSeq(all, a, b)[j] = all[a + j - 1]
         /\ \A x \in 1..Len(all) : a <= x /\ x <= b =>
               \E j \in 1..Len(SubSeq(all, a, b)) : SubSeq(all, a, b)[j] = all[x]
<1> DEFINE sub == SubSeq(all, a, b)
<1>1. a \in Nat /\ b \in Nat /\ Len(all) \in Nat /\ a >= 1 /\ b <= Len(all)
  OBVIOUS
<1>2. sub \in Seq(S) /\ Len(sub) = b - a + 1
  BY <1>1
<1>3. \A j \in 1..(b - a + 1) : sub[j] = all[a + j - 1]
  BY <1>1
<1> HIDE DEF sub
<1>4. sub # <<>>
  BY <1>1, <1>2
<1>5. \A j \in 1..Len(sub) : a + j - 1 \in 1..Len(all) /\ a + j - 1 <= b
  BY <1>1, <1>2
<1>6. ASSUME NEW x \in 1..Len(all), a <= x, x <= b
      PROVE  \E j \in 1..Len(sub) : sub[j] = all[x]
  <2>1. x - a + 1 \in 1..(b - a + 1) /\ a + (x - a + 1) - 1 = x
    BY <1>1, <1>6
  <2> QED
    BY <1>2, <1>3, <2>1
<1> QED
  BY <1>2, <1>3, <1>4, <1>5, <1>6 DEF sub

(* The groups of the whole text.                                           *)
LEMMA GroupedApart ==
  ASSUME NEW sections_ \in Seq(Section), Grouped(sections_) # <<>>
  PROVE  ChunksOfText(Grouped(sections_), sections_)
<1> DEFINE all == All_of(sections_)
           n == Len(all)
           size == IF n \div 3 = 0 THEN 1 ELSE n \div 3
           g == (n + size - 1) \div size
           a(i) == (i - 1) * size + 1
           b(i) == IF i * size < n THEN i * size ELSE n
           chunks == Grouped(sections_)
<1>1. chunks = IF n < 3 THEN <<>> ELSE [i \in 1..g |-> SubSeq(all, a(i), b(i))]
  BY DEF Grouped, All_of, Row, Split_up
<1>2. /\ all \in Seq(SentenceId)
      /\ \A x, y \in 1..n : x < y => all[x] # all[y]
      /\ \A x \in 1..n : all[x][2] # 0 => InText(sections_, all[x])
      /\ \A i : InText(sections_, i) => \E x \in 1..n : all[x] = i
  BY TextOnce
<1> HIDE DEF all
<1>3. n \in Nat /\ size \in Nat \ {0}
  <2>1. n \in Nat
    BY <1>2
  <2> HIDE DEF n
  <2> QED
    BY <2>1
<1> HIDE DEF size
<1>4. /\ g \in Nat
      /\ \A i \in 1..g : /\ First(i, size) \in 1..n /\ Until(i, size, n) \in 1..n
                         /\ First(i, size) <= Until(i, size, n)
      /\ \A i, k \in 1..g : i < k => Until(i, size, n) < First(k, size)
      /\ \A x \in 1..n : \E i \in 1..g : First(i, size) <= x /\ x <= Until(i, size, n)
  <2> HIDE DEF n
  <2> QED
    BY <1>3, Stretches
<1>5. chunks = [i \in 1..g |-> SubSeq(all, First(i, size), Until(i, size, n))]
  BY <1>1 DEF First, Until
<1> HIDE DEF chunks, g
<1>6. ASSUME NEW i \in 1..g
      PROVE  /\ chunks[i] \in Seq(SentenceId) /\ chunks[i] # <<>>
             /\ \A j \in 1..Len(chunks[i]) :
                   /\ First(i, size) + j - 1 \in 1..n
                   /\ First(i, size) + j - 1 <= Until(i, size, n)
                   /\ chunks[i][j] = all[First(i, size) + j - 1]
             /\ \A x \in 1..n : First(i, size) <= x /\ x <= Until(i, size, n) =>
                   \E j \in 1..Len(chunks[i]) : chunks[i][j] = all[x]
  <2>1. chunks[i] = SubSeq(all, First(i, size), Until(i, size, n))
    BY <1>5
  <2>2. First(i, size) \in 1..n /\ Until(i, size, n) \in 1..n
        /\ First(i, size) <= Until(i, size, n)
    BY <1>4
  <2> DEFINE from == First(i, size)
             to == Until(i, size, n)
  <2> HIDE DEF from, to
  <2>3. from \in 1..Len(all) /\ to \in 1..Len(all) /\ from <= to
    BY <2>2 DEF from, to
  <2>4. /\ SubSeq(all, from, to) \in Seq(SentenceId) /\ SubSeq(all, from, to) # <<>>
        /\ \A j \in 1..Len(SubSeq(all, from, to)) :
              /\ from + j - 1 \in 1..Len(all) /\ from + j - 1 <= to
              /\ SubSeq(all, from, to)[j] = all[from + j - 1]
        /\ \A x \in 1..Len(all) : from <= x /\ x <= to =>
              \E j \in 1..Len(SubSeq(all, from, to)) : SubSeq(all, from, to)[j] = all[x]
    <3>1. all \in Seq(SentenceId)
      BY <1>2
    <3>2. \A c, d \in 1..Len(all) : c <= d =>
             /\ SubSeq(all, c, d) \in Seq(SentenceId) /\ SubSeq(all, c, d) # <<>>
             /\ \A j \in 1..Len(SubSeq(all, c, d)) :
                   /\ c + j - 1 \in 1..Len(all) /\ c + j - 1 <= d
                   /\ SubSeq(all, c, d)[j] = all[c + j - 1]
             /\ \A x \in 1..Len(all) : c <= x /\ x <= d =>
                   \E j \in 1..Len(SubSeq(all, c, d)) : SubSeq(all, c, d)[j] = all[x]
      BY <3>1, Stretch
    <3> QED
      BY <2>3, <3>2
  <2> QED
    BY <2>1, <2>4 DEF from, to
<1>7. chunks \in Seq(Seq(SentenceId)) /\ Len(chunks) = g
  <2>1. chunks \in [1..g -> Seq(SentenceId)]
    <3>1. DOMAIN chunks = 1..g /\ chunks = [i \in 1..g |-> chunks[i]]
      BY <1>5
    <3> QED
      BY <1>6, <3>1
  <2>2. g \in Nat
    BY <1>4
  <2> DEFINE S == Seq(SentenceId)
  <2>3. chunks \in [1..g -> S]
    BY <2>1
  <2> HIDE DEF S, chunks, g
  <2>4. chunks \in Seq(S) /\ Len(chunks) = g
    BY <2>2, <2>3
  <2> QED
    BY <2>4 DEF S
<1>8. ASSUME NEW i \in 1..g, NEW j \in 1..Len(chunks[i]), NEW l \in 1..Len(chunks[i]), j < l
      PROVE  chunks[i][j] # chunks[i][l]
  <2> DEFINE f == First(i, size)
  <2>1. /\ f + j - 1 \in 1..n /\ f + l - 1 \in 1..n /\ f \in Int /\ j \in Int /\ l \in Int
        /\ chunks[i][j] = all[f + j - 1] /\ chunks[i][l] = all[f + l - 1]
    BY <1>4, <1>6
  <2> HIDE DEF f
  <2>2. f + j - 1 < f + l - 1
    BY <1>8, <2>1
  <2> DEFINE u == f + j - 1
             v == f + l - 1
  <2>3. u \in 1..n /\ v \in 1..n /\ u < v /\ chunks[i][j] = all[u] /\ chunks[i][l] = all[v]
    BY <2>1, <2>2
  <2> HIDE DEF u, v
  <2> QED
    BY <1>2, <2>3
<1>9. ASSUME NEW i \in 1..g, NEW k \in 1..g, i < k,
             NEW j \in 1..Len(chunks[i]), NEW l \in 1..Len(chunks[k])
      PROVE  chunks[i][j] # chunks[k][l]
  <2> DEFINE f == First(i, size)
             e == First(k, size)
             u == Until(i, size, n)
  <2>1. f \in Int /\ e \in Int /\ u \in Int /\ u < e
    <3>1. f \in 1..n /\ e \in 1..n /\ u \in 1..n
      BY <1>4
    <3>2. u < e
      <4> HIDE DEF n
      <4> QED
        BY <1>4, <1>9
    <3>3. \A x \in 1..n : x \in Int
      OBVIOUS
    <3> HIDE DEF f, e, u, n
    <3> QED
      BY <3>1, <3>2, <3>3
  <2>2. /\ f + j - 1 \in 1..n /\ f + j - 1 <= u /\ chunks[i][j] = all[f + j - 1]
        /\ e + l - 1 \in 1..n /\ chunks[k][l] = all[e + l - 1]
    BY <1>6
  <2>3. j \in Int /\ l \in Int /\ l >= 1
    OBVIOUS
  <2> HIDE DEF f, e, u
  <2>4. f + j - 1 < e + l - 1
    BY <2>1, <2>2, <2>3
  <2>5. all[f + j - 1] # all[e + l - 1]
    BY <1>2, <2>2, <2>4
  <2> QED
    BY <2>2, <2>5
<1>10. Apart(chunks)
  <2>1. \A i \in 1..g : chunks[i] # <<>>
    BY <1>6
  <2>2. \A i \in 1..g : \A j, l \in 1..Len(chunks[i]) : j < l => chunks[i][j] # chunks[i][l]
    BY <1>8
  <2>3. \A i, k \in 1..g : \A j \in 1..Len(chunks[i]), l \in 1..Len(chunks[k]) :
           i < k => chunks[i][j] # chunks[k][l]
    BY <1>9
  <2> QED
    BY <1>7, <2>1, <2>2, <2>3 DEF Apart
<1>11. ASSUME NEW x \in SentenceId, x[2] # 0, Holds(chunks, x)
       PROVE  InText(sections_, x)
  <2>1. PICK i \in 1..g : \E j \in 1..Len(chunks[i]) : chunks[i][j] = x
    BY <1>7, <1>11 DEF Holds
  <2>2. PICK j \in 1..Len(chunks[i]) : chunks[i][j] = x
    BY <2>1
  <2>3. PICK y \in 1..n : all[y] = x
    BY <1>6, <2>2
  <2> QED
    BY <1>2, <1>11, <2>3
<1>12. ASSUME NEW x, InText(sections_, x)
       PROVE  Holds(chunks, x)
  <2>1. PICK y \in 1..n : all[y] = x
    BY <1>2, <1>12
  <2>2. PICK i \in 1..g : First(i, size) <= y /\ y <= Until(i, size, n)
    BY <1>4
  <2>3. \E j \in 1..Len(chunks[i]) : chunks[i][j] = x
    BY <1>6, <2>1, <2>2
  <2> QED
    BY <1>7, <2>3 DEF Holds
<1>13. ChunksOfText(chunks, sections_)
  BY <1>7, <1>10, <1>11, <1>12 DEF ChunksOfText
<1> QED
  BY <1>13 DEF chunks

(* Whatever way a source is cut, its chunks are its text, each sentence of *)
(* a paragraph in exactly one.                                             *)
LEMMA ChunksHoldText ==
  ASSUME NEW source \in Source
  PROVE  chunks_of(source) = <<>> \/ ChunksOfText(chunks_of(source), source.sections)
<1> DEFINE text == source.sections
           raw == Pieces(text)
           wider == IF Len(raw) < 3 THEN Expanded(raw) ELSE raw
           last == IF Len(wider) < 3 /\ Grouped(text) # <<>> THEN Grouped(text) ELSE wider
<1>1. text \in Seq(Section)
  BY DEF Source
<1> HIDE DEF text
<1>2. ChunksOfText(raw, text)
  BY <1>1, PiecesApart
<1>3. ChunksOfText(Expanded(raw), text)
  BY <1>2, ExpandedApart DEF ChunksOfText
<1>4. ChunksOfText(wider, text)
  BY <1>2, <1>3
<1>5. ChunksOfText(last, text)
  <2> HIDE DEF wider
  <2> QED
    BY <1>1, <1>4, GroupedApart
<1>6. chunk_markdown(text) = IF Len(last) < 3 THEN <<>> ELSE last
  BY DEF chunk_markdown
<1> HIDE DEF last, raw
<1>7. chunks_of(source) = IF source.format = "json" THEN raw ELSE chunk_markdown(text)
  BY DEF chunks_of, raw, text
<1>8. chunks_of(source) = <<>> \/ ChunksOfText(chunks_of(source), text)
  BY <1>2, <1>5, <1>6, <1>7
<1> QED
  BY <1>8 DEF text

LEMMA ChunksTyped ==
  ASSUME NEW source \in Source
  PROVE  chunks_of(source) \in Seq(Seq(SentenceId))
<1>1. CASE chunks_of(source) = <<>>
  BY <1>1
<1>2. CASE ChunksOfText(chunks_of(source), source.sections)
  BY <1>2 DEF ChunksOfText
<1> QED
  BY <1>1, <1>2, ChunksHoldText

(* The tiers that are used are slots, by their numbers.                    *)
LEMMA TiersAreSlots ==
  ASSUME NEW s \in Seq(SlotStates)
  PROVE  generation_tiers(s) \in Seq(Nat)
<1> DEFINE rows == [i \in DOMAIN s |-> i]
           full == {i \in {j \in DOMAIN s : \A k \in 1..j : s[k] # "absent"} : s[i] = "full"}
<1>1. rows \in Seq(Nat)
  OBVIOUS
<1>2. Where(rows, full) \in Seq(Nat)
  <2> HIDE DEF rows, full
  <2> QED
    BY <1>1, WhereKeeps
<1> QED
  BY <1>2 DEF generation_tiers

LEMMA TagsAreTiers ==
  ASSUME KnowledgeTypes, NEW of \in PROFILES
  PROVE  /\ Tagged(of) \in Seq(PROFILES \X Nat)
         /\ \A k \in DOMAIN Tagged(of) : Tagged(of)[k][1] = of
<1>1. slots[of] \in Seq(SlotStates)
  BY DEF KnowledgeTypes, PROFILES
<1> DEFINE tiers == generation_tiers(slots[of])
<1>2. tiers \in Seq(Nat)
  BY <1>1, TiersAreSlots
<1>3. Tagged(of) = [k \in DOMAIN tiers |-> <<of, tiers[k]>>]
  BY DEF Tagged
<1> HIDE DEF tiers
<1> QED
  BY <1>2, <1>3

(* No more than limit calls are made, and by the tiers that were given.    *)
LEMMA TwoAttempts ==
  ASSUME NEW S, NEW tiers \in Seq(S), NEW up
  PROVE  Cardinality({tiers[k] : k \in Attempted(tiers, up, 2)}) <= 2
<1> DEFINE A == {tiers[k] : k \in Attempted(tiers, up, 2)}
<1>1. A \subseteq {tiers[1]} \cup {tiers[2]}
  <2>1. \A k \in Attempted(tiers, up, 2) : k = 1 \/ k = 2
    BY DEF Attempted
  <2> QED
    BY <2>1
<1>2. IsFiniteSet({tiers[1]}) /\ Cardinality({tiers[1]}) = 1
  BY FS_Singleton
<1>3. /\ IsFiniteSet({tiers[1]} \cup {tiers[2]})
      /\ Cardinality({tiers[1]} \cup {tiers[2]}) <= 2
  <2>1. /\ IsFiniteSet({tiers[1]} \cup {tiers[2]})
        /\ Cardinality({tiers[1]} \cup {tiers[2]})
              = IF tiers[2] \in {tiers[1]} THEN 1 ELSE 1 + 1
    BY <1>2, FS_AddElement
  <2> QED
    BY <2>1
<1> HIDE DEF A
<1>4. Cardinality(A) <= Cardinality({tiers[1]} \cup {tiers[2]})
      /\ Cardinality(A) \in Nat /\ Cardinality({tiers[1]} \cup {tiers[2]}) \in Nat
  BY <1>1, <1>3, FS_Subset, FS_CardinalityType
<1>5. Cardinality(A) <= 2
  BY <1>3, <1>4
<1> QED
  BY <1>5 DEF A

LEMMA KnowledgeStarts == KnowledgeInit => KnowledgeTypes /\ PointsInv /\ GuestsInv
<1> SUFFICES ASSUME KnowledgeInit PROVE KnowledgeTypes /\ PointsInv /\ GuestsInv
  OBVIOUS
<1>1. KnowledgeTypes
  <2>1. corpus \in [PROFILES -> [version : Nat, source : Source]]
    <3>1. PICK s \in Sources["staff"], g \in Sources["public"] :
             corpus = [p \in PROFILES |->
                          [version |-> 1, source |-> IF p = "staff" THEN s ELSE g]]
      BY DEF KnowledgeInit
    <3>2. s \in Source /\ g \in Source
      BY KnowledgeAssumption DEF PROFILES
    <3> QED
      BY <3>1, <3>2
  <2>2. slots \in [public : Seq(SlotStates), staff : Seq(SlotStates)]
    BY KnowledgeAssumption DEF KnowledgeInit
  <2>3. Absent_store \in Collection /\ NoIndexing \in Indexing /\ NoQuestion \in Asking
    BY DEF Absent_store, Collection, NoIndexing, Indexing, NoQuestion, Asking, PROFILES
  <2> QED
    BY <2>1, <2>2, <2>3 DEF KnowledgeTypes, KnowledgeInit
<1>2. PointsInv
  BY DEF PointsInv, PointsFor, KnowledgeInit, Absent_store, NoIndexing
<1>3. GuestsInv
  BY DEF GuestsInv, KnowledgeInit, NoQuestion
<1> QED
  BY <1>1, <1>2, <1>3

\* The points that one build makes of a source.
PointsOf(build, p, version, source) ==
    {[build |-> build, index |-> k, text |-> chunks_of(source)[k], version |-> version,
      from |-> p, audience |-> source.audience] : k \in DOMAIN chunks_of(source)}

LEMMA BuiltPoints ==
  ASSUME NEW build \in Nat, NEW p \in PROFILES, NEW version \in Nat, NEW source \in Source
  PROVE  /\ PointsOf(build, p, version, source) \in SUBSET Point
         /\ load_manifest(p, source) => PointsFor(PointsOf(build, p, version, source), p)
<1> DEFINE chunks == chunks_of(source)
<1>1. chunks \in Seq(Seq(SentenceId)) /\ source.audience \in STRING
  BY ChunksTyped DEF Source
<1>2. \A k \in DOMAIN chunks : k \in Nat /\ chunks[k] \in Seq(SentenceId)
  BY <1>1
<1> HIDE DEF chunks
<1>3. PointsOf(build, p, version, source) =
         {[build |-> build, index |-> k, text |-> chunks[k], version |-> version,
           from |-> p, audience |-> source.audience] : k \in DOMAIN chunks}
  BY DEF PointsOf, chunks
<1> QED
  BY <1>1, <1>2, <1>3 DEF Point, PointsFor, load_manifest

\* What one step of an indexer leaves.
LEMMA BuildMakes ==
  ASSUME KnowledgeTypes, NEW i \in Indexers, NEW p \in PROFILES, BuildChunks(i, p)
  PROVE  \/ indexer' = indexer
         \/ \E points \in SUBSET Point :
               /\ indexer' = [indexer EXCEPT ![i] = [pc |-> "exists", profile |-> p,
                                                     points |-> points]]
               /\ PointsFor(points, p)
               /\ points = PointsOf(builds', p, corpus[p].version, corpus[p].source)
<1> DEFINE source == corpus[p].source
           points == PointsOf(builds', p, corpus[p].version, source)
<1>1. source \in Source /\ corpus[p].version \in Nat /\ builds' \in Nat
  BY DEF KnowledgeTypes, BuildChunks
<1>2. CASE load_manifest(p, source) /\ chunks_of(source) # <<>>
  <2>1. points \in SUBSET Point /\ PointsFor(points, p)
    BY <1>1, <1>2, BuiltPoints
  <2>2. indexer' = [indexer EXCEPT ![i] = [pc |-> "exists", profile |-> p, points |-> points]]
    BY <1>2 DEF BuildChunks, PointsOf
  <2> QED
    BY <2>1, <2>2
<1>3. CASE ~(load_manifest(p, source) /\ chunks_of(source) # <<>>)
  BY <1>3 DEF BuildChunks
<1> QED
  BY <1>2, <1>3

LEMMA KnowledgeTypesStep ==
  ASSUME KnowledgeTypes, KnowledgeNext
  PROVE  KnowledgeTypes'
<1> USE DEF KnowledgeTypes
<1>1. ASSUME NEW i \in Indexers, NEW p \in PROFILES, BuildChunks(i, p)
      PROVE  KnowledgeTypes'
  <2>1. builds' \in Nat /\ UNCHANGED <<corpus, store, asker, slots>>
    BY <1>1 DEF BuildChunks
  <2>2. indexer' \in [Indexers -> Indexing]
    <3>1. ASSUME NEW points \in SUBSET Point
          PROVE  [pc |-> "exists", profile |-> p, points |-> points] \in Indexing
      BY DEF Indexing
    <3>2. \/ indexer' = indexer
          \/ \E points \in SUBSET Point :
                indexer' = [indexer EXCEPT ![i] = [pc |-> "exists", profile |-> p,
                                                   points |-> points]]
      BY <1>1, BuildMakes
    <3>3. indexer \in [Indexers -> Indexing]
      OBVIOUS
    <3> HIDE DEF KnowledgeTypes
    <3> QED
      BY <3>1, <3>2, <3>3
  <2> QED
    BY <2>1, <2>2
<1>2. ASSUME NEW i \in Indexers,
             CollectionExists(i) \/ delete_collection(i) \/ create_collection(i) \/ upsert(i)
                \/ IndexerDies(i)
      PROVE  KnowledgeTypes'
  <2> DEFINE p == indexer[i].profile
  <2>0. p \in PROFILES /\ indexer[i] \in Indexing /\ store[p] \in Collection
    BY DEF Indexing
  <2>1. UNCHANGED <<corpus, asker, slots, builds>>
    BY <1>2 DEF CollectionExists, delete_collection, create_collection, upsert, IndexerDies
  <2>2. store' \in [PROFILES -> Collection]
    <3>1. Absent_store \in Collection
      BY DEF Absent_store, Collection
    <3>2. [store[p] EXCEPT !.there = TRUE] \in Collection
      BY <2>0 DEF Collection
    <3>3. [store[p] EXCEPT !.points = @ \cup indexer[i].points] \in Collection
      BY <2>0 DEF Collection, Indexing
    <3> QED
      BY <1>2, <2>0, <3>1, <3>2, <3>3 DEF CollectionExists, delete_collection,
         create_collection, upsert, IndexerDies
  <2>3. indexer' \in [Indexers -> Indexing]
    <3>1. NoIndexing \in Indexing
      BY DEF NoIndexing, Indexing, PROFILES
    <3>2. \A pc \in {"delete", "create", "upsert"} : [indexer[i] EXCEPT !.pc = pc] \in Indexing
      BY <2>0 DEF Indexing
    <3> QED
      BY <1>2, <3>1, <3>2 DEF CollectionExists, delete_collection, create_collection, upsert,
         IndexerDies
  <2> QED
    BY <2>1, <2>2, <2>3
<1>3. ASSUME NEW p \in PROFILES, EditCorpus(p)
      PROVE  KnowledgeTypes'
  <2>1. PICK s \in Sources[p] : corpus' = [corpus EXCEPT ![p] = [version |-> @.version + 1,
                                                                 source |-> s]]
    BY <1>3 DEF EditCorpus
  <2>2. s \in Source
    BY KnowledgeAssumption
  <2>3. corpus' \in [PROFILES -> [version : Nat, source : Source]]
    BY <2>1, <2>2
  <2> QED
    BY <1>3, <2>3 DEF EditCorpus
<1>4. ASSUME NEW q \in Askers, NEW r \in Asking, asker' = [asker EXCEPT ![q] = r],
             UNCHANGED <<corpus, store, indexer, slots, builds>>
      PROVE  KnowledgeTypes'
  BY <1>4
<1>5. ASSUME NEW q \in Askers, NEW p \in PROFILES, Ask_knowledge(q, p)
      PROVE  KnowledgeTypes'
  <2>1. [NoQuestion EXCEPT !.profile = p, !.pc = IF p = "public" THEN "exists" ELSE "query"]
           \in Asking
    BY DEF NoQuestion, Asking
  <2> QED
    BY <1>4, <1>5, <2>1 DEF Ask_knowledge
<1>6. ASSUME NEW q \in Askers, NEW pc \in {"query"} \cup Ended, Ends(q, pc),
             UNCHANGED <<corpus, store, indexer, slots, builds>>
      PROVE  KnowledgeTypes'
  <2>1. [asker[q] EXCEPT !.pc = pc] \in Asking
    BY <1>6 DEF Asking
  <2> QED
    BY <1>4, <1>6, <2>1 DEF Ends
<1>7. ASSUME NEW q \in Askers, PublicIndexed(q)
      PROVE  KnowledgeTypes'
  BY <1>6, <1>7 DEF PublicIndexed, Ended
<1>8. ASSUME NEW q \in Askers, retrieve(q)
      PROVE  KnowledgeTypes'
  <2>0. UNCHANGED <<corpus, store, indexer, slots, builds>>
    BY <1>8 DEF retrieve
  <2>1. CASE ~store[asker[q].profile].there
    BY <1>6, <1>8, <2>0, <2>1 DEF retrieve, Ended
  <2>2. CASE store[asker[q].profile].there
    <3>1. PICK near \in SUBSET store[asker[q].profile].points :
             asker' = [asker EXCEPT ![q].hits = near,
                           ![q].pc = IF near = {} THEN "no_context" ELSE "generate"]
      BY <1>8, <2>2 DEF retrieve
    <3>2. near \in SUBSET Point
      BY DEF Asking, Collection
    <3> DEFINE at == IF near = {} THEN "no_context" ELSE "generate"
    <3>3. at \in {"no_context", "generate"}
      OBVIOUS
    <3> HIDE DEF at
    <3> DEFINE was == asker[q]
    <3>4. was \in Asking
      OBVIOUS
    <3>5. [was EXCEPT !.hits = near, !.pc = at] \in Asking
      <4> HIDE DEF was, KnowledgeTypes
      <4> QED
        BY <3>2, <3>3, <3>4 DEF Asking, Ended
    <3> QED
      BY <1>4, <2>0, <3>1, <3>5 DEF at
  <2> QED
    BY <2>1, <2>2
<1>9. ASSUME NEW q \in Askers, bounded_chat_completion(q)
      PROVE  KnowledgeTypes'
  <2> DEFINE tiers == TiersFor(asker[q].profile)
             limit == Limit(asker[q].profile)
             calls(up) == {tiers[k] : k \in Attempted(tiers, up, limit)}
             pc(up) == IF Answered_by(tiers, up, limit) = {} THEN "raised" ELSE "answered"
  <2>1. tiers \in Seq(PROFILES \X Nat)
    BY TagsAreTiers DEF TiersFor, resolve_public_generation_tiers, PROFILES
  <2>2. PICK up : asker' = [asker EXCEPT ![q].calls = calls(up), ![q].pc = pc(up)]
    BY <1>9 DEF bounded_chat_completion
  <2>3. calls(up) \in SUBSET (PROFILES \X Nat)
    <3> HIDE DEF tiers
    <3> QED
      BY <2>1 DEF Attempted
  <2>4. pc(up) \in Ended
    BY DEF Ended
  <2> HIDE DEF calls, pc
  <2>5. [asker[q] EXCEPT !.calls = calls(up), !.pc = pc(up)] \in Asking
    BY <2>3, <2>4 DEF Asking
  <2> QED
    BY <1>4, <1>9, <2>2, <2>5 DEF bounded_chat_completion
<1> QED
  BY <1>1, <1>2, <1>3, <1>5, <1>7, <1>8, <1>9 DEF KnowledgeNext

LEMMA PointsStep ==
  ASSUME KnowledgeTypes, PointsInv, KnowledgeNext
  PROVE  PointsInv'
<1> USE DEF PointsInv
<1>1. ASSUME NEW i \in Indexers, NEW p \in PROFILES, BuildChunks(i, p)
      PROVE  PointsInv'
  <2>1. store' = store
    BY <1>1 DEF BuildChunks
  <2>2. CASE indexer' = indexer
    BY <2>1, <2>2
  <2>3. ASSUME NEW points \in SUBSET Point, PointsFor(points, p),
               indexer' = [indexer EXCEPT ![i] = [pc |-> "exists", profile |-> p,
                                                  points |-> points]]
        PROVE  PointsInv'
    <3>1. /\ indexer'[i].profile = p /\ indexer'[i].points = points
          /\ \A j \in Indexers \ {i} : indexer'[j] = indexer[j]
      BY <2>3 DEF KnowledgeTypes
    <3>2. \A j \in Indexers : PointsFor(indexer'[j].points, indexer'[j].profile)
      BY <2>3, <3>1
    <3> QED
      BY <2>1, <3>2
  <2> QED
    BY <1>1, <2>2, <2>3, BuildMakes
<1>2. ASSUME NEW i \in Indexers,
             CollectionExists(i) \/ delete_collection(i) \/ create_collection(i) \/ upsert(i)
                \/ IndexerDies(i)
      PROVE  PointsInv'
  <2>1. \A j \in Indexers : PointsFor(indexer'[j].points, indexer'[j].profile)
    <3>1. \A j \in Indexers \ {i} : indexer'[j] = indexer[j]
      BY <1>2 DEF CollectionExists, delete_collection, create_collection, upsert,
                  IndexerDies, KnowledgeTypes
    <3>2. \/ indexer'[i].points = {}
          \/ indexer'[i].points = indexer[i].points /\ indexer'[i].profile = indexer[i].profile
      <4>1. indexer[i] \in Indexing
        BY DEF KnowledgeTypes
      <4>2. CASE indexer' = [indexer EXCEPT ![i] = NoIndexing]
        BY <4>2 DEF NoIndexing, KnowledgeTypes
      <4>3. ASSUME NEW pc, indexer' = [indexer EXCEPT ![i].pc = pc]
            PROVE  /\ indexer'[i].points = indexer[i].points
                   /\ indexer'[i].profile = indexer[i].profile
        BY <4>1, <4>3 DEF Indexing, KnowledgeTypes
      <4>4. \/ indexer' = [indexer EXCEPT ![i] = NoIndexing]
            \/ \E pc : indexer' = [indexer EXCEPT ![i].pc = pc]
        BY <1>2 DEF CollectionExists, delete_collection, create_collection, upsert,
                    IndexerDies
      <4> QED
        BY <4>2, <4>3, <4>4
    <3> QED
      BY <3>1, <3>2 DEF PointsFor
  <2>2. \A p \in PROFILES : PointsFor(store'[p].points, p)
    <3>1. CASE CollectionExists(i) \/ IndexerDies(i)
      BY <3>1 DEF CollectionExists, IndexerDies
    <3>2. CASE delete_collection(i)
      BY <3>2 DEF delete_collection, Absent_store, PointsFor, KnowledgeTypes
    <3>3. CASE create_collection(i)
      <4> DEFINE p == indexer[i].profile
      <4>1. store' = store \/ store' = [store EXCEPT ![p].there = TRUE]
        BY <3>3 DEF create_collection
      <4>2. store \in [PROFILES -> Collection]
        BY DEF KnowledgeTypes
      <4> HIDE DEF p
      <4>3. \A r \in PROFILES : store'[r].points = store[r].points
        BY <4>1, <4>2 DEF Collection
      <4> QED
        BY <4>3
    <3>4. CASE upsert(i)
      BY <3>4 DEF upsert, PointsFor, KnowledgeTypes, Collection
    <3> QED
      BY <1>2, <3>1, <3>2, <3>3, <3>4
  <2> QED
    BY <2>1, <2>2
<1>3. CASE UNCHANGED <<store, indexer>>
  BY <1>3
<1> QED
  BY <1>1, <1>2, <1>3 DEF KnowledgeNext, EditCorpus, Ask_knowledge, PublicIndexed, retrieve,
     bounded_chat_completion

LEMMA GuestsStep ==
  ASSUME KnowledgeTypes, PointsInv, GuestsInv, KnowledgeNext
  PROVE  GuestsInv'
<1>1. slots' = slots /\ Tagged("public")' = Tagged("public")
  BY DEF KnowledgeNext, BuildChunks, CollectionExists, delete_collection, create_collection,
         upsert, IndexerDies, EditCorpus, Ask_knowledge, PublicIndexed, retrieve,
         bounded_chat_completion, Tagged
<1>2. CASE UNCHANGED asker
  BY <1>1, <1>2 DEF GuestsInv, GuestInv
<1>3. ASSUME NEW q \in Askers, \A r \in Askers \ {q} : asker'[r] = asker[r],
             asker'[q].profile = "public" => GuestInv(q)'
      PROVE  GuestsInv'
  <2>1. \A r \in Askers \ {q} : asker[r].profile = "public" => GuestInv(r)'
    BY <1>1, <1>3 DEF GuestsInv, GuestInv
  <2> QED
    BY <1>3, <2>1 DEF GuestsInv
<1>4. ASSUME NEW q \in Askers, NEW p \in PROFILES, Ask_knowledge(q, p)
      PROVE  GuestsInv'
  <2>1. asker'[q].hits = {} /\ asker'[q].calls = {} /\ asker'[q].pc \in {"exists", "query"}
        /\ \A r \in Askers \ {q} : asker'[r] = asker[r]
    BY <1>4 DEF Ask_knowledge, NoQuestion, KnowledgeTypes
  <2>2. Cardinality({}) = 0
    BY FS_EmptySet
  <2>3. GuestInv(q)'
    BY <2>1, <2>2 DEF GuestInv, PointsFor, MAX_PUBLIC_ATTEMPTS
  <2> QED
    BY <1>3, <2>1, <2>3
<1>5. ASSUME NEW q \in Askers, NEW pc \in {"query", "not_indexed", "raised"},
             pc = "query" /\ asker[q].profile = "public" => asker[q].hits = {},
             asker' = [asker EXCEPT ![q].pc = pc]
      PROVE  GuestsInv'
  <2>1. /\ asker'[q].hits = asker[q].hits /\ asker'[q].calls = asker[q].calls
        /\ asker'[q].pc = pc /\ asker'[q].profile = asker[q].profile
        /\ \A r \in Askers \ {q} : asker'[r] = asker[r]
    BY <1>5 DEF KnowledgeTypes, Asking
  <2>2. asker'[q].profile = "public" => GuestInv(q)'
    BY <1>1, <1>5, <2>1 DEF GuestInv, GuestsInv
  <2> QED
    BY <1>3, <2>1, <2>2
<1>6. ASSUME NEW q \in Askers, PublicIndexed(q)
      PROVE  GuestsInv'
  <2>1. asker[q].hits # {} => asker[q].profile # "public"
    BY <1>6 DEF PublicIndexed, Says, GuestsInv, GuestInv
  <2>2. asker[q].profile = "public" => asker[q].hits = {}
    BY <2>1
  <2>3. CASE asker' = [asker EXCEPT ![q].pc = "query"]
    BY <1>5, <2>2, <2>3
  <2>4. CASE asker' = [asker EXCEPT ![q].pc = "not_indexed"]
    BY <1>5, <2>2, <2>4
  <2>5. \E pc \in {"query", "not_indexed"} : asker' = [asker EXCEPT ![q].pc = pc]
    BY <1>6 DEF PublicIndexed, Ends
  <2> QED
    BY <2>3, <2>4, <2>5
<1>7. ASSUME NEW q \in Askers, retrieve(q)
      PROVE  GuestsInv'
  <2>1. CASE ~store[asker[q].profile].there
    BY <1>5, <1>7, <2>1 DEF retrieve, Ends
  <2>2. CASE store[asker[q].profile].there
    <3>1. PICK near \in SUBSET store[asker[q].profile].points :
             asker' = [asker EXCEPT ![q].hits = near,
                           ![q].pc = IF near = {} THEN "no_context" ELSE "generate"]
      BY <1>7, <2>2 DEF retrieve
    <3>2. /\ asker'[q].hits = near /\ asker'[q].calls = asker[q].calls
          /\ asker'[q].pc = (IF near = {} THEN "no_context" ELSE "generate")
          /\ asker'[q].profile = asker[q].profile
          /\ \A r \in Askers \ {q} : asker'[r] = asker[r]
      BY <3>1 DEF KnowledgeTypes, Asking
    <3>3. asker[q].profile = "public" => PointsFor(near, "public")
      BY DEF PointsInv, PointsFor, KnowledgeTypes, Asking
    <3>4. asker[q].profile = "public" => asker[q].calls = {}
      BY <1>7 DEF GuestsInv, GuestInv, retrieve, Says
    <3>5. Cardinality({}) = 0
      BY FS_EmptySet
    <3>6. ASSUME asker'[q].profile = "public" PROVE GuestInv(q)'
      <4>1. PointsFor(asker'[q].hits, "public") /\ asker'[q].calls = {}
        BY <3>2, <3>3, <3>4, <3>6
      <4>2. /\ asker'[q].pc \in {"generate", "answered"} => asker'[q].hits # {}
            /\ asker'[q].pc \notin {"idle", "exists"}
        BY <3>2
      <4> QED
        BY <3>5, <4>1, <4>2 DEF GuestInv, MAX_PUBLIC_ATTEMPTS
    <3> QED
      BY <1>3, <3>2, <3>6
  <2> QED
    BY <2>1, <2>2
<1>8. ASSUME NEW q \in Askers, bounded_chat_completion(q)
      PROVE  GuestsInv'
  <2> DEFINE tiers == TiersFor(asker[q].profile)
             limit == Limit(asker[q].profile)
  <2>1. PICK up : asker' = [asker EXCEPT
              ![q].calls = {tiers[k] : k \in Attempted(tiers, up, limit)},
              ![q].pc = IF Answered_by(tiers, up, limit) = {} THEN "raised" ELSE "answered"]
    BY <1>8 DEF bounded_chat_completion
  <2> DEFINE calls == {tiers[k] : k \in Attempted(tiers, up, limit)}
  <2>2. /\ asker'[q].hits = asker[q].hits /\ asker'[q].calls = calls
        /\ asker'[q].profile = asker[q].profile
        /\ asker'[q].pc \in {"raised", "answered"}
        /\ \A r \in Askers \ {q} : asker'[r] = asker[r]
    BY <2>1 DEF KnowledgeTypes, Asking
  <2>3. ASSUME asker[q].profile = "public" PROVE GuestInv(q)'
    <3>1. asker[q].pc = "generate" /\ GuestInv(q)
      BY <1>8, <2>3 DEF bounded_chat_completion, Says, GuestsInv
    <3>2. tiers \in Seq(PROFILES \X Nat) /\ limit = 2
      BY <2>3, TagsAreTiers DEF TiersFor, resolve_public_generation_tiers, PROFILES, Limit,
         MAX_PUBLIC_ATTEMPTS
    <3>3. Cardinality(calls) <= 2
      <4> HIDE DEF tiers, limit
      <4> QED
        BY <3>2, TwoAttempts
    <3>4. ASSUME Tagged("public") # <<>> PROVE \A c \in calls : c[1] = "public"
      <4>1. tiers = Tagged("public")
        BY <2>3, <3>4 DEF TiersFor, resolve_public_generation_tiers
      <4>2. \A k \in DOMAIN tiers : tiers[k][1] = "public"
        BY <4>1, TagsAreTiers DEF PROFILES
      <4> HIDE DEF tiers
      <4> QED
        BY <4>2 DEF Attempted
    <3> HIDE DEF calls
    <3> QED
      BY <1>1, <2>2, <3>1, <3>3, <3>4 DEF GuestInv, MAX_PUBLIC_ATTEMPTS
  <2> QED
    BY <1>3, <2>2, <2>3
<1> QED
  BY <1>2, <1>4, <1>6, <1>7, <1>8 DEF KnowledgeNext, BuildChunks, CollectionExists,
     delete_collection, create_collection, upsert, IndexerDies, EditCorpus

-----------------------------------------------------------------------------
(* The index.                                                             *)

\* What one of the builds made of a source of the profile, and of the present
\* one when it is of the present version.
OneBuild(points, p, made, present) ==
    \E b \in 0..made, v \in 0..present.version, source \in Sources[p] :
        /\ chunks_of(source) # <<>>
        /\ points = PointsOf(b, p, v, source)
        /\ v = present.version => source = present.source

\* A collection is cleared before it is filled.
Cleared(i) ==
    indexer[i].pc \in {"create", "upsert"} /\ indexer[i].profile \notin overlapped =>
        store[indexer[i].profile].points = {}
InOneHand(i, j) ==
    Writing(i) /\ Writing(j) /\ indexer[i].profile = indexer[j].profile =>
        indexer[i].profile \in overlapped

IndexInv ==
    /\ \A p \in PROFILES : corpus[p].source \in Sources[p]
    /\ \A i \in Indexers :
          indexer[i].pc # "idle" => OneBuild(indexer[i].points, indexer[i].profile, builds,
                                           corpus[indexer[i].profile])
    /\ \A p \in PROFILES :
          /\ p \notin overlapped =>
                store[p].points = {} \/ OneBuild(store[p].points, p, builds, corpus[p])
          /\ ~store[p].there => store[p].points = {}
    /\ \A i \in Indexers : Cleared(i)
    /\ \A i, j \in Indexers : i # j => InOneHand(i, j)

LEMMA IndexStarts == KnowledgeInit => IndexInv
<1> SUFFICES ASSUME KnowledgeInit PROVE IndexInv
  OBVIOUS
<1>1. \A p \in PROFILES : corpus[p].source \in Sources[p]
  BY DEF KnowledgeInit, PROFILES
<1> QED
  BY <1>1 DEF IndexInv, KnowledgeInit, Absent_store, NoIndexing, Cleared, InOneHand, Writing

(* A build stays one while others are made, and when the corpus changes.   *)
LEMMA StaysOneBuild ==
  ASSUME NEW p \in PROFILES, NEW points, NEW made \in Nat, NEW more \in Nat, made <= more,
         NEW present \in [version : Nat, source : Source], NEW later,
         later = present \/ later.version = present.version + 1,
         OneBuild(points, p, made, present)
  PROVE  OneBuild(points, p, more, later)
<1>1. PICK b \in 0..made, v \in 0..present.version, source \in Sources[p] :
         /\ chunks_of(source) # <<>>
         /\ points = PointsOf(b, p, v, source)
         /\ v = present.version => source = present.source
  BY DEF OneBuild
<1>2. b \in 0..more /\ present.version \in Nat
  OBVIOUS
<1>3. CASE later = present
  BY <1>1, <1>2, <1>3 DEF OneBuild
<1>4. CASE later.version = present.version + 1
  <2>1. v \in 0..later.version /\ v # later.version
    BY <1>2, <1>4
  <2> QED
    BY <1>1, <1>2, <2>1 DEF OneBuild
<1> QED
  BY <1>3, <1>4

LEMMA IndexStep ==
  ASSUME KnowledgeTypes, IndexInv, KnowledgeNext
  PROVE  IndexInv'
<1> DEFINE Typed == /\ indexer \in [Indexers -> Indexing] /\ store \in [PROFILES -> Collection]
                    /\ corpus \in [PROFILES -> [version : Nat, source : Source]]
                    /\ builds \in Nat
<1>0. Typed
  BY DEF KnowledgeTypes
<1>1. ASSUME NEW i \in Indexers, NEW p \in PROFILES, BuildChunks(i, p)
      PROVE  IndexInv'
  <2>1. /\ builds' = builds + 1 /\ indexer[i].pc = "idle"
        /\ UNCHANGED <<corpus, store, overlapped>>
    BY <1>1 DEF BuildChunks
  <2>2. \A points : \A r \in PROFILES : OneBuild(points, r, builds, corpus[r])
                                        => OneBuild(points, r, builds', corpus'[r])
    BY <1>0, <2>1, StaysOneBuild
  <2>3. ASSUME indexer' = indexer
        PROVE  IndexInv'
    <3>1. \A j \in Indexers : Cleared(j)'
      BY <2>1, <2>3 DEF Cleared, IndexInv
    <3>2. \A j, k \in Indexers : j # k => InOneHand(j, k)'
      BY <2>1, <2>3 DEF InOneHand, Writing, IndexInv
    <3>3. \A j \in Indexers : indexer[j].profile \in PROFILES
      BY <1>0 DEF Indexing
    <3> QED
      BY <2>1, <2>2, <2>3, <3>1, <3>2, <3>3 DEF IndexInv
  <2>4. ASSUME chunks_of(corpus[p].source) # <<>>,
               indexer' = [indexer EXCEPT ![i] =
                              [pc |-> "exists", profile |-> p,
                               points |-> PointsOf(builds', p, corpus[p].version,
                                                   corpus[p].source)]]
        PROVE  IndexInv'
    <3> DEFINE new == PointsOf(builds', p, corpus[p].version, corpus[p].source)
    <3>1. OneBuild(new, p, builds', corpus'[p])
      <4>1. builds' \in 0..builds' /\ corpus[p].version \in 0..corpus'[p].version
        BY <1>0, <2>1
      <4>2. corpus[p].source \in Sources[p] /\ corpus'[p] = corpus[p]
        BY <2>1 DEF IndexInv
      <4> QED
        BY <2>4, <4>1, <4>2 DEF OneBuild
    <3> HIDE DEF new
    <3>2. /\ indexer'[i].pc = "exists" /\ indexer'[i].profile = p /\ indexer'[i].points = new
          /\ \A j \in Indexers \ {i} : indexer'[j] = indexer[j]
      BY <1>0, <2>4 DEF new
    <3>3. \A j \in Indexers : indexer'[j].pc # "idle" =>
                                 OneBuild(indexer'[j].points, indexer'[j].profile, builds',
                                        corpus'[indexer'[j].profile])
      <4>1. \A j \in Indexers : indexer[j].profile \in PROFILES
        BY <1>0 DEF Indexing
      <4> QED
        BY <2>2, <3>1, <3>2, <4>1 DEF IndexInv
    <3>4. \A j \in Indexers : Cleared(j)'
      BY <2>1, <3>2 DEF Cleared, IndexInv
    <3>5. \A j, k \in Indexers : j # k => InOneHand(j, k)'
      BY <2>1, <3>2 DEF InOneHand, Writing, IndexInv
    <3> QED
      BY <2>1, <2>2, <3>3, <3>4, <3>5 DEF IndexInv
  <2>5. \/ indexer' = indexer
        \/ /\ chunks_of(corpus[p].source) # <<>>
           /\ indexer' = [indexer EXCEPT ![i] =
                             [pc |-> "exists", profile |-> p,
                              points |-> PointsOf(builds', p, corpus[p].version,
                                                  corpus[p].source)]]
    BY <1>1 DEF BuildChunks, PointsOf
  <2> QED
    BY <2>3, <2>4, <2>5
<1>2. ASSUME NEW i \in Indexers, CollectionExists(i)
      PROVE  IndexInv'
  <2> DEFINE p == indexer[i].profile
             pc == IF store[p].there THEN "delete" ELSE "create"
  <2>1. UNCHANGED <<corpus, store, builds>> /\ indexer[i].pc = "exists"
        /\ indexer' = [indexer EXCEPT ![i].pc = pc]
        /\ overlapped' = IF \E j \in Indexers \ {i} : Writing(j) /\ indexer[j].profile = p
                         THEN overlapped \cup {p} ELSE overlapped
    BY <1>2 DEF CollectionExists
  <2>2. /\ indexer'[i].profile = p /\ indexer'[i].points = indexer[i].points
        /\ indexer'[i].pc = pc /\ p \in PROFILES
        /\ \A j \in Indexers \ {i} : indexer'[j] = indexer[j]
        /\ \A j \in Indexers : indexer[j].profile \in PROFILES
    BY <1>0, <2>1 DEF Indexing
  <2> HIDE DEF p, pc
  <2>3. \A j \in Indexers : indexer'[j].pc # "idle" =>
                               OneBuild(indexer'[j].points, indexer'[j].profile, builds',
                                        corpus'[indexer'[j].profile])
    BY <2>1, <2>2 DEF IndexInv, p
  <2>4. \A r \in PROFILES : r \notin overlapped' =>
           /\ r \notin overlapped
           /\ store'[r].points = {} \/ OneBuild(store'[r].points, r, builds', corpus'[r])
    BY <2>1 DEF IndexInv
  <2>5. Cleared(i)'
    BY <2>1, <2>2 DEF Cleared, IndexInv, pc
  <2>6. \A j \in Indexers \ {i} : Cleared(j)'
    BY <2>1, <2>2 DEF Cleared, IndexInv
  <2>7. ASSUME NEW j \in Indexers \ {i} PROVE InOneHand(i, j)' /\ InOneHand(j, i)'
    <3>1. Writing(j)' <=> Writing(j)
      BY <2>2 DEF Writing
    <3>2. Writing(j) /\ indexer[j].profile = p => p \in overlapped'
      BY <2>1
    <3> QED
      BY <2>2, <3>1, <3>2 DEF InOneHand
  <2>8. \A j, k \in Indexers \ {i} : j # k => InOneHand(j, k)'
    BY <2>1, <2>2 DEF InOneHand, Writing, IndexInv
  <2> QED
    BY <2>1, <2>3, <2>4, <2>5, <2>6, <2>7, <2>8 DEF IndexInv
<1>3. ASSUME NEW i \in Indexers, delete_collection(i)
      PROVE  IndexInv'
  <2> DEFINE p == indexer[i].profile
  <2>1. /\ UNCHANGED <<corpus, builds, overlapped>> /\ indexer[i].pc = "delete"
        /\ indexer' = [indexer EXCEPT ![i].pc = "create"]
        /\ store' = [store EXCEPT ![p] = Absent_store]
    BY <1>3 DEF delete_collection
  <2>2. /\ indexer'[i].profile = p /\ indexer'[i].points = indexer[i].points
        /\ indexer'[i].pc = "create" /\ p \in PROFILES
        /\ \A j \in Indexers \ {i} : indexer'[j] = indexer[j]
        /\ \A j \in Indexers : indexer[j].profile \in PROFILES
    BY <1>0, <2>1 DEF Indexing
  <2> HIDE DEF p
  <2>3. /\ store'[p].points = {} /\ \A r \in PROFILES \ {p} : store'[r] = store[r]
    BY <1>0, <2>1, <2>2 DEF Absent_store
  <2>4. \A j \in Indexers : indexer'[j].pc # "idle" =>
                               OneBuild(indexer'[j].points, indexer'[j].profile, builds',
                                        corpus'[indexer'[j].profile])
    BY <2>1, <2>2 DEF IndexInv, p
  <2>5. \A r \in PROFILES :
           /\ r \notin overlapped' =>
                 store'[r].points = {} \/ OneBuild(store'[r].points, r, builds', corpus'[r])
           /\ ~store'[r].there => store'[r].points = {}
    BY <2>1, <2>3 DEF IndexInv
  <2>6. \A j \in Indexers : Cleared(j)'
    <3>1. Cleared(i)'
      BY <2>2, <2>3 DEF Cleared
    <3>2. ASSUME NEW j \in Indexers \ {i} PROVE Cleared(j)'
      <4>1. Cleared(j) /\ indexer'[j] = indexer[j] /\ indexer[j].profile \in PROFILES
        BY <2>2 DEF IndexInv
      <4> QED
        BY <2>1, <2>3, <4>1 DEF Cleared
    <3> QED
      BY <3>1, <3>2
  <2>7. \A j, k \in Indexers : j # k => InOneHand(j, k)'
    BY <2>1, <2>2 DEF InOneHand, Writing, IndexInv, p
  <2> QED
    BY <2>1, <2>4, <2>5, <2>6, <2>7 DEF IndexInv
<1>4. ASSUME NEW i \in Indexers, indexer' = [indexer EXCEPT ![i] = NoIndexing],
             UNCHANGED <<corpus, store, builds, overlapped>>
      PROVE  IndexInv'
  <2>1. /\ indexer'[i].pc = "idle" /\ \A j \in Indexers \ {i} : indexer'[j] = indexer[j]
        /\ \A j \in Indexers : indexer[j].profile \in PROFILES
    BY <1>0, <1>4 DEF NoIndexing, Indexing
  <2>2. \A j \in Indexers : indexer'[j].pc # "idle" =>
                               OneBuild(indexer'[j].points, indexer'[j].profile, builds',
                                        corpus'[indexer'[j].profile])
    BY <1>4, <2>1 DEF IndexInv
  <2>3. \A r \in PROFILES :
           /\ r \notin overlapped' =>
                 store'[r].points = {} \/ OneBuild(store'[r].points, r, builds', corpus'[r])
           /\ ~store'[r].there => store'[r].points = {}
    BY <1>4 DEF IndexInv
  <2>4. \A j \in Indexers : Cleared(j)'
    BY <1>4, <2>1 DEF Cleared, IndexInv
  <2>5. \A j, k \in Indexers : j # k => InOneHand(j, k)'
    BY <1>4, <2>1 DEF InOneHand, Writing, IndexInv
  <2> QED
    BY <1>4, <2>2, <2>3, <2>4, <2>5 DEF IndexInv
<1>5. ASSUME NEW i \in Indexers, create_collection(i)
      PROVE  IndexInv'
  <2> DEFINE p == indexer[i].profile
  <2>1. UNCHANGED <<corpus, builds, overlapped>> /\ indexer[i].pc = "create"
    BY <1>5 DEF create_collection
  <2>2. CASE store[p].there
    BY <1>4, <1>5, <2>1, <2>2 DEF create_collection
  <2>3. CASE ~store[p].there
    <3>1. /\ indexer' = [indexer EXCEPT ![i].pc = "upsert"]
          /\ store' = [store EXCEPT ![p].there = TRUE]
      BY <1>5, <2>3 DEF create_collection
    <3>2. /\ indexer'[i].profile = p /\ indexer'[i].points = indexer[i].points
          /\ indexer'[i].pc = "upsert" /\ p \in PROFILES
          /\ \A j \in Indexers \ {i} : indexer'[j] = indexer[j]
          /\ \A j \in Indexers : indexer[j].profile \in PROFILES
      BY <1>0, <3>1 DEF Indexing
    <3> HIDE DEF p
    <3>3. /\ \A r \in PROFILES : store'[r].points = store[r].points
          /\ \A r \in PROFILES \ {p} : store'[r] = store[r]
      BY <1>0, <3>1, <3>2 DEF Collection
    <3>4. \A j \in Indexers : indexer'[j].pc # "idle" =>
                                 OneBuild(indexer'[j].points, indexer'[j].profile, builds',
                                        corpus'[indexer'[j].profile])
      BY <2>1, <3>2 DEF IndexInv, p
    <3>5. \A r \in PROFILES :
             /\ r \notin overlapped' =>
                 store'[r].points = {} \/ OneBuild(store'[r].points, r, builds', corpus'[r])
             /\ ~store'[r].there => store'[r].points = {}
      <4>1. store[p].points = {}
        BY <2>3, <3>2 DEF IndexInv, p
      <4> QED
        BY <2>1, <3>3, <4>1 DEF IndexInv
    <3>6. \A j \in Indexers : Cleared(j)'
      BY <2>1, <3>2, <3>3 DEF Cleared, IndexInv, p
    <3>7. \A j, k \in Indexers : j # k => InOneHand(j, k)'
      BY <2>1, <3>2 DEF InOneHand, Writing, IndexInv, p
    <3> QED
      BY <2>1, <3>4, <3>5, <3>6, <3>7 DEF IndexInv
  <2> QED
    BY <2>2, <2>3
<1>6. ASSUME NEW i \in Indexers, upsert(i)
      PROVE  IndexInv'
  <2> DEFINE p == indexer[i].profile
  <2>1. /\ UNCHANGED <<corpus, builds, overlapped>> /\ indexer[i].pc = "upsert"
        /\ indexer' = [indexer EXCEPT ![i] = NoIndexing]
    BY <1>6 DEF upsert
  <2>2. CASE ~store[p].there
    BY <1>4, <1>6, <2>1, <2>2 DEF upsert
  <2>3. CASE store[p].there
    <3>1. store' = [store EXCEPT ![p].points = @ \cup indexer[i].points]
      BY <1>6, <2>3 DEF upsert
    <3>2. /\ indexer'[i].pc = "idle" /\ p \in PROFILES
          /\ \A j \in Indexers \ {i} : indexer'[j] = indexer[j]
          /\ \A j \in Indexers : indexer[j].profile \in PROFILES
      BY <1>0, <2>1 DEF NoIndexing, Indexing
    <3>3. /\ store'[p].points = store[p].points \cup indexer[i].points
          /\ store'[p].there = store[p].there
          /\ \A r \in PROFILES \ {p} : store'[r] = store[r]
      <4> HIDE DEF p
      <4> QED
        BY <1>0, <3>1, <3>2 DEF Collection
    <3>4. \A j \in Indexers : indexer'[j].pc # "idle" =>
                                 OneBuild(indexer'[j].points, indexer'[j].profile, builds',
                                        corpus'[indexer'[j].profile])
      BY <2>1, <3>2 DEF IndexInv
    <3>5. p \notin overlapped => OneBuild(store'[p].points, p, builds', corpus'[p])
      <4>1. p \notin overlapped => store[p].points = {}
        BY <2>1 DEF IndexInv, Cleared
      <4>2. OneBuild(indexer[i].points, p, builds', corpus'[p])
        BY <2>1, <3>2 DEF IndexInv
      <4>3. p \notin overlapped => store'[p].points = indexer[i].points
        BY <3>3, <4>1
      <4> QED
        BY <4>2, <4>3
    <3>6. \A r \in PROFILES :
             /\ r \notin overlapped' =>
                 store'[r].points = {} \/ OneBuild(store'[r].points, r, builds', corpus'[r])
             /\ ~store'[r].there => store'[r].points = {}
      <4> HIDE DEF p
      <4> QED
        BY <2>1, <2>3, <3>3, <3>5 DEF IndexInv
    <3>7. ASSUME NEW j \in Indexers PROVE Cleared(j)'
      <4>1. CASE j = i
        BY <3>2, <4>1 DEF Cleared
      <4>2. CASE j # i
        <5>1. InOneHand(i, j) /\ Cleared(j) /\ indexer'[j] = indexer[j]
          BY <3>2, <4>2 DEF IndexInv
        <5>2. CASE indexer[j].profile = p
          BY <2>1, <5>1, <5>2 DEF Cleared, InOneHand, Writing
        <5>3. CASE indexer[j].profile # p
          BY <2>1, <3>2, <3>3, <5>1, <5>3 DEF Cleared
        <5> QED
          BY <5>2, <5>3
      <4> QED
        BY <4>1, <4>2
    <3>8. \A j, k \in Indexers : j # k => InOneHand(j, k)'
      BY <2>1, <3>2 DEF InOneHand, Writing, IndexInv
    <3> QED
      BY <2>1, <3>4, <3>6, <3>7, <3>8 DEF IndexInv
  <2> QED
    BY <2>2, <2>3
<1>7. ASSUME NEW i \in Indexers, IndexerDies(i)
      PROVE  IndexInv'
  BY <1>4, <1>7 DEF IndexerDies
<1>8. ASSUME NEW p \in PROFILES, EditCorpus(p)
      PROVE  IndexInv'
  <2>1. PICK s \in Sources[p] : corpus' = [corpus EXCEPT ![p] = [version |-> @.version + 1,
                                                                 source |-> s]]
    BY <1>8 DEF EditCorpus
  <2>2. UNCHANGED <<store, indexer, builds, overlapped>>
    BY <1>8 DEF EditCorpus
  <2>3. /\ corpus'[p].version = corpus[p].version + 1 /\ corpus'[p].source = s
        /\ \A r \in PROFILES \ {p} : corpus'[r] = corpus[r]
    BY <1>0, <2>1
  <2>4. \A r \in PROFILES : corpus'[r].source \in Sources[r]
    BY <2>3 DEF IndexInv
  <2>5. \A points : \A r \in PROFILES : OneBuild(points, r, builds, corpus[r])
                                        => OneBuild(points, r, builds', corpus'[r])
    BY <1>0, <2>2, <2>3, StaysOneBuild
  <2>6. \A j \in Indexers : indexer[j].profile \in PROFILES
    BY <1>0 DEF Indexing
  <2>7. \A j \in Indexers : Cleared(j)'
    BY <2>2 DEF Cleared, IndexInv
  <2>8. \A j, k \in Indexers : j # k => InOneHand(j, k)'
    BY <2>2 DEF InOneHand, Writing, IndexInv
  <2> QED
    BY <2>2, <2>4, <2>5, <2>6, <2>7, <2>8 DEF IndexInv
<1>9. ASSUME UNCHANGED <<corpus, store, indexer, builds, overlapped>>
      PROVE  IndexInv'
  BY <1>9 DEF IndexInv, Cleared, InOneHand, Writing
<1> QED
  BY <1>1, <1>2, <1>3, <1>5, <1>6, <1>7, <1>8, <1>9 DEF KnowledgeNext, Ask_knowledge,
     PublicIndexed, retrieve, bounded_chat_completion

\* The sentences of a sequence of chunks are those that it holds.
LEMMA HeldSentences ==
  ASSUME NEW chunks \in Seq(Seq(SentenceId)), NEW x
  PROVE  x \in UNION {ToSet(c) : c \in ToSet(chunks)} <=> Holds(chunks, x)
<1>1. DOMAIN chunks = 1..Len(chunks) /\ \A i \in 1..Len(chunks) : DOMAIN chunks[i] = 1..Len(chunks[i])
  OBVIOUS
<1>2. ASSUME x \in UNION {ToSet(c) : c \in ToSet(chunks)} PROVE Holds(chunks, x)
  <2>1. PICK c \in ToSet(chunks) : x \in ToSet(c)
    BY <1>2
  <2>2. PICK i \in 1..Len(chunks) : c = chunks[i]
    BY <1>1, <2>1 DEF ToSet
  <2>3. PICK j \in 1..Len(chunks[i]) : x = chunks[i][j]
    BY <1>1, <2>1, <2>2 DEF ToSet
  <2> QED
    BY <2>3 DEF Holds
<1>3. ASSUME Holds(chunks, x) PROVE x \in UNION {ToSet(c) : c \in ToSet(chunks)}
  <2>1. PICK i \in 1..Len(chunks) : \E j \in 1..Len(chunks[i]) : chunks[i][j] = x
    BY <1>3 DEF Holds
  <2>2. x \in ToSet(chunks[i])
    BY <1>1, <2>1 DEF ToSet
  <2>3. chunks[i] \in ToSet(chunks)
    BY <1>1 DEF ToSet
  <2> QED
    BY <2>2, <2>3
<1> QED
  BY <1>2, <1>3

\* The sentences of the paragraphs are all in the chunks that a build makes.
LEMMA BuildHoldsBody ==
  ASSUME NEW source \in Source, NEW chunks, chunks = chunks_of(source), chunks # <<>>
  PROVE  {x \in UNION {ToSet(c) : c \in ToSet(chunks)} : InBody(x)}
            = UNION {ToSet(x) : x \in ToSet(Pieces(source.sections))}
<1> DEFINE text == source.sections
           pieces == Pieces(text)
<1>1. ChunksOfText(chunks, text)
  BY ChunksHoldText
<1>2. text \in Seq(Section)
  BY DEF Source
<1> HIDE DEF text
<1>3. ChunksOfText(pieces, text) /\ \A x : Holds(pieces, x) => \E s, p, k \in Nat : p # 0 /\ x = <<s, p, k>>
  BY <1>2, PiecesApart
<1> HIDE DEF pieces
<1>4. chunks \in Seq(Seq(SentenceId)) /\ pieces \in Seq(Seq(SentenceId))
  BY <1>1, <1>3 DEF ChunksOfText
<1>5. \A x : Holds(pieces, x) => x \in SentenceId /\ x[2] # 0
  BY <1>3 DEF SentenceId
<1>6. ASSUME NEW x
      PROVE  Holds(chunks, x) /\ InBody(x) <=> Holds(pieces, x)
  <2>1. ASSUME Holds(chunks, x) PROVE x \in SentenceId
    <3>1. PICK i \in 1..Len(chunks) : \E j \in 1..Len(chunks[i]) : chunks[i][j] = x
      BY <2>1 DEF Holds
    <3>2. chunks[i] \in Seq(SentenceId)
      BY <1>4
    <3> QED
      BY <3>1, <3>2
  <2>2. ASSUME x \in SentenceId, x[2] # 0
        PROVE  (Holds(chunks, x) <=> InText(text, x)) /\ (Holds(pieces, x) <=> InText(text, x))
    BY <1>1, <1>3, <2>2 DEF ChunksOfText
  <2> QED
    BY <1>5, <2>1, <2>2 DEF InBody
<1>7. \A x : x \in {y \in UNION {ToSet(c) : c \in ToSet(chunks)} : InBody(y)}
             <=> x \in UNION {ToSet(y) : y \in ToSet(pieces)}
  BY <1>4, <1>6, HeldSentences
<1>8. {x \in UNION {ToSet(c) : c \in ToSet(chunks)} : InBody(x)}
         = UNION {ToSet(x) : x \in ToSet(pieces)}
  BY <1>7
<1> QED
  BY <1>8 DEF pieces, text

\* Two chunks of a build have no sentence in common.
LEMMA ChunksDisjoint ==
  ASSUME NEW chunks \in Seq(Seq(SentenceId)), Apart(chunks),
         NEW i \in 1..Len(chunks), NEW k \in 1..Len(chunks), i < k
  PROVE  ToSet(chunks[i]) \cap ToSet(chunks[k]) = {} /\ chunks[i] # <<>> /\ chunks[k] # <<>>
<1>1. DOMAIN chunks[i] = 1..Len(chunks[i]) /\ DOMAIN chunks[k] = 1..Len(chunks[k])
  OBVIOUS
<1>2. \A x : ~(x \in ToSet(chunks[i]) /\ x \in ToSet(chunks[k]))
  BY <1>1 DEF ToSet, Apart
<1>3. ToSet(chunks[i]) \cap ToSet(chunks[k]) = {}
  BY <1>2
<1> QED
  BY <1>3 DEF Apart

LEMMA IndexInvImplies ==
  ASSUME KnowledgeTypes, IndexInv
  PROVE  IndexHoldsCorpus
<1> SUFFICES ASSUME NEW p \in PROFILES, p \notin overlapped, store[p].points # {}
             PROVE  LET points == store[p].points IN
                    /\ \A c, e \in points : c.build = e.build /\ c.from = p
                    /\ \A c, e \in points :
                          c.index < e.index => /\ ToSet(c.text) \cap ToSet(e.text) = {}
                                               /\ c.text # <<>> /\ e.text # <<>>
                    /\ \A c \in points : c.version = corpus[p].version =>
                          {s \in Sentences(points) : InBody(s)} =
                              UNION {ToSet(x) : x \in ToSet(Pieces(corpus[p].source.sections))}
  BY DEF IndexHoldsCorpus
<1> DEFINE points == store[p].points
<1>1. OneBuild(points, p, builds, corpus[p])
  BY DEF IndexInv
<1>2. PICK b \in 0..builds, v \in 0..corpus[p].version, source \in Sources[p] :
         /\ chunks_of(source) # <<>>
         /\ points = PointsOf(b, p, v, source)
         /\ v = corpus[p].version => source = corpus[p].source
  BY <1>1 DEF OneBuild
<1> DEFINE chunks == chunks_of(source)
<1>3. source \in Source /\ chunks # <<>>
  BY <1>2, KnowledgeAssumption
<1>4. chunks \in Seq(Seq(SentenceId)) /\ Apart(chunks)
  BY <1>3, ChunksHoldText DEF ChunksOfText
<1>5. {x \in UNION {ToSet(c) : c \in ToSet(chunks)} : InBody(x)}
         = UNION {ToSet(x) : x \in ToSet(Pieces(source.sections))}
  <2> HIDE DEF chunks
  <2> QED
    BY <1>3, BuildHoldsBody DEF chunks
<1>6. points = {[build |-> b, index |-> k, text |-> chunks[k], version |-> v,
                 from |-> p, audience |-> source.audience] : k \in DOMAIN chunks}
  BY <1>2 DEF PointsOf
<1> HIDE DEF chunks, points
<1>7. DOMAIN chunks = 1..Len(chunks)
  BY <1>4
<1>8. \A c \in points : /\ c.build = b /\ c.from = p /\ c.version = v
                        /\ c.index \in 1..Len(chunks) /\ c.text = chunks[c.index]
  BY <1>6, <1>7
<1>9. \A c, e \in points :
         c.index < e.index => /\ ToSet(c.text) \cap ToSet(e.text) = {}
                              /\ c.text # <<>> /\ e.text # <<>>
  <2>1. \A i, k \in 1..Len(chunks) :
           i < k => /\ ToSet(chunks[i]) \cap ToSet(chunks[k]) = {}
                    /\ chunks[i] # <<>> /\ chunks[k] # <<>>
    BY <1>4, ChunksDisjoint
  <2> TAKE c, e \in points
  <2>2. /\ c.index \in 1..Len(chunks) /\ c.text = chunks[c.index]
        /\ e.index \in 1..Len(chunks) /\ e.text = chunks[e.index]
    BY <1>8
  <2> QED
    BY <2>1, <2>2
<1>10. Sentences(points) = UNION {ToSet(c) : c \in ToSet(chunks)}
  <2>1. ASSUME NEW k \in DOMAIN chunks PROVE \E c \in points : c.text = chunks[k]
    <3> DEFINE c == [build |-> b, index |-> k, text |-> chunks[k], version |-> v,
                     from |-> p, audience |-> source.audience]
    <3>1. c \in points
      BY <1>6
    <3>2. c.text = chunks[k]
      OBVIOUS
    <3> QED
      BY <3>1, <3>2
  <2>2. {ToSet(c.text) : c \in points} = {ToSet(c) : c \in ToSet(chunks)}
    <3>1. ToSet(chunks) = {chunks[k] : k \in DOMAIN chunks}
      BY DEF ToSet
    <3>2. \A c \in points : c.text \in ToSet(chunks)
      BY <1>7, <1>8, <3>1
    <3>3. \A x \in ToSet(chunks) : \E c \in points : c.text = x
      BY <2>1, <3>1
    <3> HIDE DEF chunks
    <3> QED
      BY <3>2, <3>3
  <2> QED
    BY <2>2 DEF Sentences
<1>11. ASSUME NEW c \in points, c.version = corpus[p].version
       PROVE  {s \in Sentences(points) : InBody(s)} =
                  UNION {ToSet(x) : x \in ToSet(Pieces(corpus[p].source.sections))}
  <2>1. source = corpus[p].source
    BY <1>2, <1>8, <1>11
  <2> QED
    BY <1>5, <1>10, <2>1
<1> QED
  BY <1>8, <1>9, <1>11 DEF points

-----------------------------------------------------------------------------
KnowledgeInv == KnowledgeTypes /\ PointsInv /\ GuestsInv /\ IndexInv

LEMMA KnowledgeKept ==
  ASSUME KnowledgeInv, [KnowledgeNext]_knowledge_vars
  PROVE  KnowledgeInv'
<1>1. CASE KnowledgeNext
  BY <1>1, KnowledgeTypesStep, PointsStep, GuestsStep, IndexStep DEF KnowledgeInv
<1>2. CASE UNCHANGED knowledge_vars
  <2> USE <1>2 DEF knowledge_vars, KnowledgeInv
  <2>1. KnowledgeTypes'
    BY DEF KnowledgeTypes
  <2>2. PointsInv'
    BY DEF PointsInv
  <2>3. GuestsInv'
    <3>1. Tagged("public")' = Tagged("public")
      BY DEF Tagged
    <3> QED
      BY <3>1 DEF GuestsInv, GuestInv
  <2>4. IndexInv'
    BY DEF IndexInv, Cleared, InOneHand, Writing
  <2> QED
    BY <2>1, <2>2, <2>3, <2>4
<1> QED
  BY <1>1, <1>2

LEMMA GuestsInvImplies == GuestsInv => GuestsGetPublic
<1> SUFFICES ASSUME GuestsInv, NEW q \in Askers,
                    asker[q].profile = "public", asker[q].pc \in Ended
             PROVE  /\ \A h \in asker[q].hits : h.from = "public" /\ h.audience = "public"
                    /\ asker[q].pc = "answered" => asker[q].hits # {}
                    /\ asker[q].hits = {} => asker[q].calls = {}
                    /\ Cardinality(asker[q].calls) <= MAX_PUBLIC_ATTEMPTS
                    /\ Tagged("public") # <<>> => \A c \in asker[q].calls : c[1] = "public"
  BY DEF GuestsGetPublic
<1> QED
  BY DEF GuestsInv, GuestInv, PointsFor

-----------------------------------------------------------------------------
(* Sums over the records.                                                 *)

\* A sum changes by as much as one of its amounts.
LEMMA OneChanged ==
  ASSUME NEW a \in Seq(Int), NEW b \in Seq(Int), Len(a) = Len(b), NEW x \in 1..Len(a),
         \A k \in 1..Len(a) : k # x => b[k] = a[k]
  PROVE  SumOf(b) = SumOf(a) + b[x] - a[x] /\ SumOf(a) \in Int
<1>1. Len(a) \in Nat /\ a[x] \in Int /\ b[x] \in Int /\ x \in Nat /\ x # 0 /\ x <= Len(a)
  OBVIOUS
<1>2. PICK f \in [0..Len(a) -> Int] : /\ f[0] = 0
                                      /\ \A n \in 1..Len(a) : f[n] = f[n - 1] + a[n]
                                      /\ SumOf(a) = f[Len(a)]
  BY RunningTotal
<1>3. PICK g \in [0..Len(a) -> Int] : /\ g[0] = 0
                                      /\ \A n \in 1..Len(a) : g[n] = g[n - 1] + b[n]
                                      /\ SumOf(b) = g[Len(a)]
  BY RunningTotal
<1> DEFINE N == Len(a)
           d == b[x] - a[x]
           Fails == {n \in 0..N : g[n] # f[n] + (IF x <= n THEN d ELSE 0)}
<1>4. d \in Int /\ N \in Nat
  BY <1>1
<1>5. Fails = {}
  <2> SUFFICES ASSUME Fails # {} PROVE FALSE
    OBVIOUS
  <2>1. Fails \subseteq Nat
    OBVIOUS
  <2>2. PICK n \in Fails : \A m \in Fails : n <= m
    <3> HIDE DEF Fails
    <3> QED
      BY <2>1, LeastNumber
  <2>3. n \in 0..N /\ g[n] # f[n] + (IF x <= n THEN d ELSE 0)
    OBVIOUS
  <2>4. n # 0
    BY <1>1, <1>2, <1>3, <2>3
  <2>5. n - 1 \in 0..N /\ n \in 1..N /\ n - 1 \notin Fails
    <3> HIDE DEF Fails, N
    <3>1. n - 1 \in 0..N /\ n \in 1..N /\ ~(n <= n - 1)
      BY <1>4, <2>3, <2>4
    <3> QED
      BY <2>2, <3>1
  <2>6. g[n - 1] = f[n - 1] + (IF x <= n - 1 THEN d ELSE 0)
    BY <2>5
  <2>7. g[n] = g[n - 1] + b[n] /\ f[n] = f[n - 1] + a[n]
    BY <1>2, <1>3, <2>5
  <2>8. f[n - 1] \in Int /\ g[n - 1] \in Int /\ a[n] \in Int /\ b[n] \in Int
    <3>1. \A k \in 1..Len(a) : a[k] \in Int /\ b[k] \in Int
      OBVIOUS
    <3>2. n - 1 \in 0..Len(a) /\ n \in 1..Len(a)
      BY <2>5
    <3> HIDE DEF Fails, N
    <3>3. f[n - 1] \in Int /\ g[n - 1] \in Int
      BY <1>2, <1>3, <3>2
    <3> QED
      BY <3>1, <3>2, <3>3
  <2>9. CASE n = x
    <3>1. g[n] = f[n] + d
      <4>1. ~(x <= n - 1)
        BY <1>1, <2>9
      <4>2. b[n] = a[n] + d
        BY <2>8, <2>9
      <4> HIDE DEF d, Fails, N
      <4>3. g[n - 1] = f[n - 1]
        BY <2>6, <2>8, <4>1
      <4> DEFINE was == f[n - 1]
      <4>4. g[n] = was + (a[n] + d) /\ f[n] = was + a[n] /\ was \in Int /\ a[n] \in Int
        BY <2>7, <2>8, <4>2, <4>3
      <4> HIDE DEF was
      <4> QED
        BY <1>4, <4>4
    <3> QED
      BY <2>3, <2>9, <3>1
  <2>10. CASE n # x
    <3>1. b[n] = a[n]
      BY <2>5, <2>10
    <3>2. x <= n - 1 <=> x <= n
      BY <1>1, <2>3, <2>10
    <3> DEFINE e == IF x <= n THEN d ELSE 0
    <3>3. e \in Int /\ g[n - 1] = f[n - 1] + e /\ g[n] # f[n] + e
      <4> HIDE DEF d, Fails, N
      <4> QED
        BY <1>4, <2>3, <2>6, <3>2
    <3> HIDE DEF e, d, Fails, N
    <3> QED
      BY <2>7, <2>8, <3>1, <3>3
  <2> QED
    BY <2>9, <2>10
<1>6. N \in 0..N /\ x <= N
  BY <1>1
<1>7. g[N] = f[N] + d
  BY <1>5, <1>6
<1>8. f[N] \in Int
  BY <1>2, <1>6
<1> QED
  BY <1>1, <1>2, <1>3, <1>7, <1>8

\* Zeros add up to zero.
LEMMA OfZeros ==
  ASSUME NEW a \in Seq(Int), \A k \in 1..Len(a) : a[k] = 0
  PROVE  SumOf(a) = 0
<1>1. PICK f \in [0..Len(a) -> Int] : /\ f[0] = 0
                                      /\ \A n \in 1..Len(a) : f[n] = f[n - 1] + a[n]
                                      /\ SumOf(a) = f[Len(a)]
  BY RunningTotal
<1> DEFINE N == Len(a)
           Fails == {n \in 0..N : f[n] # 0}
<1>2. N \in Nat /\ Fails \subseteq Nat
  OBVIOUS
<1>3. Fails = {}
  <2> SUFFICES ASSUME Fails # {} PROVE FALSE
    OBVIOUS
  <2>1. PICK n \in Fails : \A m \in Fails : n <= m
    <3> HIDE DEF Fails
    <3> QED
      BY <1>2, LeastNumber
  <2>2. n \in 1..N /\ n - 1 \in 0..N /\ n - 1 \notin Fails
    BY <1>1, <2>1
  <2>3. f[n] = f[n - 1] + a[n] /\ a[n] = 0 /\ f[n - 1] = 0
    BY <1>1, <2>2
  <2> QED
    BY <2>1, <2>3
<1> QED
  BY <1>1, <1>2, <1>3

\* Distinct positions of a sequence of n amounts.
Picks(ids, n) ==
    /\ ids \in Seq(1..n)
    /\ \A i, j \in 1..Len(ids) : i # j => ids[i] # ids[j]

\* The amounts b are those of a at the positions, and the others are zero.
Reorders(a, ids, b) ==
    /\ a \in Seq(Int) /\ b \in Seq(Int) /\ Picks(ids, Len(a)) /\ Len(b) = Len(ids)
    /\ \A i \in 1..Len(ids) : b[i] = a[ids[i]]
    /\ \A k \in 1..Len(a) : a[k] = 0 \/ \E i \in 1..Len(ids) : ids[i] = k

\* Each amount counts once, in whatever order they are added.
LEMMA SumReordered ==
  ASSUME NEW a, NEW ids, NEW b, Reorders(a, ids, b)
  PROVE  SumOf(b) = SumOf(a)
<1>0. /\ a \in Seq(Int) /\ b \in Seq(Int) /\ ids \in Seq(1..Len(a)) /\ Len(b) = Len(ids)
      /\ \A i, j \in 1..Len(ids) : i # j => ids[i] # ids[j]
      /\ \A i \in 1..Len(ids) : b[i] = a[ids[i]]
      /\ \A k \in 1..Len(a) : a[k] = 0 \/ \E i \in 1..Len(ids) : ids[i] = k
  BY DEF Reorders, Picks
<1> DEFINE N == Len(a)
           M == Len(ids)
           Took(m) == {ids[i] : i \in 1..m}
           upto(m) == [k \in 1..N |-> IF k \in Took(m) THEN a[k] ELSE 0]
<1>1. N \in Nat /\ M \in Nat /\ \A k \in 1..N : a[k] \in Int
  BY <1>0
<1>2. \A i \in 1..M : ids[i] \in 1..N
  BY <1>0
<1>3. b \in Seq(Int) /\ Len(b) = M
  BY <1>0
<1>4. Took(0) = {} /\ \A k \in 1..N : a[k] = 0 \/ k \in Took(M)
  BY <1>0
<1>5. \A m \in 1..M : Took(m) = Took(m - 1) \cup {ids[m]} /\ ids[m] \notin Took(m - 1)
  <2> TAKE m \in 1..M
  <2>1. \A i \in Int : i \in 1..m <=> i = m \/ i \in 1..m - 1
    BY <1>1
  <2>2. \A i \in 1..m - 1 : i \in 1..M /\ i # m
    <3> HIDE DEF M, N
    <3> QED
      BY <1>1
  <2>3. \A i \in 1..m - 1 : ids[i] # ids[m]
    BY <1>0, <2>2
  <2> QED
    BY <2>1, <2>3
<1> HIDE DEF Took
<1>6. \A m, k : k \in 1..N => upto(m)[k] = IF k \in Took(m) THEN a[k] ELSE 0
  OBVIOUS
<1>7. ASSUME NEW m \in 0..M
      PROVE  upto(m) \in Seq(Int) /\ Len(upto(m)) = N
  <2> HIDE DEF M, N
  <2> QED
    BY <1>1
<1>8. PICK f \in [0..M -> Int] : /\ f[0] = 0
                                 /\ \A n \in 1..M : f[n] = f[n - 1] + b[n]
                                 /\ SumOf(b) = f[M]
  <2> HIDE DEF M
  <2>1. \E f \in [0..Len(b) -> Int] : /\ f[0] = 0
                                      /\ \A n \in 1..Len(b) : f[n] = f[n - 1] + b[n]
                                      /\ SumOf(b) = f[Len(b)]
    BY <1>3, RunningTotal
  <2> QED
    BY <1>3, <2>1
<1> DEFINE Fails == {m \in 0..M : SumOf(upto(m)) # f[m]}
<1>9. 0 \notin Fails
  <2>1. \A k \in 1..N : upto(0)[k] = 0
    BY <1>4, <1>6
  <2>2. 0 \in 0..M
    BY <1>1
  <2> HIDE DEF upto
  <2>3. SumOf(upto(0)) = 0
    BY <1>7, <2>1, <2>2, OfZeros
  <2> QED
    BY <1>8, <2>3
<1>10. ASSUME NEW m \in 1..M, m - 1 \notin Fails
      PROVE  m \notin Fails
  <2>0. m - 1 \in 0..M /\ m \in 0..M /\ ids[m] \in 1..N
    BY <1>2
  <2>1. SumOf(upto(m - 1)) = f[m - 1]
    BY <1>10, <2>0
  <2>2. \A k \in 1..N : k # ids[m] => upto(m)[k] = upto(m - 1)[k]
    <3> HIDE DEF upto
    <3> QED
      BY <1>5, <1>6
  <2>3. upto(m)[ids[m]] = a[ids[m]] /\ upto(m - 1)[ids[m]] = 0
    <3> HIDE DEF upto
    <3> QED
      BY <1>5, <1>6, <2>0
  <2> DEFINE p == upto(m - 1)
             q == upto(m)
  <2>5. p \in Seq(Int) /\ q \in Seq(Int) /\ Len(p) = N /\ Len(q) = N
    BY <1>7, <2>0
  <2>6. SumOf(q) = SumOf(p) + q[ids[m]] - p[ids[m]] /\ SumOf(p) \in Int
    <3>1. \A k \in 1..N : k # ids[m] => q[k] = p[k]
      BY <2>2
    <3> HIDE DEF p, q, N, M
    <3>2. /\ Len(p) = Len(q) /\ ids[m] \in 1..Len(p)
          /\ \A k \in 1..Len(p) : k # ids[m] => q[k] = p[k]
      BY <2>0, <2>5, <3>1
    <3> QED
      BY <2>5, <3>2, OneChanged
  <2>7. f[m] = f[m - 1] + b[m] /\ b[m] = a[ids[m]]
    BY <1>0, <1>8
  <2>8. a[ids[m]] \in Int
    BY <1>1, <2>0
  <2>9. SumOf(q) = f[m]
    <3>1. q[ids[m]] = a[ids[m]] /\ p[ids[m]] = 0 /\ SumOf(p) = f[m - 1]
      BY <2>1, <2>3
    <3> HIDE DEF p, q
    <3> QED
      BY <2>6, <2>7, <2>8, <3>1
  <2> QED
    BY <2>9
<1>11. Fails = {}
  <2> SUFFICES ASSUME Fails # {} PROVE FALSE
    OBVIOUS
  <2>1. Fails \subseteq Nat /\ Fails \subseteq 0..M
    OBVIOUS
  <2> HIDE DEF Fails
  <2>2. PICK n \in Fails : \A m \in Fails : n <= m
    BY <2>1, LeastNumber
  <2>3. n \in 1..M /\ n - 1 \notin Fails
    BY <1>9, <2>1, <2>2
  <2> QED
    BY <1>10, <2>3
<1>12. upto(M) = a
  <2>1. \A k \in 1..N : upto(M)[k] = a[k]
    BY <1>4, <1>6
  <2>2. DOMAIN a = 1..N /\ DOMAIN upto(M) = 1..N /\ a \in Seq(Int)
    BY <1>0
  <2>3. upto(M) \in Seq(Int)
    BY <1>1, <1>7
  <2> HIDE DEF upto
  <2> QED
    BY <2>1, <2>2, <2>3
<1>13. SumOf(upto(M)) = f[M]
  <2>1. M \in 0..M
    BY <1>1
  <2> HIDE DEF Fails
  <2>2. M \notin Fails
    BY <1>11
  <2> QED
    BY <2>1, <2>2 DEF Fails
<1> QED
  BY <1>8, <1>12, <1>13

\* A counter comes to the number of the rows it was counted up for.
LEMMA CountsRows ==
  ASSUME NEW N \in Nat, NEW S \in SUBSET (1..N)
  PROVE  /\ SumOf([k \in 1..N |-> IF k \in S THEN 1 ELSE 0]) = Cardinality(S)
         /\ IsFiniteSet(S)
<1> DEFINE a == [k \in 1..N |-> IF k \in S THEN 1 ELSE 0]
           upto(m) == S \cap 1..m
<1>1. a \in Seq(Int) /\ Len(a) = N
  OBVIOUS
<1>2. PICK f \in [0..N -> Int] : /\ f[0] = 0
                                 /\ \A n \in 1..N : f[n] = f[n - 1] + a[n]
                                 /\ SumOf(a) = f[N]
  <2> HIDE DEF a
  <2>1. \E f \in [0..Len(a) -> Int] : /\ f[0] = 0
                                      /\ \A n \in 1..Len(a) : f[n] = f[n - 1] + a[n]
                                      /\ SumOf(a) = f[Len(a)]
    BY <1>1, RunningTotal
  <2> QED
    BY <1>1, <2>1
<1>3. \A m \in 0..N : IsFiniteSet(upto(m))
  <2> TAKE m \in 0..N
  <2>1. IsFiniteSet(1..m)
    BY FS_Interval
  <2> QED
    BY <2>1, FS_Subset
<1> DEFINE Fails == {m \in 0..N : Cardinality(upto(m)) # f[m]}
<1>4. 0 \notin Fails
  <2>1. upto(0) = {}
    OBVIOUS
  <2> QED
    BY <1>2, <2>1, FS_EmptySet
<1>5. ASSUME NEW m \in 1..N, m - 1 \notin Fails
      PROVE  m \notin Fails
  <2>0. m - 1 \in 0..N /\ m \in Int
    OBVIOUS
  <2>1. Cardinality(upto(m - 1)) = f[m - 1]
    BY <1>5, <2>0
  <2>2. \A k \in 1..m : k = m \/ k \in 1..m - 1
    OBVIOUS
  <2>3. 1..m = 1..m - 1 \cup {m} /\ m \notin 1..m - 1
    BY <2>0
  <2>4. CASE m \in S
    <3>1. upto(m) = upto(m - 1) \cup {m} /\ m \notin upto(m - 1)
      BY <2>3, <2>4
    <3>2. Cardinality(upto(m)) = Cardinality(upto(m - 1)) + 1
      <4>1. IsFiniteSet(upto(m - 1))
        BY <1>3, <2>0
      <4> HIDE DEF upto
      <4> QED
        BY <3>1, <4>1, FS_AddElement
    <3>3. f[m] = f[m - 1] + 1
      BY <1>2, <2>4
    <3> QED
      BY <2>1, <3>2, <3>3
  <2>5. CASE m \notin S
    <3>1. upto(m) = upto(m - 1)
      BY <2>3, <2>5
    <3>2. f[m] = f[m - 1] + 0 /\ f[m - 1] \in Int
      BY <1>2, <2>0, <2>5
    <3> HIDE DEF upto
    <3>3. Cardinality(upto(m)) = f[m]
      BY <2>1, <3>1, <3>2
    <3> QED
      BY <3>3
  <2> QED
    BY <2>4, <2>5
<1>6. Fails = {}
  <2> SUFFICES ASSUME Fails # {} PROVE FALSE
    OBVIOUS
  <2>1. Fails \subseteq Nat /\ Fails \subseteq 0..N
    OBVIOUS
  <2> HIDE DEF Fails
  <2>2. PICK n \in Fails : \A m \in Fails : n <= m
    BY <2>1, LeastNumber
  <2>3. n \in 1..N /\ n - 1 \notin Fails
    BY <1>4, <2>1, <2>2
  <2> QED
    BY <1>5, <2>3
<1>7. upto(N) = S /\ N \in 0..N
  <2>1. N \in 0..N
    OBVIOUS
  <2>2. upto(N) = S
    OBVIOUS
  <2> QED
    BY <2>1, <2>2
<1>8. Cardinality(upto(N)) = f[N] /\ IsFiniteSet(upto(N))
  <2> HIDE DEF upto
  <2> QED
    BY <1>3, <1>6, <1>7
<1> QED
  BY <1>2, <1>7, <1>8

\* A loop over the records that adds f at the rows in T.
LEMMA LoopAdds ==
  ASSUME NEW a, NEW ids, NEW f, NEW T,
         a \in Seq(Int), Picks(ids, Len(a)), DOMAIN f = 1..Len(ids),
         \A i \in 1..Len(ids) : a[ids[i]] = IF i \in T THEN f[i] ELSE 0,
         \A k \in 1..Len(a) : a[k] = 0 \/ \E i \in 1..Len(ids) : ids[i] = k
  PROVE  Adds(f, T) = SumOf(a)
<1> DEFINE b == [i \in 1..Len(ids) |-> IF i \in T THEN f[i] ELSE 0]
<1>1. ids \in Seq(1..Len(a)) /\ Len(ids) \in Nat
  BY DEF Picks
<1>2. \A i \in 1..Len(ids) : ids[i] \in 1..Len(a)
  BY <1>1
<1>3. \A i \in 1..Len(ids) : b[i] = a[ids[i]] /\ b[i] \in Int
  BY <1>2
<1>4. b \in Seq(Int) /\ Len(b) = Len(ids)
  <2> DEFINE n == Len(ids)
  <2>1. b \in [1..n -> Int] /\ n \in Nat
    BY <1>1, <1>3
  <2> HIDE DEF b, n
  <2>2. b \in Seq(Int) /\ Len(b) = n
    BY <2>1
  <2> QED
    BY <2>2 DEF n
<1>5. Adds(f, T) = SumOf(b)
  BY DEF Adds
<1> HIDE DEF b
<1>6. Reorders(a, ids, b)
  BY <1>3, <1>4 DEF Reorders
<1> QED
  BY <1>5, <1>6, SumReordered

\* A loop over the records that counts the rows in T.
LEMMA LoopCounts ==
  ASSUME NEW n \in Nat, NEW ids, Picks(ids, n), NEW S, NEW T, NEW rs,
         DOMAIN rs = 1..Len(ids),
         \A k \in S : k \in 1..n /\ \E i \in 1..Len(ids) : ids[i] = k,
         \A i \in 1..Len(ids) : i \in T <=> ids[i] \in S
  PROVE  Counts(rs, T) = Cardinality(S)
<1> DEFINE a == [k \in 1..n |-> IF k \in S THEN 1 ELSE 0]
           one == [i \in DOMAIN rs |-> 1]
<1>1. ids \in Seq(1..n) /\ S \in SUBSET (1..n)
  BY DEF Picks
<1>2. \A i \in 1..Len(ids) : ids[i] \in 1..n
  BY <1>1
<1>3. a \in Seq(Int) /\ Len(a) = n
  OBVIOUS
<1>4. SumOf(a) = Cardinality(S)
  BY <1>1, CountsRows
<1>5. \A i \in 1..Len(ids) : a[ids[i]] = IF i \in T THEN one[i] ELSE 0
  BY <1>2
<1>6. \A k \in 1..n : a[k] = 0 \/ \E i \in 1..Len(ids) : ids[i] = k
  OBVIOUS
<1>7. Counts(rs, T) = Adds(one, T)
  <2>1. [i \in DOMAIN rs |-> IF i \in T THEN 1 ELSE 0]
          = [i \in DOMAIN one |-> IF i \in T THEN one[i] ELSE 0]
    OBVIOUS
  <2> QED
    BY <2>1 DEF Counts, Adds
<1>8. DOMAIN one = 1..Len(ids)
  OBVIOUS
<1> HIDE DEF a, one
<1>9. Adds(one, T) = SumOf(a)
  BY <1>3, <1>5, <1>6, <1>8, LoopAdds
<1> QED
  BY <1>4, <1>7, <1>9

-----------------------------------------------------------------------------
(* The median.                                                            *)

\* One of the numbers of a set that is not above the others.
Least(costs, R) == CHOOSE x \in R : \A y \in R : costs[x] <= costs[y]

\* There is one.
LEMMA LeastThere ==
  ASSUME NEW costs \in Seq(Nat), NEW R \in SUBSET (1..Len(costs)), R # {}
  PROVE  Least(costs, R) \in R /\ \A y \in R : costs[Least(costs, R)] <= costs[y]
<1> DEFINE T == {costs[y] : y \in R}
<1>1. T \subseteq Nat /\ T # {}
  OBVIOUS
<1>2. PICK c \in T : \A d \in T : c <= d
  <2> HIDE DEF T
  <2> QED
    BY <1>1, LeastNumber
<1>3. \E x \in R : \A y \in R : costs[x] <= costs[y]
  BY <1>2
<1> QED
  BY <1>3 DEF Least

\* Every sequence of costs can be sorted.
LEMMA Sorted ==
  ASSUME NEW costs \in Seq(Nat)
  PROVE  \E order \in Bijection(1..Len(costs), 1..Len(costs)) :
            \A j, k \in 1..Len(costs) : j < k => costs[order[j]] <= costs[order[k]]
<1> DEFINE N == Len(costs)
           All == 1..N
           V == SUBSET All
           next(v) == IF v = All THEN v ELSE v \cup {Least(costs, All \ v)}
           draw == [n \in 1..N |-> [v \in V |-> next(v)]]
<1>1. N \in Nat
  OBVIOUS
<1>2. \A v \in V : v # All => Least(costs, All \ v) \in All \ v
                              /\ \A y \in All \ v : costs[Least(costs, All \ v)] <= costs[y]
  <2> TAKE v \in V
  <2>1. v # All => All \ v # {}
    OBVIOUS
  <2> QED
    BY <2>1, LeastThere
<1>7. IsFiniteSet(All) /\ Cardinality(All) = N
  <2> HIDE DEF N
  <2> QED
    BY <1>1, FS_Interval
<1> HIDE DEF All
<1>3. \A v \in V : next(v) \in V
  BY <1>2
<1>4. draw \in [1..N -> [V -> V]] /\ {} \in V
  <2> HIDE DEF next
  <2> QED
    BY <1>3
<1>5. PICK f \in [0..N -> V] : Runs(f, N, {}, draw)
  <2> HIDE DEF draw, V, N
  <2> QED
    BY <1>1, <1>4, Recursion
<1>6. /\ f[0] = {}
      /\ \A n \in 1..N : f[n - 1] \in V /\ f[n] = next(f[n - 1])
  <2> HIDE DEF next, V, N
  <2>1. f[0] = {} /\ \A n \in 1..N : f[n] = draw[n][f[n - 1]]
    <3> HIDE DEF draw
    <3> QED
      BY <1>5 DEF Runs
  <2> QED
    <3>1. \A n \in 1..N : n - 1 \in 0..N
      BY <1>1
    <3>2. \A n \in 1..N : f[n - 1] \in V
      BY <3>1
    <3>3. \A n \in 1..N, v \in V : draw[n][v] = next(v)
      OBVIOUS
    <3> HIDE DEF draw
    <3> QED
      BY <2>1, <3>2, <3>3
<1>8. \A v \in V : IsFiniteSet(v)
  BY <1>7, FS_Subset
<1> DEFINE Fails == {n \in 0..N : Cardinality(f[n]) # n}
<1>9. Fails = {}
  <2> SUFFICES ASSUME Fails # {} PROVE FALSE
    OBVIOUS
  <2>1. Fails \subseteq Nat
    OBVIOUS
  <2>2. PICK n \in Fails : \A m \in Fails : n <= m
    <3> HIDE DEF Fails
    <3> QED
      BY <2>1, LeastNumber
  <2>3. n # 0
    BY <1>6, <2>2, FS_EmptySet
  <2>4. n \in 1..N /\ n - 1 \in 0..N /\ n - 1 \notin Fails
    BY <2>2, <2>3
  <2>5. Cardinality(f[n - 1]) = n - 1
    BY <2>4
  <2>6. f[n - 1] # All
    BY <1>7, <2>4, <2>5
  <2> DEFINE x == Least(costs, All \ f[n - 1])
  <2>7. f[n] = f[n - 1] \cup {x} /\ x \notin f[n - 1] /\ f[n - 1] \in V
    BY <1>2, <1>6, <2>4, <2>6
  <2> HIDE DEF x
  <2>8. Cardinality(f[n]) = Cardinality(f[n - 1]) + 1
    BY <1>8, <2>7, FS_AddElement
  <2>9. Cardinality(f[n]) = n
    BY <2>4, <2>5, <2>8
  <2> QED
    BY <2>2, <2>9
<1> DEFINE order == [n \in 1..N |-> Least(costs, All \ f[n - 1])]
<1>10. ASSUME NEW n \in 1..N
       PROVE  /\ order[n] \in All \ f[n - 1]
              /\ \A y \in All \ f[n - 1] : costs[order[n]] <= costs[y]
              /\ f[n] = f[n - 1] \cup {order[n]}
  <2>1. n - 1 \in 0..N /\ f[n - 1] \in V /\ n - 1 # N
    BY <1>6
  <2>2. Cardinality(f[n - 1]) = n - 1
    BY <1>9, <2>1
  <2>3. f[n - 1] # All
    BY <1>7, <2>1, <2>2
  <2> QED
    BY <1>2, <1>6, <2>1, <2>3
<1> HIDE DEF order
<1> DEFINE Lost == {k \in 0..N : \E j \in 0..k : ~(f[j] \subseteq f[k])}
<1>11. Lost = {}
  <2> SUFFICES ASSUME Lost # {} PROVE FALSE
    OBVIOUS
  <2>1. Lost \subseteq Nat
    OBVIOUS
  <2>2. PICK k \in Lost : \A m \in Lost : k <= m
    <3> HIDE DEF Lost
    <3> QED
      BY <2>1, LeastNumber
  <2>3. PICK j \in 0..k : ~(f[j] \subseteq f[k])
    BY <2>2
  <2>4. j # k /\ k \in 1..N
    BY <2>2, <2>3
  <2>5. k - 1 \in 0..N /\ j \in 0..k - 1 /\ k - 1 \notin Lost
    <3>1. k \in 1..N /\ j \in 0..k /\ j # k /\ N \in Nat
      BY <1>1, <2>4
    <3>2. k - 1 \in 0..N /\ j \in 0..k - 1 /\ ~(k <= k - 1)
      <4> HIDE DEF Lost, N
      <4> QED
        BY <3>1
    <3> HIDE DEF Lost
    <3> QED
      BY <2>2, <3>2
  <2>6. f[j] \subseteq f[k - 1]
    BY <2>5
  <2>7. f[k - 1] \subseteq f[k]
    BY <1>10, <2>4
  <2> QED
    BY <2>3, <2>6, <2>7
<1>12. ASSUME NEW j \in 1..N, NEW k \in 1..N, j < k
       PROVE  order[j] # order[k] /\ costs[order[j]] <= costs[order[k]]
  <2>1. k - 1 \in 0..N /\ j \in 0..k - 1 /\ j - 1 \in 0..k - 1
    BY <1>12
  <2>2. f[j] \subseteq f[k - 1] /\ f[j - 1] \subseteq f[k - 1]
    BY <1>11, <2>1
  <2>3. order[j] \in f[k - 1]
    BY <1>10, <2>2
  <2>4. order[k] \in All \ f[k - 1] /\ order[k] \in All \ f[j - 1]
    BY <1>10, <2>2
  <2> QED
    BY <1>10, <2>3, <2>4
<1>13. order \in [All -> All]
  BY <1>10 DEF order, All
<1>14. order \in Injection(All, All)
  <2>1. \A j, k \in 1..N : j # k => order[j] # order[k]
    <3> TAKE j, k \in 1..N
    <3>1. j < k \/ k < j \/ j = k
      BY <1>1
    <3> QED
      BY <1>12, <3>1
  <2> QED
    BY <1>13, <2>1 DEF Injection, IsInjective, All
<1>15. order \in Surjection(All, All)
  BY <1>7, <1>14, FS_Injection
<1>16. order \in Bijection(1..N, 1..N)
  BY <1>14, <1>15 DEF Bijection, All
<1> QED
  BY <1>12, <1>16

\* The n prices in their order.
Sorts(g, n, prior) ==
    /\ n \in Nat /\ g \in Bijection(1..n, DOMAIN prior)
    /\ \A k \in DOMAIN prior : prior[k] \in Nat
    /\ \A j, k \in 1..n : j < k => prior[g[j]] <= prior[g[k]]

\* The n-th lowest price is the n-th of the sorted prices.
LEMMA NthIsSorted ==
  ASSUME NEW g, NEW n, NEW prior, Sorts(g, n, prior), NEW m \in 1..n
  PROVE  Nth(prior, m) = prior[g[m]]
<1> DEFINE cost(k) == prior[k]
           S == DOMAIN prior
           Below(c) == {k \in S : cost(k) < c}
           Upto(c) == {k \in S : cost(k) <= c}
           c0 == cost(g[m])
           G(k) == {g[j] : j \in 1..k}
<1>0. /\ n \in Nat /\ g \in Bijection(1..n, S) /\ \A k \in S : prior[k] \in Nat
      /\ \A j, k \in 1..n : j < k => prior[g[j]] <= prior[g[k]]
  BY DEF Sorts
<1>1. /\ \A j \in 1..n : g[j] \in S
      /\ \A k \in S : \E j \in 1..n : g[j] = k
      /\ \A j, k \in 1..n : g[j] = g[k] => j = k
  BY <1>0 DEF Bijection, Injection, Surjection, IsInjective
<1>2. IsFiniteSet(S)
  <2>1. g \in Surjection(1..n, S) /\ IsFiniteSet(1..n)
    BY <1>0, FS_Interval DEF Bijection
  <2> QED
    BY <2>1, FS_Surjection
<1>3. ASSUME NEW k \in 0..n
      PROVE  IsFiniteSet(G(k)) /\ Cardinality(G(k)) = k
  <2> DEFINE f == [j \in 1..k |-> g[j]]
  <2>1. \A j \in 1..k : j \in 1..n
    BY <1>0
  <2>2. f \in Surjection(1..k, G(k))
    BY DEF Surjection
  <2>3. f \in Injection(1..k, G(k))
    BY <1>1, <2>1 DEF Injection, IsInjective
  <2>4. IsFiniteSet(1..k) /\ Cardinality(1..k) = k
    <3>1. k \in Nat
      BY <1>0
    <3> QED
      BY <3>1, FS_Interval
  <2> HIDE DEF f, G
  <2> QED
    BY <2>2, <2>3, <2>4, FS_Surjection
<1>4. \A c : /\ IsFiniteSet(Below(c)) /\ Cardinality(Below(c)) \in Nat
             /\ IsFiniteSet(Upto(c)) /\ Cardinality(Upto(c)) \in Nat
  <2> TAKE c
  <2>1. Below(c) \in SUBSET S /\ Upto(c) \in SUBSET S
    OBVIOUS
  <2> HIDE DEF Below, Upto
  <2> QED
    BY <1>2, <2>1, FS_Subset, FS_CardinalityType
<1>5. c0 \in Nat /\ m \in Nat /\ n \in Nat /\ m >= 1
  BY <1>0, <1>1
<1>6. Below(c0) \subseteq G(m - 1)
  <2> SUFFICES ASSUME NEW k \in S, cost(k) < c0 PROVE k \in G(m - 1)
    OBVIOUS
  <2>1. PICK j \in 1..n : g[j] = k
    BY <1>1
  <2>2. cost(g[j]) \in Nat /\ cost(g[j]) < cost(g[m])
    BY <1>0, <1>1, <2>1
  <2>3. j # m /\ ~(m < j)
    <3>1. m < j => cost(g[m]) <= cost(g[j])
      BY <1>0
    <3> QED
      BY <1>5, <2>2, <3>1
  <2>4. j \in 1..m - 1
    BY <1>5, <2>3
  <2> QED
    BY <2>1, <2>4
<1>7. G(m) \subseteq Upto(c0)
  <2> SUFFICES ASSUME NEW j \in 1..m PROVE g[j] \in S /\ cost(g[j]) <= c0
    OBVIOUS
  <2>1. j \in 1..n /\ (j < m \/ j = m)
    BY <1>5
  <2>2. cost(g[j]) \in Nat /\ g[j] \in S
    BY <1>0, <1>1, <2>1
  <2> QED
    BY <1>0, <1>5, <2>1, <2>2
<1>8. Cardinality(Below(c0)) <= m - 1
  <2>1. m - 1 \in 0..n
    BY <1>5
  <2> HIDE DEF Below, G, c0
  <2>2. IsFiniteSet(G(m - 1)) /\ Cardinality(G(m - 1)) = m - 1
    BY <1>3, <2>1
  <2>3. Cardinality(Below(c0)) <= Cardinality(G(m - 1))
    BY <1>6, <2>2, FS_Subset
  <2> QED
    BY <2>2, <2>3
<1>9. m <= Cardinality(Upto(c0))
  <2>1. m \in 0..n
    BY <1>5
  <2> HIDE DEF Upto, G, c0
  <2>2. Cardinality(G(m)) = m
    BY <1>3, <2>1
  <2>3. IsFiniteSet(Upto(c0))
    BY <1>4
  <2>4. Cardinality(G(m)) <= Cardinality(Upto(c0))
    BY <1>7, <2>3, FS_Subset
  <2> QED
    BY <2>2, <2>4
<1> DEFINE Is(c) == Cardinality(Below(c)) < m /\ m <= Cardinality(Upto(c))
<1>10. Is(c0)
  <2> HIDE DEF Below, Upto, c0
  <2> QED
    BY <1>4, <1>5, <1>8, <1>9
<1>11. ASSUME NEW c \in {cost(k) : k \in S}, Is(c)
       PROVE  c = c0
  <2>1. c \in Nat
    BY <1>0
  <2>2. ~(c < c0)
    <3> SUFFICES ASSUME c < c0 PROVE FALSE
      OBVIOUS
    <3>1. Upto(c) \subseteq Below(c0)
      BY <1>0, <1>5, <2>1
    <3> HIDE DEF Below, Upto, c0
    <3>2. Cardinality(Upto(c)) <= Cardinality(Below(c0))
      BY <1>4, <3>1, FS_Subset
    <3> QED
      BY <1>4, <1>5, <1>8, <1>11, <3>2
  <2>3. ~(c0 < c)
    <3> SUFFICES ASSUME c0 < c PROVE FALSE
      OBVIOUS
    <3>1. Upto(c0) \subseteq Below(c)
      BY <1>0, <1>5, <2>1
    <3> HIDE DEF Below, Upto, c0
    <3>2. Cardinality(Upto(c0)) <= Cardinality(Below(c))
      BY <1>4, <3>1, FS_Subset
    <3> QED
      BY <1>4, <1>5, <1>9, <1>11, <3>2
  <2> QED
    BY <1>5, <2>1, <2>2, <2>3
<1>12. c0 \in {cost(k) : k \in S}
  BY <1>1
<1>13. Nth(prior, m) = CHOOSE c \in {cost(k) : k \in S} : Is(c)
  BY DEF Nth
<1> HIDE DEF Is, c0
<1>14. Nth(prior, m) = c0
  BY <1>10, <1>11, <1>12, <1>13
<1> QED
  BY <1>14 DEF c0

\* What is computed as the median of the earlier prices is their median.
LEMMA MedianIsMiddle ==
  ASSUME NEW prior, NEW S, S = DOMAIN prior, NEW costs \in Seq(Nat),
         NEW h \in Bijection(1..Len(costs), S),
         \A i \in 1..Len(costs) : costs[i] = prior[h[i]],
         Len(costs) >= 1
  PROVE  /\ Median_doubled(costs)
               = Nth(prior, (Len(costs) + 1) \div 2) + Nth(prior, Len(costs) \div 2 + 1)
         /\ Median_doubled(costs) \in Nat
<1> DEFINE N == Len(costs)
           ordered(p) == \A j, k \in 1..N : j < k => costs[p[j]] <= costs[p[k]]
           order == CHOOSE p \in Bijection(1..N, 1..N) : ordered(p)
<1>1. N \in Nat
  OBVIOUS
<1>2. order \in Bijection(1..N, 1..N) /\ ordered(order)
  <2>1. \E p \in Bijection(1..N, 1..N) : ordered(p)
    BY Sorted
  <2> HIDE DEF ordered
  <2> QED
    BY <2>1
<1>3. Median_doubled(costs) = costs[order[(N + 1) \div 2]] + costs[order[N \div 2 + 1]]
  BY DEF Median_doubled
<1> HIDE DEF order
<1>4. order \in Surjection(1..N, 1..N)
  BY <1>2 DEF Bijection
<1>5. order \in Injection(1..N, 1..N)
  BY <1>2 DEF Bijection
<1>6. \A j \in 1..N : order[j] \in 1..N
  BY <1>5 DEF Injection
<1>7. /\ \A i \in 1..N : h[i] \in S
      /\ \A k \in S : \E i \in 1..N : h[i] = k
      /\ \A i, k \in 1..N : h[i] = h[k] => i = k
  BY DEF Bijection, Injection, Surjection, IsInjective
<1> DEFINE g == [j \in 1..N |-> h[order[j]]]
<1>8. g \in Bijection(1..N, S)
  <2>1. g \in [1..N -> S]
    BY <1>6, <1>7
  <2>2. \A j, k \in 1..N : g[j] = g[k] => j = k
    <3>1. \A j, k \in 1..N : order[j] = order[k] => j = k
      BY <1>5 DEF Injection, IsInjective
    <3> QED
      BY <1>6, <1>7, <3>1
  <2>3. \A k \in S : \E j \in 1..N : g[j] = k
    <3> TAKE k \in S
    <3>1. PICK i \in 1..N : h[i] = k
      BY <1>7
    <3>2. PICK j \in 1..N : order[j] = i
      BY <1>4 DEF Surjection
    <3> QED
      BY <3>1, <3>2
  <2> HIDE DEF g
  <2> QED
    BY <2>1, <2>2, <2>3 DEF Bijection, Injection, Surjection, IsInjective
<1>9. \A j \in 1..N : prior[g[j]] = costs[order[j]]
  BY <1>6
<1>10. \A k \in S : prior[k] \in Nat
  <2> TAKE k \in S
  <2>1. PICK i \in 1..N : h[i] = k
    BY <1>7
  <2> QED
    BY <2>1
<1>11. \A j, k \in 1..N : j < k => prior[g[j]] <= prior[g[k]]
  <2> HIDE DEF g
  <2> QED
    BY <1>2, <1>9
<1> HIDE DEF g
<1>12. \A m \in 1..N : Nth(prior, m) = costs[order[m]]
  <2> TAKE m \in 1..N
  <2>1. Nth(prior, m) = prior[g[m]]
    <3>1. Sorts(g, N, prior)
      BY <1>1, <1>8, <1>10, <1>11 DEF Sorts
    <3> HIDE DEF N
    <3> QED
      BY <3>1, NthIsSorted
  <2> QED
    BY <1>9, <2>1
<1>13. (N + 1) \div 2 \in 1..N /\ N \div 2 + 1 \in 1..N
  <2> HIDE DEF N
  <2>1. N \in Nat /\ N >= 1
    BY <1>1 DEF N
  <2> QED
    BY <2>1
<1>14. \A j \in 1..N : costs[order[j]] \in Nat
  BY <1>6
<1>15. Median_doubled(costs) \in Nat
  <2> HIDE DEF N
  <2> DEFINE u == costs[order[(N + 1) \div 2]]
             v == costs[order[N \div 2 + 1]]
  <2>1. u \in Nat /\ v \in Nat
    BY <1>13, <1>14
  <2>2. Median_doubled(costs) = u + v
    BY <1>3
  <2> HIDE DEF u, v
  <2> QED
    BY <2>1, <2>2
<1> QED
  BY <1>3, <1>12, <1>13, <1>15

-----------------------------------------------------------------------------
(* The figures.                                                           *)

\* The records that a query of the events returned.
Rs(ids) == [k \in DOMAIN ids |-> events[ids[k]]]

\* An event that the report is about, or gives it a price.
InPeriod(e) == \/ e.ts \in 0..WEEK - 1
               \/ e.event_type = "supply" /\ e.ts \in -BASELINE..-1

\* What the query returns: events of the period, by their times.
Listed(ids) ==
    /\ Picks(ids, Len(events))
    /\ \A i, j \in 1..Len(ids) : i < j => events[ids[i]].ts <= events[ids[j]].ts
    /\ \A i \in 1..Len(ids) : InPeriod(events[ids[i]])

\* The records are the events at the ids.
LEMMA RecordsRead ==
  ASSUME events \in Seq(Record), NEW ids, Listed(ids)
  PROVE  /\ Picks(ids, Len(events)) /\ Len(events) \in Nat /\ Len(ids) \in Nat
         /\ ids \in Seq(1..Len(events))
         /\ DOMAIN events = 1..Len(events) /\ DOMAIN Rs(ids) = 1..Len(ids)
         /\ \A i \in 1..Len(ids) : /\ Rs(ids)[i] = events[ids[i]]
                                   /\ ids[i] \in 1..Len(events) /\ events[ids[i]] \in Record
         /\ ToSet(ids) = {ids[i] : i \in 1..Len(ids)}
         /\ ToSet(ids) \subseteq 1..Len(events)
<1>1. ids \in Seq(1..Len(events)) /\ Picks(ids, Len(events))
  BY DEF Listed, Picks
<1>2. DOMAIN ids = 1..Len(ids) /\ Len(ids) \in Nat
  BY <1>1
<1>3. \A i \in 1..Len(ids) : ids[i] \in 1..Len(events)
  BY <1>1
<1>4. \A k \in 1..Len(events) : events[k] \in Record
  OBVIOUS
<1>5. ToSet(ids) = {ids[i] : i \in 1..Len(ids)}
  BY <1>2 DEF ToSet
<1> QED
  BY <1>1, <1>2, <1>3, <1>4, <1>5 DEF Rs

\* A window leaves out its end.
LEMMA Windows ==
  ASSUME NEW r \in Record
  PROVE  /\ InWeek(r) <=> r.ts \in 0..WEEK - 1
         /\ in_window(r.ts, -BASELINE, 0) <=> r.ts \in -BASELINE..-1
         /\ r.ts \in Int
         /\ r.quantity # Missing => r.quantity \in Nat
         /\ r.unit_cost # Missing => r.unit_cost \in Nat
         /\ Named(r) => Located(r)
<1>1. r.ts \in Int
  BY DEF Record
<1> QED
  BY <1>1 DEF Record, InWeek, in_window, WEEK, BASELINE, Named, Located

\* A purchase with a price counts once, one without a price is missing.
LEMMA PurchasesAsDefined ==
  ASSUME events \in Seq(Record), NEW ids, Listed(ids),
         NEW counted, counted = Counted(ToSet(ids), "supply"),
         NEW bought, bought = {k \in counted : events[k].unit_cost # Missing}
  PROVE  /\ compute_purchase_costs(Rs(ids)).total =
               SumOf([k \in DOMAIN events |->
                  IF k \in bought THEN events[k].quantity * events[k].unit_cost ELSE 0])
         /\ compute_purchase_costs(Rs(ids)).missing = Cardinality(counted \ bought)
<1> DEFINE rs == Rs(ids)
           N == Len(events)
           M == Len(ids)
           orders == {k \in DOMAIN rs : /\ rs[k].event_type = "supply" /\ InWeek(rs[k])
                                        /\ Located(rs[k]) /\ rs[k].quantity # Missing}
           priced == {k \in orders : rs[k].unit_cost # Missing}
           f == [k \in DOMAIN rs |-> rs[k].quantity * rs[k].unit_cost]
           a == [k \in DOMAIN events |->
                   IF k \in bought THEN events[k].quantity * events[k].unit_cost ELSE 0]
<1>1. /\ N \in Nat /\ M \in Nat /\ Picks(ids, N)
      /\ DOMAIN events = 1..N /\ DOMAIN rs = 1..M
      /\ \A i \in 1..M : /\ rs[i] = events[ids[i]]
                         /\ ids[i] \in 1..N /\ events[ids[i]] \in Record
      /\ ToSet(ids) = {ids[i] : i \in 1..M}
      /\ ToSet(ids) \subseteq 1..N
  BY RecordsRead
<1>2. /\ compute_purchase_costs(rs).total = Adds(f, priced)
      /\ compute_purchase_costs(rs).missing = Counts(rs, orders \ priced)
  BY DEF compute_purchase_costs
<1> HIDE DEF rs, M, N
<1>3. ASSUME NEW i \in 1..M
      PROVE  (i \in orders <=> ids[i] \in counted) /\ (i \in priced <=> ids[i] \in bought)
  <2>1. /\ rs[i] = events[ids[i]] /\ ids[i] \in ToSet(ids)
        /\ InWeek(events[ids[i]]) <=> events[ids[i]].ts \in 0..WEEK - 1
    BY <1>1, Windows
  <2> QED
    BY <1>1, <2>1 DEF Counted, Of, Located
<1>4. counted \subseteq ToSet(ids) /\ bought \subseteq counted
  BY DEF Counted, Of
<1>5. ASSUME NEW k \in bought
      PROVE  events[k].quantity * events[k].unit_cost \in Int
  <2>1. k \in 1..N /\ events[k] \in Record /\ events[k].quantity # Missing
        /\ events[k].unit_cost # Missing
    BY <1>1, <1>4 DEF Counted
  <2>2. events[k].quantity \in Nat /\ events[k].unit_cost \in Nat
    BY <2>1, Windows
  <2> QED
    BY <2>2
<1>6. a \in Seq(Int) /\ Len(a) = N
  <2>1. a \in [1..N -> Int]
    BY <1>1, <1>5
  <2> HIDE DEF a
  <2> QED
    BY <1>1, <2>1
<1>7. \A i \in 1..M : a[ids[i]] = IF i \in priced THEN f[i] ELSE 0
  <2> TAKE i \in 1..M
  <2>1. f[i] = events[ids[i]].quantity * events[ids[i]].unit_cost
    BY <1>1
  <2>2. a[ids[i]] = IF ids[i] \in bought
                      THEN events[ids[i]].quantity * events[ids[i]].unit_cost ELSE 0
    BY <1>1
  <2> HIDE DEF a, f, priced
  <2> QED
    BY <1>3, <2>1, <2>2
<1>8. \A k \in 1..N : a[k] = 0 \/ \E i \in 1..M : ids[i] = k
  <2>1. \A k \in bought : \E i \in 1..M : ids[i] = k
    BY <1>1, <1>4
  <2> QED
    BY <1>1, <2>1
<1>9. DOMAIN f = 1..M
  BY <1>1
<1> HIDE DEF a, f, priced, orders
<1>10. Adds(f, priced) = SumOf(a)
  BY <1>1, <1>6, <1>7, <1>8, <1>9, LoopAdds DEF M
<1>11. Counts(rs, orders \ priced) = Cardinality(counted \ bought)
  <2>1. \A k \in counted \ bought : k \in 1..N /\ \E i \in 1..M : ids[i] = k
    BY <1>1, <1>4
  <2>2. \A i \in 1..M : i \in orders \ priced <=> ids[i] \in counted \ bought
    BY <1>3
  <2> DEFINE S == counted \ bought
             T == orders \ priced
  <2> HIDE DEF S, T
  <2>3. /\ \A k \in S : k \in 1..N /\ \E i \in 1..M : ids[i] = k
        /\ \A i \in 1..M : i \in T <=> ids[i] \in S
    BY <2>1, <2>2 DEF S, T
  <2>4. Counts(rs, T) = Cardinality(S)
    BY <1>1, <2>3, LoopCounts DEF M
  <2> QED
    BY <2>4 DEF S, T
<1> QED
  BY <1>2, <1>10, <1>11 DEF rs, a

\* Each stockout of the week counts once.
LEMMA StockoutsAsDefined ==
  ASSUME events \in Seq(Record), NEW ids, Listed(ids)
  PROVE  compute_stockout_counts(Rs(ids)) = Cardinality(Of(ToSet(ids), "stockout"))
<1> DEFINE rs == Rs(ids)
           M == Len(ids)
           S == Of(ToSet(ids), "stockout")
           T == {k \in DOMAIN rs : rs[k].event_type = "stockout" /\ Located(rs[k]) /\ InWeek(rs[k])}
<1>1. /\ Len(events) \in Nat /\ M \in Nat /\ Picks(ids, Len(events))
      /\ DOMAIN rs = 1..M
      /\ \A i \in 1..M : /\ rs[i] = events[ids[i]] /\ events[ids[i]] \in Record
                         /\ ids[i] \in 1..Len(events)
      /\ ToSet(ids) = {ids[i] : i \in 1..M}
  BY RecordsRead
<1>2. compute_stockout_counts(rs) = Counts(rs, T)
  BY DEF compute_stockout_counts
<1> HIDE DEF rs, M
<1>3. ASSUME NEW i \in 1..M PROVE i \in T <=> ids[i] \in S
  <2>1. /\ rs[i] = events[ids[i]] /\ ids[i] \in ToSet(ids)
        /\ InWeek(events[ids[i]]) <=> events[ids[i]].ts \in 0..WEEK - 1
    BY <1>1, Windows
  <2> QED
    BY <1>1, <2>1 DEF Of, Located
<1>4. \A k \in S : k \in 1..Len(events) /\ \E i \in 1..M : ids[i] = k
  BY <1>1 DEF Of
<1> HIDE DEF S, T
<1>5. Counts(rs, T) = Cardinality(S)
  BY <1>1, <1>3, <1>4, LoopCounts DEF M
<1> QED
  BY <1>2, <1>5 DEF rs, S

\* The last supply at or before a time is one of the latest before it.
LEMMA LatestAsDefined ==
  ASSUME events \in Seq(Record), NEW ids, Listed(ids), NEW ts \in Int,
         NEW before, before = Priced(ToSet(ids), -BASELINE, ts)
  PROVE  \/ before = {} /\ latest_cost(Rs(ids), ts) = Missing
         \/ \E j \in before : /\ \A i \in before : events[i].ts <= events[j].ts
                              /\ latest_cost(Rs(ids), ts) = events[j].unit_cost
<1> DEFINE rs == Rs(ids)
           M == Len(ids)
           supplies == Supplies(rs)
           visited == {k \in supplies : \A j \in supplies : j <= k => rs[j].ts <= ts}
<1>1. /\ M \in Nat /\ DOMAIN rs = 1..M
      /\ \A i \in 1..M : rs[i] = events[ids[i]] /\ events[ids[i]] \in Record
      /\ ToSet(ids) = {ids[i] : i \in 1..M}
  BY RecordsRead
<1>2. /\ \A i, j \in 1..M : i < j => events[ids[i]].ts <= events[ids[j]].ts
      /\ \A i \in 1..M : InPeriod(events[ids[i]])
  BY DEF Listed
<1>3. latest_cost(rs, ts) = IF visited = {} THEN Missing ELSE rs[Max(visited)].unit_cost
  BY DEF latest_cost
<1> HIDE DEF rs, M
<1>4. \A i \in 1..M : events[ids[i]].ts \in Int
  BY <1>1, Windows
<1>5. \A i \in 1..M : i \in supplies <=> /\ events[ids[i]].event_type = "supply"
                                         /\ events[ids[i]].names = "both"
                                         /\ events[ids[i]].unit_cost # Missing
  BY <1>1 DEF Supplies, Named
<1>6. supplies \subseteq 1..M
  BY <1>1 DEF Supplies
<1> HIDE DEF supplies
<1>7. ASSUME NEW i \in 1..M PROVE i \in visited <=> i \in supplies /\ events[ids[i]].ts <= ts
  <2>1. i \in visited => i \in supplies /\ rs[i].ts <= ts
    BY <1>1
  <2>2. ASSUME i \in supplies, events[ids[i]].ts <= ts, NEW j \in supplies, j <= i
        PROVE  rs[j].ts <= ts
    <3>1. j \in 1..M /\ (j < i \/ j = i)
      BY <1>1, <1>6, <2>2
    <3>2. events[ids[j]].ts <= events[ids[i]].ts
      BY <1>2, <1>4, <3>1
    <3>3. rs[j].ts = events[ids[j]].ts /\ events[ids[j]].ts \in Int /\ events[ids[i]].ts \in Int
      BY <1>1, <1>4, <3>1
    <3> QED
      BY <2>2, <3>2, <3>3
  <2> QED
    BY <1>1, <2>1, <2>2
<1>8. ASSUME NEW i \in 1..M PROVE i \in visited <=> ids[i] \in before
  <2>1. i \in supplies => events[ids[i]].ts >= -BASELINE
    <3>1. events[ids[i]].ts \in Int /\ InPeriod(events[ids[i]])
      BY <1>2, <1>4
    <3> DEFINE x == events[ids[i]].ts
    <3>2. x \in 0..WEEK - 1 \/ x \in -BASELINE..-1
      BY <3>1 DEF InPeriod
    <3> HIDE DEF x
    <3>3. x \in Int => x >= -BASELINE
      BY <3>2 DEF WEEK, BASELINE
    <3> QED
      BY <3>1, <3>3 DEF x
  <2>2. ids[i] \in ToSet(ids) /\ -BASELINE \in Int
    BY <1>1 DEF BASELINE
  <2>3. events[ids[i]].ts \in -BASELINE..ts
          <=> events[ids[i]].ts >= -BASELINE /\ events[ids[i]].ts <= ts
    BY <1>4, <2>2
  <2> QED
    BY <1>5, <1>7, <2>1, <2>2, <2>3 DEF Priced
<1>9. before \subseteq {ids[i] : i \in 1..M} /\ visited \subseteq 1..M
  BY <1>1, <1>6 DEF Priced
<1> HIDE DEF visited
<1>10. CASE visited = {}
  <2>1. before = {}
    BY <1>8, <1>9, <1>10
  <2> QED
    BY <1>3, <1>10, <2>1 DEF rs
<1>11. CASE visited # {}
  <2> DEFINE top == Max(visited)
  <2>1. top \in visited /\ \A i \in visited : i <= top
    <3> DEFINE rest == {M - i : i \in visited}
    <3>1. rest \subseteq Nat /\ rest # {}
      <4>1. \A i \in visited : i \in 1..M
        BY <1>9
      <4>2. \A i \in visited : M - i \in Nat
        BY <1>1, <4>1
      <4> QED
        BY <1>11, <4>2
    <3>2. PICK x \in rest : \A y \in rest : x <= y
      <4> HIDE DEF rest
      <4> QED
        BY <3>1, LeastNumber
    <3>3. PICK m \in visited : x = M - m
      BY <3>2
    <3>4. ASSUME NEW i \in visited PROVE m >= i
      <4>1. M - m <= M - i
        BY <3>2, <3>3
      <4>2. m \in Int /\ i \in Int
        BY <1>9
      <4> QED
        BY <1>1, <4>1, <4>2
    <3>5. \E a \in visited : \A i \in visited : a >= i
      BY <3>4
    <3>6. top \in visited /\ \A i \in visited : top >= i
      BY <3>5 DEF Max
    <3> HIDE DEF top
    <3>7. top \in Int /\ \A i \in visited : i \in Int
      <4>1. \A i \in visited : i \in 1..M
        BY <1>9
      <4> QED
        BY <3>6, <4>1
    <3> QED
      BY <3>6, <3>7
  <2> HIDE DEF top
  <2>2. top \in 1..M /\ ids[top] \in before
    BY <1>8, <1>9, <2>1
  <2>3. ASSUME NEW k \in before PROVE events[k].ts <= events[ids[top]].ts
    <3>1. PICK i \in 1..M : k = ids[i]
      BY <1>9
    <3>2. i \in visited
      BY <1>8, <3>1
    <3>3. i < top \/ i = top
      BY <1>1, <2>1, <2>2, <3>2
    <3> QED
      BY <1>2, <1>4, <2>2, <3>1, <3>3
  <2>4. latest_cost(rs, ts) = events[ids[top]].unit_cost
    BY <1>1, <1>3, <1>11, <2>2 DEF top
  <2> QED
    BY <2>2, <2>3, <2>4 DEF rs
<1> QED
  BY <1>10, <1>11

\* The cost of the wastes that have a price, and how many have none.
IsCostOf(figures, waste, valued, of) ==
    /\ \E at \in [valued -> of] :
          /\ \A k \in valued : at[k] \in ValuedAt(of, k)
          /\ figures.total = SumOf([k \in DOMAIN events |->
                IF k \in valued THEN events[k].quantity * events[at[k]].unit_cost ELSE 0])
    /\ figures.missing = Cardinality(waste \ valued)

\* A waste has the price of one of the latest supplies before it, if any.
LEMMA WasteAsDefined ==
  ASSUME events \in Seq(Record), NEW ids, Listed(ids),
         NEW of, of = ToSet(ids),
         NEW waste, waste = {k \in Counted(of, "waste") : events[k].names = "both"},
         NEW valued, valued = {k \in waste : ValuedAt(of, k) # {}}
  PROVE  IsCostOf(compute_waste_costs(Rs(ids)), waste, valued, of)
<1> DEFINE rs == Rs(ids)
           N == Len(events)
           M == Len(ids)
           exits == {k \in DOMAIN rs : /\ rs[k].event_type = "waste" /\ InWeek(rs[k])
                                       /\ Named(rs[k]) /\ rs[k].quantity # Missing}
           cost == [k \in DOMAIN rs |-> latest_cost(rs, rs[k].ts)]
           known == {k \in exits : cost[k] # Missing}
           f == [k \in DOMAIN rs |-> rs[k].quantity * cost[k]]
           price(k) == latest_cost(rs, events[k].ts)
           at == [k \in valued |-> CHOOSE j \in ValuedAt(of, k) : price(k) = events[j].unit_cost]
           a == [k \in DOMAIN events |->
                   IF k \in valued THEN events[k].quantity * events[at[k]].unit_cost ELSE 0]
<1>1. /\ N \in Nat /\ M \in Nat /\ Picks(ids, N)
      /\ DOMAIN events = 1..N /\ DOMAIN rs = 1..M
      /\ \A i \in 1..M : /\ rs[i] = events[ids[i]]
                         /\ ids[i] \in 1..N /\ events[ids[i]] \in Record
      /\ of = {ids[i] : i \in 1..M}
      /\ of \subseteq 1..N
  BY RecordsRead
<1>2. /\ compute_waste_costs(rs).total = Adds(f, known)
      /\ compute_waste_costs(rs).missing = Counts(rs, exits \ known)
  BY DEF compute_waste_costs
<1>3. ASSUME NEW k \in 1..N, events[k] \in Record
      PROVE  \/ ValuedAt(of, k) = {} /\ price(k) = Missing
             \/ \E j \in ValuedAt(of, k) : /\ price(k) = events[j].unit_cost
                                           /\ j \in of /\ events[j].unit_cost # Missing
  <2> DEFINE before == Priced(of, -BASELINE, events[k].ts)
  <2>1. ValuedAt(of, k) = {j \in before : \A i \in before : events[i].ts <= events[j].ts}
    BY DEF ValuedAt
  <2>2. events[k].ts \in Int
    BY <1>3 DEF Record
  <2>3. \A j \in before : j \in of /\ events[j].unit_cost # Missing
    BY DEF Priced
  <2>4. \/ before = {} /\ price(k) = Missing
        \/ \E j \in before : /\ \A i \in before : events[i].ts <= events[j].ts
                             /\ price(k) = events[j].unit_cost
    BY <2>2, LatestAsDefined
  <2> HIDE DEF before, price
  <2> QED
    BY <2>1, <2>3, <2>4
<1> HIDE DEF rs, M, N, price
<1>4. \A k \in of : events[k] \in Record /\ k \in 1..N
  BY <1>1
<1>5. waste \subseteq of /\ valued \subseteq waste
  BY DEF Counted, Of
<1>6. \A k \in waste : k \in valued <=> price(k) # Missing
  <2> TAKE k \in waste
  <2>1. k \in valued <=> ValuedAt(of, k) # {}
    OBVIOUS
  <2> QED
    BY <1>3, <1>4, <1>5, <2>1
<1>7. ASSUME NEW k \in valued
      PROVE  /\ at[k] \in ValuedAt(of, k) /\ at[k] \in of
             /\ price(k) = events[at[k]].unit_cost /\ price(k) # Missing
  <2>1. ValuedAt(of, k) # {} /\ k \in 1..N /\ events[k] \in Record
    BY <1>4, <1>5
  <2>2. \E j \in ValuedAt(of, k) : price(k) = events[j].unit_cost
    BY <1>3, <2>1
  <2>3. at[k] \in ValuedAt(of, k) /\ price(k) = events[at[k]].unit_cost
    BY <2>2
  <2>4. ValuedAt(of, k) \subseteq of
    BY DEF ValuedAt, Priced
  <2> HIDE DEF at
  <2> QED
    BY <1>5, <1>6, <2>3, <2>4
<1>8. at \in [valued -> of]
  BY <1>7
<1>9. ASSUME NEW i \in 1..M
      PROVE  /\ i \in exits <=> ids[i] \in waste
             /\ i \in known <=> ids[i] \in valued
             /\ cost[i] = price(ids[i])
  <2>1. /\ rs[i] = events[ids[i]] /\ ids[i] \in of
        /\ InWeek(events[ids[i]]) <=> events[ids[i]].ts \in 0..WEEK - 1
    BY <1>1, Windows
  <2>2. i \in exits <=> ids[i] \in waste
    BY <1>1, <2>1 DEF Counted, Of, Named
  <2>3. cost[i] = price(ids[i])
    BY <1>1 DEF price
  <2> HIDE DEF exits, cost
  <2> QED
    BY <1>5, <1>6, <2>2, <2>3
<1>10. \A i \in 1..M : f[i] = events[ids[i]].quantity * price(ids[i])
  <2> HIDE DEF cost
  <2> QED
    BY <1>1, <1>9
<1>11. DOMAIN f = 1..M
  BY <1>1
<1> HIDE DEF exits, cost, known, f, at
<1>12. \A k \in 1..N : a[k] = IF k \in valued THEN events[k].quantity * price(k) ELSE 0
  BY <1>1, <1>7
<1>13. \A k \in valued : events[k].quantity * price(k) \in Int
  <2> TAKE k \in valued
  <2>1. events[k] \in Record /\ events[k].quantity # Missing
    BY <1>4, <1>5 DEF Counted
  <2>2. events[at[k]] \in Record
    BY <1>4, <1>7
  <2>3. events[k].quantity \in Nat /\ price(k) \in Nat
    BY <1>7, <2>1, <2>2, Windows
  <2> QED
    BY <2>3
<1>14. DOMAIN a = 1..N
  BY <1>1
<1> HIDE DEF a
<1>15. a \in Seq(Int) /\ Len(a) = N
  <2>1. \A k \in 1..N : a[k] \in Int
    BY <1>12, <1>13
  <2>2. a = [k \in 1..N |-> a[k]]
    BY <1>1, <1>14 DEF a
  <2>3. a \in [1..N -> Int] /\ N \in Nat
    BY <1>1, <2>1, <2>2
  <2> QED
    BY <2>3
<1>16. Adds(f, known) = SumOf(a)
  <2>1. \A i \in 1..M : a[ids[i]] = IF i \in known THEN f[i] ELSE 0
    <3> TAKE i \in 1..M
    <3>1. ids[i] \in 1..N /\ (i \in known <=> ids[i] \in valued)
      BY <1>1, <1>9
    <3>2. f[i] = events[ids[i]].quantity * price(ids[i])
      BY <1>10
    <3> DEFINE amount(k) == events[k].quantity * price(k)
    <3>3. \A k \in 1..N : a[k] = IF k \in valued THEN amount(k) ELSE 0
      BY <1>12
    <3>4. f[i] = amount(ids[i])
      BY <3>2
    <3> HIDE DEF amount
    <3> QED
      BY <3>1, <3>3, <3>4
  <2>2. \A k \in 1..N : a[k] = 0 \/ \E i \in 1..M : ids[i] = k
    <3>1. \A k \in valued : \E i \in 1..M : ids[i] = k
      BY <1>1, <1>5
    <3> QED
      BY <1>12, <3>1
  <2> QED
    BY <1>1, <1>11, <1>15, <2>1, <2>2, LoopAdds DEF M
<1>17. Counts(rs, exits \ known) = Cardinality(waste \ valued)
  <2> DEFINE S == waste \ valued
             T == exits \ known
  <2>1. \A k \in S : k \in of
    BY <1>5
  <2>2. \A i \in 1..M : i \in T <=> ids[i] \in S
    BY <1>9
  <2> HIDE DEF S, T
  <2>3. \A k \in S : k \in 1..N /\ \E i \in 1..M : ids[i] = k
    BY <1>1, <2>1
  <2>4. Counts(rs, T) = Cardinality(S)
    BY <1>1, <2>2, <2>3, LoopCounts DEF M
  <2> QED
    BY <2>4 DEF S, T
<1>18. \A k \in valued : at[k] \in ValuedAt(of, k)
  BY <1>7
<1>19. compute_waste_costs(rs).total =
          SumOf([k \in DOMAIN events |->
             IF k \in valued THEN events[k].quantity * events[at[k]].unit_cost ELSE 0])
  BY <1>2, <1>16 DEF a, f, known, exits, cost
<1>20. compute_waste_costs(rs).missing = Cardinality(waste \ valued)
  BY <1>2, <1>17 DEF exits, known, cost
<1> QED
  BY <1>8, <1>18, <1>19, <1>20 DEF rs, IsCostOf


\* The numbers up to M that are to be kept, in their order.
Chosen(history, keep, M) ==
    /\ Len(history) \in Nat /\ DOMAIN history = 1..Len(history)
    /\ \A k \in 1..M : k \in keep => \E i \in 1..Len(history) : history[i] = k
    /\ \A i \in 1..Len(history) : history[i] \in 1..M /\ history[i] \in keep
    /\ \A i, j \in 1..Len(history) : i < j => history[i] # history[j]

\* The rows of history are those to be kept, one by one.
Takes(history, rows, keep) ==
    /\ Len(history) \in Nat /\ DOMAIN history = 1..Len(history)
    /\ \A k \in 1..Len(rows) : rows[k] \in keep =>
          \E i \in 1..Len(history) : history[i] = rows[k]
    /\ \E at \in [1..Len(history) -> 1..Len(rows)] :
          /\ \A i \in 1..Len(history) : history[i] = rows[at[i]] /\ rows[at[i]] \in keep
          /\ \A i, j \in 1..Len(history) : i < j => at[i] < at[j]

\* What Where returns, as one predicate.
LEMMA WhereTakes ==
  ASSUME NEW S, NEW rows \in Seq(S), NEW keep
  PROVE  Takes(Where(rows, keep), rows, keep)
<1> DEFINE history == Where(rows, keep)
<1>1. /\ history \in Seq(S)
      /\ \A k \in 1..Len(rows) : rows[k] \in keep =>
            \E i \in 1..Len(history) : history[i] = rows[k]
      /\ \E at \in [1..Len(history) -> 1..Len(rows)] :
            /\ \A i \in 1..Len(history) : history[i] = rows[at[i]] /\ rows[at[i]] \in keep
            /\ \A i, j \in 1..Len(history) : i < j => at[i] < at[j]
  BY WhereKeeps
<1> HIDE DEF history
<1> QED
  BY <1>1 DEF Takes, history

\* Of the first M numbers, Where returns each that is to be kept once.
LEMMA WhereChooses ==
  ASSUME NEW M \in Nat, NEW rows, \E S : rows \in Seq(S), Len(rows) = M,
         \A k \in 1..M : rows[k] = k,
         NEW keep
  PROVE  Chosen(Where(rows, keep), keep, M)
<1> DEFINE history == Where(rows, keep)
<1>1. Takes(history, rows, keep)
  BY WhereTakes
<1> HIDE DEF history
<1>2. PICK at \in [1..Len(history) -> 1..Len(rows)] :
            /\ \A i \in 1..Len(history) : history[i] = rows[at[i]] /\ rows[at[i]] \in keep
            /\ \A i, j \in 1..Len(history) : i < j => at[i] < at[j]
  BY <1>1 DEF Takes
<1>3. \A i \in 1..Len(history) : at[i] \in 1..M /\ history[i] = at[i]
  BY <1>2
<1>4. \A k \in 1..M : k \in keep => \E i \in 1..Len(history) : history[i] = k
  BY <1>1 DEF Takes
<1>5. \A i \in 1..Len(history) : history[i] \in 1..M /\ history[i] \in keep
  BY <1>2, <1>3
<1>6. \A i, j \in 1..Len(history) : i < j => history[i] # history[j]
  <2> TAKE i, j \in 1..Len(history)
  <2>1. at[i] \in Int /\ at[j] \in Int
    BY <1>3
  <2> QED
    BY <1>2, <1>3, <2>1
<1>7. Len(history) \in Nat /\ DOMAIN history = 1..Len(history)
  BY <1>1 DEF Takes
<1> QED
  BY <1>4, <1>5, <1>6, <1>7 DEF history, Chosen

\* A loop over the records of the supplies alerts at the prices out of line.
LEMMA AlertsAsDefined ==
  ASSUME events \in Seq(Record), NEW ids, Listed(ids),
         NEW of, of = ToSet(ids),
         NEW before, before = Priced(of, -BASELINE, -1),
         NEW prior, prior = EarlierPrices(of)
  PROVE  compute_price_alert_counts(Rs(ids)) =
            Cardinality({k \in Priced(of, 0, WEEK - 1) : OutOfLine(prior, events[k].unit_cost)})
<1> DEFINE rs == Rs(ids)
           N == Len(events)
           M == Len(ids)
           rows == [k \in DOMAIN rs |-> k]
           earlier == {k \in Supplies(rs) : in_window(rs[k].ts, -BASELINE, 0)}
           history == Where(rows, earlier)
           costs == [k \in DOMAIN history |-> rs[history[k]].unit_cost]
           base == IF Len(costs) < 2 THEN 0 ELSE Median_doubled(costs)
           away(c) == IF 2 * c > base THEN 2 * c - base ELSE base - 2 * c
           T == {k \in Supplies(rs) : InWeek(rs[k]) /\ 4 * away(rs[k].unit_cost) > base}
           S == {k \in Priced(of, 0, WEEK - 1) : OutOfLine(prior, events[k].unit_cost)}
<1>1. /\ N \in Nat /\ M \in Nat /\ Picks(ids, N)
      /\ DOMAIN events = 1..N /\ DOMAIN rs = 1..M
      /\ \A i \in 1..M : /\ rs[i] = events[ids[i]]
                         /\ ids[i] \in 1..N /\ events[ids[i]] \in Record
      /\ of = {ids[i] : i \in 1..M}
      /\ of \subseteq 1..N
  BY RecordsRead
<1>2. compute_price_alert_counts(rs) = IF base = 0 THEN 0 ELSE Counts(rs, T)
  BY DEF compute_price_alert_counts
<1>3. \A i \in 1..M : i \in Supplies(rs) <=> /\ events[ids[i]].event_type = "supply"
                                             /\ events[ids[i]].names = "both"
                                             /\ events[ids[i]].unit_cost # Missing
  BY <1>1 DEF Supplies, Named
<1>4. Supplies(rs) \subseteq 1..M
  BY <1>1 DEF Supplies
<1> HIDE DEF rs, M, N
<1>5. ASSUME NEW i \in 1..M
      PROVE  /\ i \in earlier <=> ids[i] \in before
             /\ i \in Supplies(rs) /\ InWeek(rs[i]) <=> ids[i] \in Priced(of, 0, WEEK - 1)
  <2>1. /\ rs[i] = events[ids[i]] /\ ids[i] \in of
        /\ InWeek(events[ids[i]]) <=> events[ids[i]].ts \in 0..WEEK - 1
        /\ in_window(events[ids[i]].ts, -BASELINE, 0) <=> events[ids[i]].ts \in -BASELINE..-1
    BY <1>1, Windows
  <2> QED
    BY <1>1, <1>3, <2>1 DEF Priced
<1>6. earlier \subseteq 1..M
  BY <1>4
<1>7. rows \in Seq(Int) /\ Len(rows) = M /\ \A k \in 1..M : rows[k] = k
  BY <1>1
<1> HIDE DEF earlier, rows
<1>8. Chosen(history, earlier, M)
  <2> HIDE DEF M
  <2>1. \E Q : rows \in Seq(Q)
    BY <1>7
  <2> QED
    BY <1>1, <1>7, <2>1, WhereChooses
<1> HIDE DEF history
<1> DEFINE n == Len(history)
           h == [i \in 1..n |-> ids[history[i]]]
<1>9. n \in Nat /\ DOMAIN history = 1..n /\ \A i \in 1..n : history[i] \in 1..M
  BY <1>8 DEF Chosen
<1>10. \A i \in 1..n : h[i] = ids[history[i]] /\ h[i] \in before
  BY <1>5, <1>8, <1>9 DEF Chosen
<1>11. \A k \in before : \E i \in 1..n : h[i] = k
  <2> TAKE k \in before
  <2>1. k \in of
    BY DEF Priced
  <2>2. PICK m \in 1..M : ids[m] = k
    BY <1>1, <2>1
  <2>3. PICK i \in 1..n : history[i] = m
    BY <1>5, <1>8, <2>2 DEF Chosen
  <2> QED
    BY <2>2, <2>3
<1>12. \A i, j \in 1..n : h[i] = h[j] => i = j
  <2> TAKE i, j \in 1..n
  <2>1. i < j \/ j < i \/ i = j
    BY <1>9
  <2>2. i # j => history[i] # history[j]
    BY <1>8, <2>1 DEF Chosen
  <2>3. \A x, y \in 1..M : x # y => ids[x] # ids[y]
    BY DEF Picks, Listed, M
  <2> QED
    BY <1>9, <1>10, <2>2, <2>3
<1>13. h \in [1..n -> before]
  BY <1>10
<1> HIDE DEF h
<1>14. h \in Bijection(1..n, before)
  BY <1>11, <1>12, <1>13 DEF Bijection, Injection, Surjection, IsInjective
<1>15. IsFiniteSet(before) /\ Cardinality(before) = n
  <2>1. h \in Surjection(1..n, before) /\ h \in Injection(1..n, before)
    BY <1>14 DEF Bijection
  <2>2. IsFiniteSet(1..n) /\ Cardinality(1..n) = n
    <3> HIDE DEF n
    <3> QED
      BY <1>9, FS_Interval
  <2> HIDE DEF n
  <2> QED
    BY <2>1, <2>2, FS_Surjection
<1>16. /\ costs \in Seq(Nat) /\ Len(costs) = n
       /\ \A i \in 1..n : costs[i] = prior[h[i]]
       /\ before = DOMAIN prior
  <2>1. ASSUME NEW i \in 1..n
        PROVE  costs[i] = events[h[i]].unit_cost /\ costs[i] \in Nat
    <3>1. costs[i] = rs[history[i]].unit_cost /\ history[i] \in 1..M
      BY <1>9
    <3>2. costs[i] = events[h[i]].unit_cost /\ events[h[i]] \in Record
      BY <1>1, <1>9, <1>10, <3>1
    <3>3. events[h[i]].unit_cost # Missing
      BY <1>10 DEF Priced
    <3> HIDE DEF costs
    <3> QED
      BY <3>2, <3>3, Windows
  <2>2. costs \in [1..n -> Nat]
    BY <1>9, <2>1
  <2>3. before = DOMAIN prior /\ \A k \in before : prior[k] = events[k].unit_cost
    BY DEF EarlierPrices
  <2>4. \A i \in 1..n : costs[i] = prior[h[i]]
    BY <1>10, <2>1, <2>3
  <2>5. costs \in Seq(Nat) /\ Len(costs) = n
    <3> HIDE DEF costs, n
    <3> QED
      BY <1>9, <2>2
  <2> QED
    BY <2>3, <2>4, <2>5
<1> HIDE DEF costs
<1> DEFINE twice == Nth(prior, (n + 1) \div 2) + Nth(prior, n \div 2 + 1)
<1>17. n >= 2 => base = twice /\ twice \in Nat
  <2> HIDE DEF n
  <2>1. n >= 2 => Len(costs) >= 1 /\ ~(Len(costs) < 2)
    BY <1>9, <1>16
  <2>2. n >= 1 => Median_doubled(costs) = twice /\ Median_doubled(costs) \in Nat
    BY <1>14, <1>16, MedianIsMiddle
  <2> HIDE DEF twice
  <2> QED
    BY <1>9, <2>1, <2>2
<1>18. n < 2 => base = 0
  BY <1>16
<1>19. \A c : OutOfLine(prior, c) <=>
                n >= 2 /\ twice > 0 /\ (8 * c > 5 * twice \/ 8 * c < 3 * twice)
  <2> HIDE DEF n
  <2> QED
    BY <1>15, <1>16 DEF OutOfLine
<1> HIDE DEF base, twice, n
<1>20. CASE base = 0
  <2>1. ~(n >= 2 /\ twice > 0)
    BY <1>17, <1>20
  <2>2. S = {}
    BY <1>19, <2>1
  <2> QED
    BY <1>2, <1>20, <2>2, FS_EmptySet DEF rs
<1>21. CASE base # 0
  <2>1. n >= 2 /\ base = twice /\ twice \in Nat /\ twice > 0
    BY <1>9, <1>17, <1>18, <1>21
  <2>2. ASSUME NEW i \in 1..M PROVE i \in T <=> ids[i] \in S
    <3>1. rs[i] = events[ids[i]]
      BY <1>1
    <3> DEFINE c == rs[i].unit_cost
    <3>2. i \in T <=> i \in Supplies(rs) /\ InWeek(rs[i]) /\ 4 * away(c) > base
      OBVIOUS
    <3>3. ids[i] \in S <=> ids[i] \in Priced(of, 0, WEEK - 1) /\ OutOfLine(prior, c)
      BY <3>1
    <3>4. i \in Supplies(rs) => c \in Nat
      BY <1>1, <1>3, <3>1, Windows
    <3>5. ASSUME c \in Nat PROVE 4 * away(c) > base <=> OutOfLine(prior, c)
      <4> HIDE DEF c
      <4>1. OutOfLine(prior, c) <=> 8 * c > 5 * twice \/ 8 * c < 3 * twice
        BY <1>19, <2>1
      <4> QED
        BY <2>1, <3>5, <4>1
    <3> HIDE DEF c, T, S
    <3> QED
      BY <1>5, <3>2, <3>3, <3>4, <3>5
  <2>3. \A k \in S : k \in 1..N /\ \E i \in 1..M : ids[i] = k
    BY <1>1 DEF Priced
  <2> HIDE DEF S, T
  <2>4. Counts(rs, T) = Cardinality(S)
    BY <1>1, <2>2, <2>3, LoopCounts DEF M
  <2> QED
    BY <1>2, <1>21, <2>4 DEF rs, S
<1> QED
  BY <1>20, <1>21


-----------------------------------------------------------------------------
(* The flow.                                                              *)

\* Every figure of the transform is the one that is defined.
LEMMA TransformAsDefined ==
  ASSUME events \in Seq(Record), NEW ids, Listed(ids)
  PROVE  AsDefined(transform_week(Rs(ids)), ToSet(ids))
<1> DEFINE of == ToSet(ids)
           row == transform_week(Rs(ids))
<1>1. /\ row.purchase = compute_purchase_costs(Rs(ids)).total
      /\ row.waste = compute_waste_costs(Rs(ids)).total
      /\ row.missing = compute_purchase_costs(Rs(ids)).missing
                         + compute_waste_costs(Rs(ids)).missing
      /\ row.stockouts = compute_stockout_counts(Rs(ids))
      /\ row.alerts = compute_price_alert_counts(Rs(ids))
  BY DEF transform_week
<1> HIDE DEF row
<1>2. /\ compute_purchase_costs(Rs(ids)).total =
            SumOf([k \in DOMAIN events |->
               IF k \in Bought(of) THEN events[k].quantity * events[k].unit_cost ELSE 0])
      /\ compute_purchase_costs(Rs(ids)).missing
            = Cardinality(Counted(of, "supply") \ Bought(of))
  <2>1. Bought(of) = {k \in Counted(of, "supply") : events[k].unit_cost # Missing}
    BY DEF Bought
  <2> QED
    BY <2>1, PurchasesAsDefined
<1>3. IsCostOf(compute_waste_costs(Rs(ids)), Wasted(of), Valued(of), of)
  <2>1. /\ Wasted(of) = {k \in Counted(of, "waste") : events[k].names = "both"}
        /\ Valued(of) = {k \in Wasted(of) : ValuedAt(of, k) # {}}
    BY DEF Wasted, Valued
  <2> QED
    BY <2>1, WasteAsDefined
<1>4. compute_stockout_counts(Rs(ids)) = Cardinality(Of(of, "stockout"))
  BY StockoutsAsDefined
<1>5. compute_price_alert_counts(Rs(ids))
         = Cardinality({k \in Priced(of, 0, WEEK - 1) :
                          OutOfLine(EarlierPrices(of), events[k].unit_cost)})
  BY AlertsAsDefined
<1>6. \E at \in [Valued(of) -> of] :
         /\ \A k \in Valued(of) : at[k] \in ValuedAt(of, k)
         /\ row.waste = SumOf([k \in DOMAIN events |->
               IF k \in Valued(of) THEN events[k].quantity * events[at[k]].unit_cost ELSE 0])
  BY <1>1, <1>3 DEF IsCostOf
<1>7. AsDefined(row, of)
  BY <1>1, <1>2, <1>3, <1>4, <1>5, <1>6 DEF AsDefined, IsCostOf
<1> QED
  BY <1>7 DEF row

-----------------------------------------------------------------------------
(* The flow.                                                              *)

Grown == events' = events \/ \E r : events' = Append(events, r)

\* What a row was computed from is as it was.
LEMMA SetsKept ==
  ASSUME NEW of, \A k \in of : events'[k] = events[k]
  PROVE  /\ \A type : Of(of, type)' = Of(of, type) /\ Counted(of, type)' = Counted(of, type)
         /\ \A from, to : Priced(of, from, to)' = Priced(of, from, to)
         /\ \A k \in of : ValuedAt(of, k)' = ValuedAt(of, k)
         /\ Bought(of)' = Bought(of) /\ Wasted(of)' = Wasted(of) /\ Valued(of)' = Valued(of)
         /\ EarlierPrices(of)' = EarlierPrices(of)
<1>1. ASSUME NEW type PROVE Of(of, type)' = Of(of, type)
  BY DEF Of
<1>2. ASSUME NEW type PROVE Counted(of, type)' = Counted(of, type)
  <2>1. Counted(of, type)' = {k \in Of(of, type) : events'[k].quantity # Missing}
    BY <1>1 DEF Counted, Missing
  <2>2. Of(of, type) \subseteq of
    BY DEF Of
  <2> QED
    BY <2>1, <2>2 DEF Counted
<1>3. ASSUME NEW from, NEW to PROVE Priced(of, from, to)' = Priced(of, from, to)
  BY DEF Priced, Missing
<1>4. ASSUME NEW k \in of PROVE ValuedAt(of, k)' = ValuedAt(of, k)
  <2> DEFINE before == Priced(of, -BASELINE, events[k].ts)
  <2>1. Priced(of, -BASELINE, events[k].ts)' = before
    BY DEF Priced, Missing, BASELINE
  <2>2. ValuedAt(of, k) = {j \in before : \A i \in before : events[i].ts <= events[j].ts}
    BY DEF ValuedAt
  <2>3. ValuedAt(of, k)' = {j \in before : \A i \in before : events'[i].ts <= events'[j].ts}
    <3> HIDE DEF before
    <3> QED
      BY <2>1 DEF ValuedAt
  <2>4. before \subseteq of
    BY DEF Priced
  <2> HIDE DEF before
  <2> QED
    BY <2>2, <2>3, <2>4
<1>5. Bought(of)' = Bought(of) /\ Wasted(of)' = Wasted(of)
  <2>1. /\ Bought(of)' = {k \in Counted(of, "supply") : events'[k].unit_cost # Missing}
        /\ Wasted(of)' = {k \in Counted(of, "waste") : events'[k].names = "both"}
    BY <1>2 DEF Bought, Wasted, Missing
  <2>2. Counted(of, "supply") \subseteq of /\ Counted(of, "waste") \subseteq of
    BY DEF Counted, Of
  <2> QED
    BY <2>1, <2>2 DEF Bought, Wasted
<1>6. Valued(of)' = Valued(of)
  <2>1. Valued(of)' = {k \in Wasted(of) : ValuedAt(of, k)' # {}}
    BY <1>5 DEF Valued
  <2>2. Wasted(of) \subseteq of
    BY DEF Wasted, Counted, Of
  <2> QED
    BY <1>4, <2>1, <2>2 DEF Valued
<1>7. EarlierPrices(of)' = EarlierPrices(of)
  <2>1. EarlierPrices(of)' = [k \in Priced(of, -BASELINE, -1) |-> events'[k].unit_cost]
    BY <1>3 DEF EarlierPrices, BASELINE
  <2>2. Priced(of, -BASELINE, -1) \subseteq of
    BY DEF Priced
  <2> QED
    BY <2>1, <2>2 DEF EarlierPrices
<1> QED
  BY <1>1, <1>2, <1>3, <1>4, <1>5, <1>6, <1>7

\* An event that came later adds nothing.
LEMMA SumKept ==
  ASSUME events \in Seq(Record), Grown, NEW S, S \subseteq DOMAIN events,
         NEW amount \in [S -> Int]
  PROVE  SumOf([k \in DOMAIN events' |-> IF k \in S THEN amount[k] ELSE 0])
            = SumOf([k \in DOMAIN events |-> IF k \in S THEN amount[k] ELSE 0])
<1> DEFINE N == Len(events)
           a == [k \in DOMAIN events |-> IF k \in S THEN amount[k] ELSE 0]
           b == [k \in DOMAIN events' |-> IF k \in S THEN amount[k] ELSE 0]
<1>1. N \in Nat /\ DOMAIN events = 1..N
  OBVIOUS
<1>2. a \in Seq(Int) /\ Len(a) = N
  BY <1>1
<1>3. CASE DOMAIN events' = DOMAIN events
  BY <1>3
<1>4. CASE DOMAIN events' = 1..N + 1
  <2>1. b \in Seq(Int) /\ Len(b) = N + 1
    BY <1>1, <1>4
  <2>2. \A k \in 1..N : b[k] = a[k]
    BY <1>1, <1>4
  <2>3. b[N + 1] = 0
    <3>1. N + 1 \notin S /\ N + 1 \in 1..N + 1
      BY <1>1
    <3> QED
      BY <1>4, <3>1
  <2> HIDE DEF a, b, N
  <2>4. b = Append(a, 0)
    BY <1>1, <1>2, <2>1, <2>2, <2>3
  <2>5. SumOf(b) = SumOf(a)
    BY <1>2, <2>4, SumOfOneMore
  <2> QED
    BY <2>5 DEF a, b
<1> QED
  BY <1>1, <1>3, <1>4 DEF Grown

\* A row that is right, of all the events that there were.
Good(row, of) == AsDefined(row, of) /\ Complete(of)

\* What was complete when it was read stays so: events are only added.
LEMMA CompleteKept ==
  ASSUME events \in Seq(Record), Grown, NEW of, Complete(of)
  PROVE  /\ of \subseteq DOMAIN events /\ \A k \in of : events'[k] = events[k]
         /\ Complete(of)'
<1>1. PICK stored \in 0..Len(events) :
         of = {k \in 1..stored : \/ events[k].ts \in 0..WEEK - 1
                                 \/ /\ events[k].event_type = "supply"
                                    /\ events[k].ts \in -BASELINE..-1}
  BY DEF Complete
<1>2. /\ DOMAIN events = 1..Len(events) /\ Len(events) \in Nat /\ stored \in 0..Len(events')
      /\ \A k \in 1..Len(events) : events'[k] = events[k]
  BY DEF Grown
<1>3. 1..stored \subseteq 1..Len(events)
  BY <1>2
<1>4. of = {k \in 1..stored : \/ events'[k].ts \in 0..WEEK - 1
                              \/ /\ events'[k].event_type = "supply"
                                 /\ events'[k].ts \in -BASELINE..-1}
  BY <1>1, <1>2, <1>3
<1>5. Complete(of)'
  BY <1>2, <1>4 DEF Complete, WEEK, BASELINE
<1> QED
  BY <1>1, <1>2, <1>3, <1>5

\* A figure reads only the events behind it, and those never change.
LEMMA GoodKept ==
  ASSUME events \in Seq(Record), Grown, NEW row, NEW of, Good(row, of)
  PROVE  Good(row, of)'
<1> DEFINE bought == Bought(of)
           valued == Valued(of)
           week == Priced(of, 0, WEEK - 1)
<1>1. /\ of \subseteq DOMAIN events /\ \A k \in of : events'[k] = events[k]
      /\ Complete(of)'
  BY CompleteKept DEF Good
<1>2. /\ \A type : Of(of, type)' = Of(of, type) /\ Counted(of, type)' = Counted(of, type)
      /\ \A from, to : Priced(of, from, to)' = Priced(of, from, to)
      /\ \A k \in of : ValuedAt(of, k)' = ValuedAt(of, k)
      /\ Bought(of)' = Bought(of) /\ Wasted(of)' = Wasted(of) /\ Valued(of)' = Valued(of)
      /\ EarlierPrices(of)' = EarlierPrices(of)
  BY <1>1, SetsKept
<1>3. \A k \in of : events[k] \in Record
  BY <1>1
<1>4. bought \subseteq of /\ valued \subseteq of /\ week \subseteq of
  BY DEF Bought, Valued, Wasted, Counted, Of, Priced
<1>5. row.purchase = SumOf([k \in DOMAIN events' |->
         IF k \in bought THEN events'[k].quantity * events'[k].unit_cost ELSE 0])
  <2> DEFINE amount == [k \in bought |-> events[k].quantity * events[k].unit_cost]
  <2>1. row.purchase = SumOf([k \in DOMAIN events |->
           IF k \in bought THEN events[k].quantity * events[k].unit_cost ELSE 0])
    BY DEF Good, AsDefined
  <2>2. amount \in [bought -> Int]
    <3>1. ASSUME NEW k \in bought PROVE events[k].quantity \in Nat /\ events[k].unit_cost \in Nat
      <4>1. events[k] \in Record /\ events[k].quantity # Missing /\ events[k].unit_cost # Missing
        BY <1>3, <1>4 DEF Bought, Counted
      <4> QED
        BY <4>1, Windows
    <3>2. \A k \in bought : events[k].quantity * events[k].unit_cost \in Int
      BY <3>1
    <3> HIDE DEF bought
    <3> QED
      BY <3>2
  <2> HIDE DEF bought
  <2>3. [k \in DOMAIN events |->
           IF k \in bought THEN events[k].quantity * events[k].unit_cost ELSE 0]
          = [k \in DOMAIN events |-> IF k \in bought THEN amount[k] ELSE 0]
    OBVIOUS
  <2>4. [k \in DOMAIN events' |->
           IF k \in bought THEN events'[k].quantity * events'[k].unit_cost ELSE 0]
          = [k \in DOMAIN events' |-> IF k \in bought THEN amount[k] ELSE 0]
    BY <1>1, <1>4
  <2> HIDE DEF amount
  <2>5. SumOf([k \in DOMAIN events' |-> IF k \in bought THEN amount[k] ELSE 0])
          = SumOf([k \in DOMAIN events |-> IF k \in bought THEN amount[k] ELSE 0])
    BY <1>1, <1>4, <2>2, SumKept
  <2> QED
    BY <2>1, <2>3, <2>4, <2>5
<1>6. \E at \in [valued -> of] :
         /\ \A k \in valued : at[k] \in ValuedAt(of, k)'
         /\ row.waste = SumOf([k \in DOMAIN events' |->
               IF k \in valued THEN events'[k].quantity * events'[at[k]].unit_cost ELSE 0])
  <2>1. PICK at \in [valued -> of] :
           /\ \A k \in valued : at[k] \in ValuedAt(of, k)
           /\ row.waste = SumOf([k \in DOMAIN events |->
                 IF k \in valued THEN events[k].quantity * events[at[k]].unit_cost ELSE 0])
    BY DEF Good, AsDefined
  <2> DEFINE amount == [k \in valued |-> events[k].quantity * events[at[k]].unit_cost]
  <2>2. amount \in [valued -> Int]
    <3>1. ASSUME NEW k \in valued
          PROVE  events[k].quantity \in Nat /\ events[at[k]].unit_cost \in Nat
      <4>1. events[k] \in Record /\ events[k].quantity # Missing
        BY <1>3, <1>4 DEF Valued, Wasted, Counted
      <4>2. at[k] \in of /\ events[at[k]].unit_cost # Missing
        BY <2>1 DEF ValuedAt, Priced
      <4> QED
        BY <1>3, <4>1, <4>2, Windows
    <3>2. \A k \in valued : events[k].quantity * events[at[k]].unit_cost \in Int
      BY <3>1
    <3> HIDE DEF valued
    <3> QED
      BY <3>2
  <2> HIDE DEF valued
  <2>3. [k \in DOMAIN events |->
           IF k \in valued THEN events[k].quantity * events[at[k]].unit_cost ELSE 0]
          = [k \in DOMAIN events |-> IF k \in valued THEN amount[k] ELSE 0]
    OBVIOUS
  <2>4. [k \in DOMAIN events' |->
           IF k \in valued THEN events'[k].quantity * events'[at[k]].unit_cost ELSE 0]
          = [k \in DOMAIN events' |-> IF k \in valued THEN amount[k] ELSE 0]
    <3>1. \A k \in valued : k \in of /\ at[k] \in of
      BY <1>4
    <3> QED
      BY <1>1, <3>1
  <2> HIDE DEF amount
  <2>5. SumOf([k \in DOMAIN events' |-> IF k \in valued THEN amount[k] ELSE 0])
          = SumOf([k \in DOMAIN events |-> IF k \in valued THEN amount[k] ELSE 0])
    BY <1>1, <1>4, <2>2, SumKept
  <2>6. \A k \in valued : at[k] \in ValuedAt(of, k)'
    BY <1>2, <1>4, <2>1
  <2> QED
    BY <2>1, <2>3, <2>4, <2>5, <2>6
<1>7. row.missing = Cardinality(Counted(of, "supply")' \ Bought(of)')
                      + Cardinality(Wasted(of)' \ Valued(of)')
  BY <1>2 DEF Good, AsDefined
<1>8. row.stockouts = Cardinality(Of(of, "stockout")')
  BY <1>2 DEF Good, AsDefined
<1>9. row.alerts = Cardinality({k \in Priced(of, 0, WEEK - 1)' :
                                  OutOfLine(EarlierPrices(of)', events'[k].unit_cost)})
  <2>1. row.alerts = Cardinality({k \in week : OutOfLine(EarlierPrices(of), events[k].unit_cost)})
    BY DEF Good, AsDefined
  <2>2. {k \in week : OutOfLine(EarlierPrices(of), events[k].unit_cost)}
          = {k \in week : OutOfLine(EarlierPrices(of), events'[k].unit_cost)}
    BY <1>1, <1>4
  <2>3. Priced(of, 0, WEEK - 1)' = week
    BY <1>2 DEF WEEK
  <2> HIDE DEF week
  <2> QED
    BY <1>2, <2>1, <2>2, <2>3
<1>10. AsDefined(row, of)'
  <2>1. bought = Bought(of)' /\ valued = Valued(of)'
    BY <1>2
  <2> HIDE DEF bought, valued
  <2> QED
    BY <1>5, <1>6, <1>7, <1>8, <1>9, <2>1 DEF AsDefined, WEEK
<1> QED
  BY <1>1, <1>10 DEF Good

\* What the query returns are all the events of the period, in their order.
LEMMA QueryReturns ==
  ASSUME events \in Seq(Record), NEW ids \in SetToSeqs(Fetched),
         \A j, k \in DOMAIN ids : j < k => events[ids[j]].ts <= events[ids[k]].ts
  PROVE  Listed(ids) /\ ToSet(ids) = Fetched /\ Complete(Fetched)
<1> DEFINE N == Len(events)
           n == Cardinality(Fetched)
<1>1. N \in Nat /\ DOMAIN events = 1..N /\ \A k \in 1..N : events[k] \in Record
  OBVIOUS
<1>2. \A k \in 1..N : k \in Fetched <=> InPeriod(events[k])
  <2> TAKE k \in 1..N
  <2>1. events[k].ts \in Int
    BY <1>1, Windows
  <2> DEFINE x == events[k].ts
  <2>2. k \in Fetched <=> \/ in_window(x, 0, WEEK)
                          \/ events[k].event_type = "supply" /\ in_window(x, -BASELINE, WEEK)
    BY <1>1 DEF Fetched
  <2>3. InPeriod(events[k]) <=> \/ x \in 0..WEEK - 1
                                \/ events[k].event_type = "supply" /\ x \in -BASELINE..-1
    BY DEF InPeriod
  <2> HIDE DEF x
  <2>4. x \in Int
    BY <2>1 DEF x
  <2> QED
    BY <2>2, <2>3, <2>4 DEF in_window, WEEK, BASELINE
<1>3. Fetched \subseteq 1..N
  BY DEF Fetched
<1>4. IsFiniteSet(Fetched) /\ n \in Nat
  <2>1. IsFiniteSet(1..N)
    BY <1>1, FS_Interval
  <2> HIDE DEF N
  <2>2. IsFiniteSet(Fetched)
    BY <1>3, <2>1, FS_Subset
  <2> QED
    BY <2>2, FS_CardinalityType
<1> HIDE DEF n
<1>5. ids \in [1..n -> Fetched] /\ \A i, j \in 1..n : i # j => ids[i] # ids[j]
  BY DEF SetToSeqs, n
<1>6. ids \in Seq(1..N) /\ Len(ids) = n /\ DOMAIN ids = 1..n
  <2> DEFINE M == 1..N
  <2>1. ids \in [1..n -> M]
    BY <1>3, <1>5
  <2> HIDE DEF M, N
  <2>2. n \in Nat
    BY <1>4
  <2>3. ids \in Seq(M)
    BY <2>1, <2>2
  <2>4. DOMAIN ids = 1..n
    BY <2>1
  <2>5. Len(ids) = n
    BY <2>2, <2>3, <2>4
  <2> QED
    BY <2>3, <2>4, <2>5 DEF M
<1>7. ids \in Surjection(1..n, Fetched)
  <2>1. ids \in Injection(1..n, Fetched)
    BY <1>5 DEF Injection, IsInjective
  <2>2. IsFiniteSet(1..n) /\ Cardinality(1..n) = n
    BY <1>4, FS_Interval
  <2>3. Cardinality(1..n) = Cardinality(Fetched)
    BY <2>2 DEF n
  <2> QED
    BY <1>4, <2>1, <2>3, FS_Injection
<1>8. ToSet(ids) = Fetched
  <2>1. ToSet(ids) = {ids[i] : i \in 1..n}
    BY <1>6 DEF ToSet
  <2>2. \A k \in Fetched : \E i \in 1..n : ids[i] = k
    BY <1>7 DEF Surjection
  <2> QED
    BY <1>5, <2>1, <2>2
<1>9. Listed(ids)
  <2>1. Picks(ids, N)
    BY <1>5, <1>6 DEF Picks
  <2>2. \A i, j \in 1..Len(ids) : i < j => events[ids[i]].ts <= events[ids[j]].ts
    BY <1>6
  <2>3. \A i \in 1..Len(ids) : InPeriod(events[ids[i]])
    BY <1>2, <1>3, <1>5, <1>6
  <2> QED
    BY <2>1, <2>2, <2>3 DEF Listed
<1>10. Complete(Fetched)
  <2>1. Fetched = {k \in 1..N : InPeriod(events[k])}
    BY <1>2, <1>3
  <2>2. N \in 0..N
    BY <1>1
  <2> QED
    BY <2>1, <2>2 DEF Complete, InPeriod
<1> QED
  BY <1>8, <1>9, <1>10

\* The ids of a query stay in the order of their events.
LEMMA ListedKept ==
  ASSUME events \in Seq(Record), Grown, NEW ids, Listed(ids)
  PROVE  Listed(ids)'
<1>1. /\ Len(events) \in Nat /\ Len(ids) \in Nat /\ Picks(ids, Len(events))
      /\ \A i \in 1..Len(ids) : ids[i] \in 1..Len(events)
      /\ DOMAIN events = 1..Len(events)
  BY RecordsRead
<1>2. /\ Len(events') \in Nat /\ Len(events) <= Len(events')
      /\ \A k \in 1..Len(events) : events'[k] = events[k]
  BY DEF Grown
<1>3. \A i \in 1..Len(ids) : events'[ids[i]] = events[ids[i]]
  BY <1>1, <1>2
<1>4. Picks(ids, Len(events'))
  <2>1. ids \in Seq(1..Len(events'))
    <3>1. ids \in [1..Len(ids) -> 1..Len(events')]
      BY <1>1, <1>2 DEF Picks
    <3> QED
      BY <1>1, <3>1
  <2> QED
    BY <1>1, <2>1 DEF Picks
<1>5. /\ \A i, j \in 1..Len(ids) : i < j => events'[ids[i]].ts <= events'[ids[j]].ts
      /\ \A i \in 1..Len(ids) : InPeriod(events'[ids[i]])
  BY <1>3 DEF Listed
<1> QED
  BY <1>4, <1>5 DEF Listed, InPeriod, WEEK, BASELINE

-----------------------------------------------------------------------------
(* The ids of the flow are a query of the events, its row and the rows of  *)
(* the cache and of the table are what their events come to.               *)
FlowGood ==
    \/ flow = NoFlow
    \/ \E ids : /\ flow = [pc |-> "transform", ids |-> ids, row |-> NoRow]
                /\ Listed(ids) /\ Complete(ToSet(ids))
    \/ \E ids, row : /\ flow = [pc |-> "load", ids |-> ids, row |-> row]
                     /\ Good(row, ToSet(ids))

CacheGood == \A c \in cache : \E key, row : c = [key |-> key, row |-> row] /\ Good(row, key)

TableGood ==
    kpis = NoKpis \/ \E row, of : /\ kpis = [loaded |-> TRUE, row |-> row, of |-> of]
                                  /\ Good(row, of)

KpisInv == events \in Seq(Record) /\ FlowGood /\ CacheGood /\ TableGood

\* Nothing is computed when a behaviour starts.
LEMMA KpisStart == KpisInit => KpisInv
BY DEF KpisInit, KpisInv, FlowGood, CacheGood, TableGood

\* Storing an event leaves the run, the cache and the table right.
LEMMA FlowKept == ASSUME KpisInv, Grown, flow' = flow PROVE FlowGood'
<1>1. CASE flow = NoFlow
  BY <1>1 DEF FlowGood, NoFlow, NoRow
<1>2. CASE \E ids : /\ flow = [pc |-> "transform", ids |-> ids, row |-> NoRow]
                    /\ Listed(ids) /\ Complete(ToSet(ids))
  <2>1. PICK ids : /\ flow = [pc |-> "transform", ids |-> ids, row |-> NoRow]
                   /\ Listed(ids) /\ Complete(ToSet(ids))
    BY <1>2
  <2>2. Listed(ids)'
    BY <2>1, ListedKept DEF KpisInv
  <2>3. Complete(ToSet(ids))'
    BY <2>1, CompleteKept DEF KpisInv
  <2>4. flow' = [pc |-> "transform", ids |-> ids, row |-> NoRow']
    BY <2>1 DEF NoRow
  <2> QED
    BY <2>2, <2>3, <2>4 DEF FlowGood
<1>3. CASE \E ids, row : /\ flow = [pc |-> "load", ids |-> ids, row |-> row]
                         /\ Good(row, ToSet(ids))
  <2>1. PICK ids, row : /\ flow = [pc |-> "load", ids |-> ids, row |-> row]
                        /\ Good(row, ToSet(ids))
    BY <1>3
  <2>2. Good(row, ToSet(ids))'
    BY <2>1, GoodKept DEF KpisInv
  <2> QED
    BY <2>1, <2>2 DEF FlowGood
<1> QED
  BY <1>1, <1>2, <1>3 DEF KpisInv, FlowGood

\* Also when the cache has lost entries.
LEMMA CacheKept == ASSUME KpisInv, Grown, cache' \subseteq cache PROVE CacheGood'
<1> SUFFICES ASSUME NEW c \in cache'
             PROVE  \E key, row : c = [key |-> key, row |-> row] /\ Good(row, key)'
  BY DEF CacheGood
<1>1. PICK key, row : c = [key |-> key, row |-> row] /\ Good(row, key)
  BY DEF KpisInv, CacheGood
<1>2. Good(row, key)'
  BY <1>1, GoodKept DEF KpisInv
<1> QED
  BY <1>1, <1>2

\* The table keeps the row of the last load.
LEMMA TableKept == ASSUME KpisInv, Grown, kpis' = kpis PROVE TableGood'
<1>1. CASE kpis = NoKpis
  BY <1>1 DEF TableGood, NoKpis, NoRow
<1>2. CASE \E row, of : kpis = [loaded |-> TRUE, row |-> row, of |-> of] /\ Good(row, of)
  <2>1. PICK row, of : kpis = [loaded |-> TRUE, row |-> row, of |-> of] /\ Good(row, of)
    BY <1>2
  <2>2. Good(row, of)'
    BY <2>1, GoodKept DEF KpisInv
  <2> QED
    BY <2>1, <2>2 DEF TableGood
<1> QED
  BY <1>1, <1>2 DEF KpisInv, TableGood

\* Every step keeps it; the transform puts a row there that is right,
\* computed or from the cache.
LEMMA KpisKept ==
  ASSUME KpisInv, [KpisNext]_kpis_vars
  PROVE  KpisInv'
<1>1. CASE extract_week
  <2>1. /\ Grown /\ events' = events /\ cache' \subseteq cache /\ kpis' = kpis
    BY <1>1 DEF extract_week, Grown
  <2>2. PICK ids \in SetToSeqs(Fetched) :
           /\ \A j, k \in DOMAIN ids : j < k => events[ids[j]].ts <= events[ids[k]].ts
           /\ flow' = [pc |-> "transform", ids |-> ids, row |-> NoRow]
    BY <1>1 DEF extract_week
  <2>3. Listed(ids) /\ Complete(ToSet(ids))
    BY <2>2, QueryReturns DEF KpisInv
  <2>4. Listed(ids)' /\ Complete(ToSet(ids))'
    BY <2>1, <2>3, ListedKept, CompleteKept DEF KpisInv
  <2>5. FlowGood'
    BY <2>2, <2>4 DEF FlowGood, NoRow
  <2> QED
    BY <2>1, <2>5, CacheKept, TableKept DEF KpisInv
<1>2. CASE transform_kpis
  <2>1. /\ Grown /\ events' = events /\ kpis' = kpis /\ flow.pc = "transform"
    BY <1>2 DEF transform_kpis, Grown
  <2>2. PICK ids : /\ flow = [pc |-> "transform", ids |-> ids, row |-> NoRow]
                   /\ Listed(ids) /\ Complete(ToSet(ids))
    BY <2>1 DEF KpisInv, FlowGood, NoFlow
  <2> DEFINE key == ToSet(ids)
             hit == {c \in cache : c.key = key}
             row == IF hit # {} THEN (CHOOSE c \in hit : TRUE).row ELSE transform_week(Rs(ids))
  <2>3. /\ flow' = [pc |-> "load", ids |-> ids, row |-> row]
        /\ cache' = cache \cup {[key |-> key, row |-> row]}
    BY <1>2, <2>2 DEF transform_kpis, transform_cache_key_fn, Rs
  <2>4. Good(row, key)
    <3>1. CASE hit # {}
      <4>1. PICK c \in hit : row = c.row
        BY <3>1
      <4>2. PICK k, w : c = [key |-> k, row |-> w] /\ Good(w, k)
        BY DEF KpisInv, CacheGood
      <4>3. k = key /\ w = row
        BY <4>1, <4>2
      <4> QED
        BY <4>2, <4>3
    <3>2. CASE hit = {}
      <4>1. row = transform_week(Rs(ids))
        BY <3>2
      <4>2. AsDefined(transform_week(Rs(ids)), key)
        BY <2>2, TransformAsDefined DEF KpisInv
      <4> HIDE DEF row
      <4> QED
        BY <2>2, <4>1, <4>2 DEF Good
    <3> QED
      BY <3>1, <3>2
  <2>5. PICK w : w = row
    OBVIOUS
  <2>6. Good(w, key)'
    BY <2>1, <2>4, <2>5, GoodKept DEF KpisInv
  <2>7. FlowGood'
    BY <2>3, <2>5, <2>6 DEF FlowGood
  <2>8. CacheGood'
    <3> SUFFICES ASSUME NEW c \in cache'
                 PROVE  \E k, v : c = [key |-> k, row |-> v] /\ Good(v, k)'
      BY DEF CacheGood
    <3>1. CASE c = [key |-> key, row |-> w]
      BY <2>6, <3>1
    <3>2. CASE c \in cache
      <4>1. PICK k, v : c = [key |-> k, row |-> v] /\ Good(v, k)
        BY <3>2 DEF KpisInv, CacheGood
      <4>2. Good(v, k)'
        BY <2>1, <4>1, GoodKept DEF KpisInv
      <4> QED
        BY <4>1, <4>2
    <3> QED
      BY <2>3, <2>5, <3>1, <3>2
  <2> QED
    BY <2>1, <2>7, <2>8, TableKept DEF KpisInv
<1>3. CASE load_weekly_performance
  <2>1. /\ Grown /\ events' = events /\ cache' \subseteq cache /\ flow.pc = "load"
        /\ flow' = NoFlow
    BY <1>3 DEF load_weekly_performance, Grown
  <2>2. PICK ids, row : /\ flow = [pc |-> "load", ids |-> ids, row |-> row]
                        /\ Good(row, ToSet(ids))
    BY <2>1 DEF KpisInv, FlowGood, NoFlow
  <2>3. kpis' = [loaded |-> TRUE, row |-> row, of |-> ToSet(ids)]
    BY <1>3, <2>2 DEF load_weekly_performance
  <2>4. Good(row, ToSet(ids))'
    BY <2>1, <2>2, GoodKept DEF KpisInv
  <2>5. FlowGood'
    BY <2>1 DEF FlowGood, NoFlow, NoRow
  <2>6. TableGood'
    BY <2>3, <2>4 DEF TableGood
  <2> QED
    BY <2>1, <2>5, <2>6, CacheKept DEF KpisInv
<1>4. CASE CacheExpires
  <2>1. /\ Grown /\ events' = events /\ cache' \subseteq cache /\ flow' = flow /\ kpis' = kpis
    BY <1>4 DEF CacheExpires, Grown
  <2> QED
    BY <2>1, FlowKept, CacheKept, TableKept DEF KpisInv
<1>5. ASSUME NEW r \in Records, EventStored(r)
      PROVE  KpisInv'
  <2>1. /\ Grown /\ events' = Append(events, r) /\ r \in Record
        /\ cache' \subseteq cache /\ flow' = flow /\ kpis' = kpis
    BY <1>5, KpisAssumption DEF EventStored, Grown
  <2>2. events' \in Seq(Record)
    BY <2>1 DEF KpisInv
  <2> QED
    BY <2>1, <2>2, FlowKept, CacheKept, TableKept DEF KpisInv
<1>6. CASE UNCHANGED kpis_vars
  <2>1. /\ Grown /\ events' = events /\ cache' \subseteq cache /\ flow' = flow /\ kpis' = kpis
    BY <1>6 DEF kpis_vars, Grown
  <2> QED
    BY <2>1, FlowKept, CacheKept, TableKept DEF KpisInv
<1> QED
  BY <1>1, <1>2, <1>3, <1>4, <1>5, <1>6 DEF KpisNext

\* What the table holds is right.
LEMMA KpisInvImplies == KpisInv => KpisAsDefined
<1> SUFFICES ASSUME KpisInv, kpis.loaded
             PROVE  AsDefined(kpis.row, kpis.of) /\ Complete(kpis.of)
  BY DEF KpisAsDefined
<1>1. kpis # NoKpis
  BY DEF NoKpis
<1>2. PICK row, of : kpis = [loaded |-> TRUE, row |-> row, of |-> of] /\ Good(row, of)
  BY <1>1 DEF KpisInv, TableGood
<1>3. kpis.row = row /\ kpis.of = of
  BY <1>2
<1> QED
  BY <1>2, <1>3 DEF Good

-----------------------------------------------------------------------------
(* The three topics together.                                             *)

PipelinesInv == DraftingInv /\ KnowledgeInv /\ KpisInv

(* It holds when a behaviour starts, and a step of one pipeline changes    *)
(* nothing that the others read.                                           *)
LEMMA PipelinesStart == PipelinesInit => PipelinesInv
BY DraftingStarts, KnowledgeStarts, IndexStarts, KpisStart
   DEF PipelinesInit, PipelinesInv, KnowledgeInv

\* A step of the pipelines is a step of one of them.
LEMMA PipelinesStep == PipelinesInv /\ [PipelinesNext]_pipelines_vars => PipelinesInv'
<1> SUFFICES ASSUME PipelinesInv, [PipelinesNext]_pipelines_vars PROVE PipelinesInv'
  OBVIOUS
<1>1. [DraftingNext]_drafting_vars
  BY DEF PipelinesNext, pipelines_vars
<1>2. [KnowledgeNext]_knowledge_vars
  BY DEF PipelinesNext, pipelines_vars
<1>3. [KpisNext]_kpis_vars
  BY DEF PipelinesNext, pipelines_vars
<1> QED
  BY <1>1, <1>2, <1>3, DraftingKept, KnowledgeKept, KpisKept DEF PipelinesInv

(* Every state of the pipelines is one the argument is about: for every    *)
(* set of documents, drafts, sources, tiers, indexers and askers, and any  *)
(* bounds.                                                                 *)
THEOREM PipelinesInvariant == PipelinesSpec => []PipelinesInv
BY PipelinesStart, PipelinesStep, PTL DEF PipelinesSpec

(* A draft goes to approval judged: the ticket was not given up without    *)
(* cause, each department that is needed has one section, every draft that *)
(* fails an evaluator carries the review flag after the last round, and    *)
(* the arbitration rests on figures, for any documents, providers, answers *)
(* and drafts (rfp_intake_graph.py, rfp_response_graph.py).                *)
THEOREM DraftsAreJudged == PipelinesSpec => []DraftsJudged
<1>1. PipelinesInv => DraftsJudged
  BY DraftingInvImplies DEF PipelinesInv
<1> QED
  BY <1>1, PipelinesInvariant, PTL

(* Where no two indexers of a profile have been at it at once, its         *)
(* collection is empty or holds one build of its corpus: a sentence is in  *)
(* one chunk only, every sentence of the paragraphs is in one, no chunk is *)
(* empty, and nothing of an earlier build is left, whatever the text, and  *)
(* wherever an indexer died (rag.py, public_rag.py).                       *)
THEOREM IndexesHoldTheirCorpus == PipelinesSpec => []IndexHoldsCorpus
<1>1. PipelinesInv => IndexHoldsCorpus
  BY IndexInvImplies DEF PipelinesInv, KnowledgeInv
<1> QED
  BY <1>1, PipelinesInvariant, PTL

(* What a guest is told rests on public chunks, of which there is at least *)
(* one; the model is called at most twice, and by the guests' own tiers    *)
(* where there are any, whatever is indexed at the same time.              *)
THEOREM GuestsGetWhatIsPublic == PipelinesSpec => []GuestsGetPublic
<1>1. PipelinesInv => GuestsGetPublic
  BY GuestsInvImplies DEF PipelinesInv, KnowledgeInv
<1> QED
  BY <1>1, PipelinesInvariant, PTL

(* Each figure of a weekly report is what the events behind it are defined *)
(* to come to - a purchase counts once, a waste at the latest price before *)
(* it, an alert against the median of the earlier prices - and no event    *)
(* that was stored when the report was made is left out, in whatever order *)
(* the events came, and whether or not the cache answered (pipeline.py,    *)
(* transform.py).                                                          *)
THEOREM KpisAreAsDefined == PipelinesSpec => []KpisAsDefined
<1>1. PipelinesInv => KpisAsDefined
  BY KpisInvImplies DEF PipelinesInv
<1> QED
  BY <1>1, PipelinesInvariant, PTL

=============================================================================
