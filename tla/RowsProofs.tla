----------------------------- MODULE RowsProofs -----------------------------
(***************************************************************************)
(* What Where and SumOf return, for every sequence.  Both are recursive    *)
(* functions, so that each fact is an induction: a set of numbers at which *)
(* it fails would have a least one.                                        *)
(***************************************************************************)
EXTENDS Rows, WellFoundedInduction, TLAPS

LEMMA LeastNumber ==
  ASSUME NEW T, T \subseteq Nat, T # {}
  PROVE  \E x \in T : \A y \in T : x <= y
<1> DEFINE R == OpToRel(<, Nat)
<1>1. IsWellFoundedOn(R, Nat)
  BY NatLessThanWellFounded
<1>2. \A x, y \in Nat : y < x => <<y, x>> \in R
  BY DEF OpToRel
<1> HIDE DEF R
<1>3. \E x \in T : \A y \in T : ~ (<<y, x>> \in R)
  BY <1>1, WFMin
<1>4. PICK x \in T : \A y \in T : ~ (<<y, x>> \in R)
  BY <1>3
<1>5. \A y \in T : ~(y < x)
  BY <1>2, <1>4
<1>6. \A y \in T : x <= y
  BY <1>5
<1> QED
  BY <1>6

\* What defines f at n from its value one before.
Runs(f, N, base, step) ==
    f[0] = base /\ \A n \in 1..N : f[n] = step[n][f[n - 1]]

(* A function that is defined from its value one before exists.            *)
LEMMA Recursion ==
  ASSUME NEW N \in Nat, NEW V, NEW base \in V, NEW step \in [1..N -> [V -> V]]
  PROVE  \E f \in [0..N -> V] : Runs(f, N, base, step)
<1> DEFINE Up(m, f) == Runs(f, m, base, step)
           Fails == {m \in 0..N : ~ \E f \in [0..m -> V] : Up(m, f)}
<1>1. N \notin Fails <=> \E f \in [0..N -> V] : Up(N, f)
  OBVIOUS
<1>2. SUFFICES ASSUME Fails # {} PROVE FALSE
  BY <1>1
<1>3. PICK m \in Fails : \A k \in Fails : m <= k
  <2>1. Fails \subseteq Nat
    OBVIOUS
  <2> HIDE DEF Fails
  <2> QED
    BY <1>2, <2>1, LeastNumber
<1>4. m \in 0..N /\ ~ \E f \in [0..m -> V] : Up(m, f)
  OBVIOUS
<1>5. CASE m = 0
  <2>1. [n \in 0..m |-> base] \in [0..m -> V] /\ Up(m, [n \in 0..m |-> base])
    BY <1>5 DEF Runs
  <2> QED
    BY <1>4, <2>1
<1>6. CASE m # 0
  <2>1. m - 1 \in 0..N /\ m - 1 \notin Fails
    <3>1. m - 1 \in 0..N /\ m \in Nat
      BY <1>4, <1>6
    <3> HIDE DEF Fails
    <3> QED
      BY <3>1, <1>3
  <2>2. PICK f \in [0..(m - 1) -> V] : Up(m - 1, f)
    BY <2>1
  <2> DEFINE g == [n \in 0..m |-> IF n = m THEN step[m][f[m - 1]] ELSE f[n]]
  <2>3. step[m][f[m - 1]] \in V
    BY <1>4, <1>6
  <2>4. g \in [0..m -> V]
    BY <2>3, <1>4
  <2>5. \A n \in 0..(m - 1) : g[n] = f[n]
    BY <1>4
  <2>6. g[m] = step[m][f[m - 1]]
    BY <1>4
  <2> HIDE DEF g
  <2>7. g[0] = base
    BY <2>2, <2>5, <1>4, <1>6 DEF Runs
  <2>8. ASSUME NEW n \in 1..m PROVE g[n] = step[n][g[n - 1]]
    <3>1. CASE n = m
      BY <3>1, <2>5, <2>6, <1>4, <1>6
    <3>2. CASE n # m
      <4>1. n \in 1..(m - 1) /\ n - 1 \in 0..(m - 1) /\ n \in 0..(m - 1)
        BY <3>2, <1>4
      <4> QED
        BY <4>1, <2>2, <2>5 DEF Runs
    <3> QED
      BY <3>1, <3>2
  <2>9. Up(m, g)
    BY <2>7, <2>8 DEF Runs
  <2> QED
    BY <1>4, <2>4, <2>9
<1> QED
  BY <1>5, <1>6

-----------------------------------------------------------------------------
(* The running total of amounts, of which SumOf is the last value.         *)
LEMMA RunningTotal ==
  ASSUME NEW a \in Seq(Int)
  PROVE  \E f \in [0..Len(a) -> Int] :
            /\ f[0] = 0
            /\ \A n \in 1..Len(a) : f[n] = f[n - 1] + a[n]
            /\ SumOf(a) = f[Len(a)]
<1> DEFINE N == Len(a)
           step == [n \in 1..N |-> [v \in Int |-> v + a[n]]]
           P(g) == g = [n \in 0..N |-> IF n = 0 THEN 0 ELSE g[n - 1] + a[n]]
           upto == CHOOSE g : P(g)
<1>1. N \in Nat /\ 0 \in Int /\ step \in [1..N -> [Int -> Int]]
  OBVIOUS
<1>2. \A n \in 1..N, v \in Int : step[n][v] = v + a[n]
  OBVIOUS
<1>3. PICK f \in [0..N -> Int] : f[0] = 0 /\ \A n \in 1..N : f[n] = step[n][f[n - 1]]
  <2> HIDE DEF step, P, upto
  <2>1. \E f \in [0..N -> Int] : Runs(f, N, 0, step)
    <3> HIDE DEF N
    <3> QED
      BY <1>1, Recursion
  <2> QED
    BY <2>1 DEF Runs
<1>4. \A n \in 1..N : f[n] = f[n - 1] + a[n]
  <2> HIDE DEF step
  <2>1. \A n \in 1..N : n - 1 \in 0..N /\ f[n - 1] \in Int
    <3> HIDE DEF N
    <3> QED
      BY <1>1, <1>3
  <2> QED
    BY <1>2, <1>3, <2>1
<1>5. P(f)
  <2>1. \A n \in 0..N : f[n] = IF n = 0 THEN 0 ELSE f[n - 1] + a[n]
    BY <1>1, <1>3, <1>4
  <2> QED
    BY <2>1
<1>6. P(upto)
  BY <1>5
<1>7. SumOf(a) = upto[N]
  BY DEF SumOf
<1>8. \A n \in 0..N : upto[n] = IF n = 0 THEN 0 ELSE upto[n - 1] + a[n]
  <2> HIDE DEF upto
  <2> QED
    BY <1>6
<1> HIDE DEF upto, P, step
<1>9. \A n \in 0..N : upto[n] = f[n]
  <2> DEFINE D == {n \in 0..N : upto[n] # f[n]}
  <2>1. SUFFICES ASSUME D # {} PROVE FALSE
    OBVIOUS
  <2>2. PICK m \in D : \A k \in D : m <= k
    <3>1. D \subseteq Nat
      OBVIOUS
    <3> HIDE DEF D
    <3> QED
      BY <2>1, <3>1, LeastNumber
  <2>3. m # 0
    BY <1>3, <1>8
  <2>4. m - 1 \in 0..N /\ m \in 1..N /\ m - 1 \notin D
    BY <2>2, <2>3
  <2> QED
    BY <2>4, <1>4, <1>8
<1>10. N \in 0..N
  BY <1>1
<1>11. SumOf(a) = f[N]
  BY <1>7, <1>9, <1>10
<1> QED
  BY <1>3, <1>4, <1>11

LEMMA SumOfNone == SumOf(<<>>) = 0
<1>1. <<>> \in Seq(Int) /\ Len(<<>>) = 0
  OBVIOUS
<1> QED
  BY <1>1, RunningTotal

LEMMA SumOfOneMore ==
  ASSUME NEW a \in Seq(Int), NEW x \in Int
  PROVE  SumOf(a) \in Int /\ SumOf(Append(a, x)) = SumOf(a) + x
<1> DEFINE b == Append(a, x)
<1>1. b \in Seq(Int) /\ Len(b) = Len(a) + 1 /\ b[Len(a) + 1] = x /\ Len(a) \in Nat
      /\ \A n \in 1..Len(a) : b[n] = a[n]
  OBVIOUS
<1>2. PICK f \in [0..Len(a) -> Int] : /\ f[0] = 0
                                      /\ \A n \in 1..Len(a) : f[n] = f[n - 1] + a[n]
                                      /\ SumOf(a) = f[Len(a)]
  BY RunningTotal
<1> HIDE DEF b
<1>3. PICK g \in [0..Len(b) -> Int] : /\ g[0] = 0
                                      /\ \A n \in 1..Len(b) : g[n] = g[n - 1] + b[n]
                                      /\ SumOf(b) = g[Len(b)]
  BY <1>1, RunningTotal
<1>4. \A n \in 0..Len(a) : g[n] = f[n]
  <2> DEFINE D == {n \in 0..Len(a) : g[n] # f[n]}
  <2>1. SUFFICES ASSUME D # {} PROVE FALSE
    OBVIOUS
  <2>2. PICK m \in D : \A k \in D : m <= k
    <3>1. D \subseteq Nat
      OBVIOUS
    <3> HIDE DEF D
    <3> QED
      BY <2>1, <3>1, LeastNumber
  <2>3. m # 0
    BY <1>2, <1>3
  <2>4. m \in 1..Len(a) /\ m - 1 \in 0..Len(a) /\ m \in 1..Len(b)
    BY <2>2, <2>3, <1>1
  <2>5. m - 1 \notin D
    <3> HIDE DEF D
    <3> QED
      BY <2>2, <2>4, <1>1
  <2>6. g[m] = g[m - 1] + b[m] /\ f[m] = f[m - 1] + a[m] /\ b[m] = a[m]
    BY <2>4, <1>1, <1>2, <1>3
  <2> QED
    BY <2>2, <2>4, <2>5, <2>6
<1>5. Len(b) \in 1..Len(b) /\ Len(b) - 1 = Len(a) /\ Len(a) \in 0..Len(a)
  BY <1>1
<1>6. g[Len(b)] = f[Len(a)] + x
  BY <1>1, <1>3, <1>4, <1>5
<1>7. SumOf(b) = SumOf(a) + x /\ SumOf(a) \in Int
  BY <1>2, <1>3, <1>5, <1>6
<1> QED
  BY <1>7 DEF b

-----------------------------------------------------------------------------
\* The rows kept so far, of which Where is the last value.
Keeps(f, rows, keep) ==
    /\ f[0] = <<>>
    /\ \A n \in 1..Len(rows) :
          f[n] = IF rows[n] \in keep THEN Append(f[n - 1], rows[n]) ELSE f[n - 1]
    /\ Where(rows, keep) = f[Len(rows)]

LEMMA RunningChoice ==
  ASSUME NEW S, NEW rows \in Seq(S), NEW keep
  PROVE  \E f \in [0..Len(rows) -> Seq(S)] : Keeps(f, rows, keep)
<1> DEFINE N == Len(rows)
           step == [n \in 1..N |-> [v \in Seq(S) |->
                      IF rows[n] \in keep THEN Append(v, rows[n]) ELSE v]]
           P(g) == g = [n \in 0..N |->
                          IF n = 0 THEN <<>>
                          ELSE IF rows[n] \in keep THEN Append(g[n - 1], rows[n])
                                                   ELSE g[n - 1]]
           upto == CHOOSE g : P(g)
<1>1. N \in Nat /\ <<>> \in Seq(S)
  OBVIOUS
<1>2. \A n \in 1..N, v \in Seq(S) :
         /\ (IF rows[n] \in keep THEN Append(v, rows[n]) ELSE v) \in Seq(S)
         /\ step[n][v] = IF rows[n] \in keep THEN Append(v, rows[n]) ELSE v
  <2>1. \A n \in 1..N : rows[n] \in S
    OBVIOUS
  <2> QED
    BY <2>1
<1>3. step \in [1..N -> [Seq(S) -> Seq(S)]]
  <2> HIDE DEF N
  <2> QED
    BY <1>2
<1>4. PICK f \in [0..N -> Seq(S)] : f[0] = <<>> /\ \A n \in 1..N : f[n] = step[n][f[n - 1]]
  <2> HIDE DEF step, P, upto
  <2>1. \E f \in [0..N -> Seq(S)] : Runs(f, N, <<>>, step)
    <3> HIDE DEF N
    <3> QED
      BY <1>1, <1>3, Recursion
  <2> QED
    BY <2>1 DEF Runs
<1>5. \A n \in 1..N :
         f[n] = IF rows[n] \in keep THEN Append(f[n - 1], rows[n]) ELSE f[n - 1]
  <2> HIDE DEF step
  <2>1. \A n \in 1..N : n - 1 \in 0..N /\ f[n - 1] \in Seq(S)
    <3> HIDE DEF N
    <3> QED
      BY <1>1, <1>4
  <2> QED
    BY <1>2, <1>4, <2>1
<1>6. P(f)
  <2>1. \A n \in 0..N : f[n] = IF n = 0 THEN <<>>
                               ELSE IF rows[n] \in keep THEN Append(f[n - 1], rows[n])
                                                        ELSE f[n - 1]
    <3> HIDE DEF N
    <3>1. \A n \in 0..N : n = 0 \/ n \in 1..N
      BY <1>1
    <3> QED
      BY <3>1, <1>4, <1>5
  <2> QED
    BY <2>1
<1>7. P(upto)
  BY <1>6
<1>8. Where(rows, keep) = upto[N]
  BY DEF Where
<1>9. \A n \in 0..N : upto[n] = IF n = 0 THEN <<>>
                                ELSE IF rows[n] \in keep THEN Append(upto[n - 1], rows[n])
                                                         ELSE upto[n - 1]
  <2> HIDE DEF upto
  <2> QED
    BY <1>7
<1> HIDE DEF upto, P, step
<1>10. \A n \in 0..N : upto[n] = f[n]
  <2> DEFINE D == {n \in 0..N : upto[n] # f[n]}
  <2>1. SUFFICES ASSUME D # {} PROVE FALSE
    OBVIOUS
  <2>2. PICK m \in D : \A k \in D : m <= k
    <3>1. D \subseteq Nat
      OBVIOUS
    <3> HIDE DEF D
    <3> QED
      BY <2>1, <3>1, LeastNumber
  <2>3. m # 0
    BY <1>4, <1>9
  <2>4. m - 1 \in 0..N /\ m \in 1..N /\ m - 1 \notin D
    BY <2>2, <2>3
  <2> QED
    BY <2>4, <1>5, <1>9
<1>11. N \in 0..N
  BY <1>1
<1>12. Where(rows, keep) = f[N]
  BY <1>8, <1>10, <1>11
<1> QED
  BY <1>4, <1>5, <1>12 DEF Keeps

(* The rows that are kept are the rows of the set, each from a place of    *)
(* its own and in their order.                                             *)
LEMMA WhereKeeps ==
  ASSUME NEW S, NEW rows \in Seq(S), NEW keep
  PROVE  /\ Where(rows, keep) \in Seq(S)
         /\ \A k \in 1..Len(rows) :
               rows[k] \in keep => \E i \in 1..Len(Where(rows, keep)) :
                                      Where(rows, keep)[i] = rows[k]
         /\ \E at \in [1..Len(Where(rows, keep)) -> 1..Len(rows)] :
               /\ \A i \in 1..Len(Where(rows, keep)) :
                     /\ Where(rows, keep)[i] = rows[at[i]]
                     /\ rows[at[i]] \in keep
               /\ \A i, j \in 1..Len(Where(rows, keep)) : i < j => at[i] < at[j]
<1>0. PICK f \in [0..Len(rows) -> Seq(S)] : Keeps(f, rows, keep)
  BY RunningChoice
<1>1. /\ f[0] = <<>>
      /\ \A n \in 1..Len(rows) :
            f[n] = IF rows[n] \in keep THEN Append(f[n - 1], rows[n]) ELSE f[n - 1]
      /\ Where(rows, keep) = f[Len(rows)]
  BY <1>0 DEF Keeps
<1>2. Len(rows) \in Nat /\ \A n \in 1..Len(rows) : rows[n] \in S
  OBVIOUS
<1> DEFINE All(n) == \A k \in 1..n :
                        rows[k] \in keep => \E i \in 1..Len(f[n]) : f[n][i] = rows[k]
           From(n, at) == /\ at \in [1..Len(f[n]) -> 1..n]
                          /\ \A i \in 1..Len(f[n]) : f[n][i] = rows[at[i]] /\ rows[at[i]] \in keep
                          /\ \A i, j \in 1..Len(f[n]) : i < j => at[i] < at[j]
           Good(n) == All(n) /\ \E at : From(n, at)
<1>3. Good(0)
  <2>1. f[0] = <<>> /\ Len(f[0]) = 0
    BY <1>1
  <2>2. 1..0 = {}
    OBVIOUS
  <2>3. From(0, <<>>)
    BY <2>1, <2>2
  <2> QED
    BY <2>1, <2>2, <2>3
<1>4. ASSUME NEW n \in 1..Len(rows), Good(n - 1)
      PROVE  Good(n)
  <2>1. /\ n - 1 \in Nat /\ f[n - 1] \in Seq(S) /\ f[n] \in Seq(S) /\ rows[n] \in S
        /\ n \in Nat /\ 1..n = (1..(n - 1)) \cup {n}
    <3>1. n \in Nat /\ n - 1 \in 0..Len(rows) /\ n \in 0..Len(rows) /\ n - 1 \in Nat
      BY <1>2
    <3>2. 1..n = (1..(n - 1)) \cup {n}
      BY <3>1, <1>4
    <3> QED
      BY <3>1, <3>2, <1>2
  <2>2. PICK at : From(n - 1, at)
    BY <1>4
  <2>3. CASE rows[n] \notin keep
    <3>1. f[n] = f[n - 1]
      BY <1>1, <2>3
    <3>2. All(n)
      BY <1>4, <2>1, <2>3, <3>1
    <3>3. From(n, at)
      BY <2>1, <2>2, <3>1
    <3> QED
      BY <3>2, <3>3
  <2>4. CASE rows[n] \in keep
    <3> DEFINE L == Len(f[n - 1])
               up == [i \in 1..(L + 1) |-> IF i = L + 1 THEN n ELSE at[i]]
    <3>1. /\ f[n] = Append(f[n - 1], rows[n]) /\ L \in Nat
          /\ Len(f[n]) = L + 1 /\ f[n][L + 1] = rows[n]
          /\ \A i \in 1..L : f[n][i] = f[n - 1][i]
      <4>1. f[n] = Append(f[n - 1], rows[n])
        BY <1>1, <2>4
      <4>2. f[n - 1] \in Seq(S) /\ rows[n] \in S
        BY <2>1
      <4> QED
        BY <4>1, <4>2
    <3>2. All(n)
      BY <1>4, <2>1, <3>1
    <3>3. up[L + 1] = n /\ \A i \in 1..L : up[i] = at[i] /\ at[i] \in 1..(n - 1)
      BY <2>2, <3>1
    <3>4. up \in [1..(L + 1) -> 1..n]
      BY <2>1, <2>2, <3>1, <3>3
    <3> HIDE DEF up, L
    <3>5. \A i \in 1..(L + 1) : f[n][i] = rows[up[i]] /\ rows[up[i]] \in keep
      <4> TAKE i \in 1..(L + 1)
      <4>1. CASE i = L + 1
        BY <4>1, <2>4, <3>1, <3>3
      <4>2. CASE i # L + 1
        <5>1. i \in 1..L
          BY <4>2, <3>1
        <5>2. f[n - 1][i] = rows[at[i]] /\ rows[at[i]] \in keep
          BY <5>1, <2>2 DEF L
        <5> QED
          BY <5>1, <5>2, <3>1, <3>3
      <4> QED
        BY <4>1, <4>2
    <3>6. ASSUME NEW i \in 1..(L + 1), NEW j \in 1..(L + 1), i < j
          PROVE  up[i] < up[j]
      <4>1. i \in 1..L /\ up[i] = at[i] /\ at[i] \in 1..(n - 1)
        BY <3>1, <3>3, <3>6
      <4>2. CASE j = L + 1
        BY <4>1, <4>2, <3>3, <2>1
      <4>3. CASE j # L + 1
        BY <4>1, <4>3, <3>1, <3>3, <3>6, <2>2 DEF L
      <4> QED
        BY <4>2, <4>3
    <3>7. From(n, up)
      BY <3>1, <3>4, <3>5, <3>6
    <3> QED
      BY <3>2, <3>7
  <2> QED
    BY <2>3, <2>4
<1> HIDE DEF Good
<1>5. Good(Len(rows))
  <2> DEFINE D == {n \in 0..Len(rows) : ~Good(n)}
  <2>1. SUFFICES ASSUME D # {} PROVE FALSE
    BY <1>2
  <2>2. PICK m \in D : \A k \in D : m <= k
    <3>1. D \subseteq Nat
      OBVIOUS
    <3> HIDE DEF D
    <3> QED
      BY <2>1, <3>1, LeastNumber
  <2>3. m # 0
    BY <1>3
  <2>4. m - 1 \in 0..Len(rows) /\ m \in 1..Len(rows) /\ m - 1 \notin D
    BY <1>2, <2>2, <2>3
  <2> QED
    BY <2>4, <1>4
<1> DEFINE w == Where(rows, keep)
<1>6. w = f[Len(rows)] /\ w \in Seq(S)
  BY <1>1, <1>2
<1>7. \A k \in 1..Len(rows) : rows[k] \in keep => \E i \in 1..Len(w) : w[i] = rows[k]
  BY <1>5, <1>6 DEF Good
<1>8. \E at : From(Len(rows), at)
  BY <1>5 DEF Good
<1> QED
  BY <1>6, <1>7, <1>8

-----------------------------------------------------------------------------
(* One of finitely many numbers is the largest.                            *)
LEMMA Largest ==
  ASSUME NEW f \in Seq(Nat), f # <<>>
  PROVE  \E m \in 1..Len(f) : \A k \in 1..Len(f) : f[k] <= f[m]
<1> DEFINE Top(n) == \E m \in 1..n : \A k \in 1..n : f[k] <= f[m]
           D == {n \in 1..Len(f) : ~Top(n)}
<1>1. Len(f) \in Nat /\ Len(f) # 0 /\ \A k \in 1..Len(f) : f[k] \in Nat
  OBVIOUS
<1>2. SUFFICES ASSUME D # {} PROVE FALSE
  <2>1. Len(f) \in 1..Len(f)
    BY <1>1
  <2>2. D = {} => Top(Len(f))
    BY <2>1
  <2> QED
    BY <2>2
<1>3. PICK n \in D : \A k \in D : n <= k
  <2>1. D \subseteq Nat
    BY <1>1
  <2> HIDE DEF D
  <2> QED
    BY <1>2, <2>1, LeastNumber
<1>4. n \in 1..Len(f) /\ n \in Nat /\ ~Top(n)
  BY <1>1
<1> HIDE DEF D
<1>5. CASE n = 1
  <2>1. 1..n = {1} /\ f[1] <= f[1]
    BY <1>1, <1>4, <1>5
  <2> QED
    BY <1>4, <2>1
<1>6. CASE n # 1
  <2>1. n - 1 \in 1..Len(f) /\ n - 1 \notin D
    <3>1. n - 1 \in 1..Len(f)
      BY <1>1, <1>4, <1>6
    <3> QED
      BY <3>1, <1>3, <1>4
  <2>2. PICK m \in 1..(n - 1) : \A k \in 1..(n - 1) : f[k] <= f[m]
    BY <2>1 DEF D
  <2> HIDE DEF Top
  <2>3. /\ 1..n = (1..(n - 1)) \cup {n} /\ m \in 1..n /\ n \in 1..n
        /\ f[m] \in Nat /\ f[n] \in Nat /\ \A k \in 1..(n - 1) : f[k] \in Nat
    <3>1. 1..n = (1..(n - 1)) \cup {n} /\ m \in 1..n /\ n \in 1..n
      <4>1. 1..n = (1..(n - 1)) \cup {n}
        BY <1>1, <1>4
      <4> QED
        BY <4>1, <1>1, <1>4
    <3>2. \A k \in 1..n : k \in 1..Len(f)
      BY <1>1, <1>4
    <3> QED
      BY <1>1, <3>1, <3>2
  <2>4. CASE f[n] <= f[m]
    <3>1. \A k \in 1..n : f[k] <= f[m]
      BY <2>2, <2>3, <2>4
    <3> QED
      BY <1>4, <2>3, <3>1 DEF Top
  <2>5. CASE ~(f[n] <= f[m])
    <3>1. \A k \in 1..n : f[k] <= f[n]
      <4>1. \A k \in 1..(n - 1) : f[k] <= f[n]
        <5> TAKE k \in 1..(n - 1)
        <5>1. f[k] \in Nat /\ f[m] \in Nat /\ f[n] \in Nat /\ f[k] <= f[m]
          BY <2>2, <2>3
        <5> QED
          BY <5>1, <2>5
      <4> QED
        BY <4>1, <2>3
    <3> QED
      BY <1>4, <2>3, <3>1 DEF Top
  <2> QED
    BY <2>4, <2>5
<1> QED
  BY <1>5, <1>6
=============================================================================
