--------------------------- MODULE RepositoryProofs ---------------------------
(***************************************************************************)
(* Proofs about repositories: the SQL table and the JSON file hold the same *)
(* entities after any series of calls, and a query of a SQL backend returns *)
(* what the evaluation in memory could return.                              *)
(*                                                                          *)
(* The functions that Query.tla defines by recursion from the end of a text *)
(* are known to satisfy their equations because each such equation has a    *)
(* solution (BackwardRecursion).                                            *)
(***************************************************************************)
EXTENDS Repository, SequenceTheorems, FiniteSetTheorems, WellFoundedInduction, TLAPS

-----------------------------------------------------------------------------
(* Sequences *)

\* Induction in the form of a least counterexample: every set of natural numbers
\* that is not empty has a least member.
LEMMA LeastNumber ==
    ASSUME NEW X \in SUBSET Nat, X # {}
    PROVE  \E n \in X : \A m \in X : n <= m
<1> DEFINE Smaller == {ss \in Nat \X Nat : ss[1] < ss[2]}
<1>1. IsWellFoundedOn(Smaller, Nat)
  BY NatLessThanWellFounded DEF OpToRel
<1>2. \A m, n \in Nat : <<m, n>> \notin Smaller => n <= m
  OBVIOUS
<1> HIDE DEF Smaller
<1>3. PICK n \in X : \A m \in X : <<m, n>> \notin Smaller
  BY <1>1, WFMin
<1> QED BY <1>2, <1>3

\* f joins the first n of some sequences, one after the other.
Joins(f, seqs, n) ==
    /\ DOMAIN f = 0 .. n
    /\ f[0] = <<>>
    /\ \A k \in 1 .. n : f[k] = f[k - 1] \o seqs[k]

LEMMA JoinsExists ==
    ASSUME NEW seqs, NEW n \in Nat
    PROVE  \E f : Joins(f, seqs, n)
<1> DEFINE X == {m \in Nat : ~ \E f : Joins(f, seqs, m)}
<1>1. ASSUME NEW m \in X, \A k \in X : m <= k
      PROVE  FALSE
  <2>1. CASE m = 0
    <3> DEFINE f == [k \in 0 .. 0 |-> <<>>]
    <3>1. Joins(f, seqs, 0)
      BY DEF Joins
    <3> QED BY <2>1, <3>1
  <2>2. CASE m # 0
    <3>1. m \in Nat /\ m - 1 \in Nat /\ ~ (m <= m - 1)
      BY <2>2
    <3>2. m - 1 \notin X
      BY <1>1, <3>1
    <3>3. PICK g : Joins(g, seqs, m - 1)
      BY <3>1, <3>2
    <3> DEFINE last == g[m - 1] \o seqs[m]
    <3> HIDE DEF last
    <3> DEFINE f == [k \in 0 .. m |-> IF k < m THEN g[k] ELSE last]
    <3>4. f[0] = g[0] /\ DOMAIN f = 0 .. m
      BY <3>1
    <3>5. ASSUME NEW k \in 1 .. m PROVE f[k] = f[k - 1] \o seqs[k]
      <4>1. k - 1 \in 0 .. m /\ k - 1 < m /\ k \in 0 .. m
        BY <3>1
      <4>2. f[k - 1] = g[k - 1]
        BY <4>1
      <4>3. CASE k = m
        <5>1. f[k] = last
          BY <4>1, <4>3
        <5> QED BY <4>2, <4>3, <5>1, Zenon DEF last
      <4>4. CASE k # m
        <5>1. k < m /\ k \in 1 .. (m - 1)
          BY <4>1, <4>4, <3>1
        <5>2. f[k] = g[k]
          BY <4>1, <5>1
        <5>3. g[k] = g[k - 1] \o seqs[k]
          BY <3>3, <5>1, Zenon DEF Joins
        <5> QED BY <4>2, <5>2, <5>3, Zenon
      <4> QED BY <4>3, <4>4
    <3> HIDE DEF f
    <3>6. Joins(f, seqs, m)
      BY <3>3, <3>4, <3>5 DEF Joins
    <3> QED BY <3>6
  <2> QED BY <2>1, <2>2
<1>2. X \in SUBSET Nat
  OBVIOUS
<1> HIDE DEF X
<1>3. X = {}
  BY <1>1, <1>2, LeastNumber
<1> QED BY <1>3 DEF X

\* What FlattenSeq of the community modules computes, and its type
LEMMA FlattenJoins ==
    ASSUME NEW S, NEW seqs \in Seq(Seq(S))
    PROVE  \E f : /\ Joins(f, seqs, Len(seqs)) /\ FlattenSeq(seqs) = f[Len(seqs)]
                  /\ \A k \in 0 .. Len(seqs) : f[k] \in Seq(S)
<1> DEFINE n == Len(seqs)
<1>1. n \in Nat /\ \A k \in 1 .. n : seqs[k] \in Seq(S)
  OBVIOUS
<1> HIDE DEF n
<1>2. ASSUME NEW f, Joins(f, seqs, n) PROVE \A k \in 0 .. n : f[k] \in Seq(S)
  <2> DEFINE X == {k \in 0 .. n : f[k] \notin Seq(S)}
  <2>1. ASSUME NEW k \in X, \A j \in X : k <= j PROVE FALSE
    <3>1. CASE k = 0
      <4>1. f[k] = <<>> /\ <<>> \in Seq(S)
        BY <1>2, <3>1, EmptySeq, Zenon DEF Joins
      <4> QED BY <4>1
    <3>2. CASE k # 0
      <4>1. k \in 1 .. n /\ k - 1 \in 0 .. n /\ ~(k <= k - 1)
        BY <1>1, <3>2
      <4>2. f[k - 1] \in Seq(S) /\ seqs[k] \in Seq(S)
        BY <1>1, <2>1, <4>1
      <4>3. f[k] = f[k - 1] \o seqs[k]
        BY <1>2, <4>1 DEF Joins
      <4>4. f[k] \in Seq(S)
        BY <4>2, <4>3, ConcatProperties
      <4> QED BY <4>4
    <3> QED BY <3>1, <3>2
  <2>2. X \in SUBSET Nat
    BY <1>1
  <2> HIDE DEF X
  <2>3. X = {}
    BY <2>1, <2>2, LeastNumber
  <2> QED BY <2>3 DEF X
<1>3. PICK g : Joins(g, seqs, n)
  BY <1>1, JoinsExists
<1>4. CASE n = 0
  <2>1. FlattenSeq(seqs) = seqs /\ seqs = <<>>
    BY <1>4 DEF FlattenSeq, n
  <2> QED BY <1>2, <1>3, <1>4, <2>1 DEF Joins, n
<1>5. CASE n # 0
  <2> DEFINE flatten[i \in 1 .. Len(seqs)] ==
                IF i = 1 THEN seqs[i] ELSE flatten[i - 1] \o seqs[i]
             h == [i \in 1 .. Len(seqs) |-> g[i]]
  <2>1. h = [i \in 1 .. Len(seqs) |-> IF i = 1 THEN seqs[i] ELSE h[i - 1] \o seqs[i]]
    <3>1. g[1] = seqs[1]
      <4>1. 1 \in 1 .. n /\ 1 - 1 = 0
        BY <1>1, <1>5
      <4>2. g[1] = g[0] \o seqs[1] /\ g[0] = <<>>
        BY <1>3, <4>1, Zenon DEF Joins
      <4>3. <<>> \o seqs[1] = seqs[1]
        BY <1>1, <4>1, ConcatEmptySeq
      <4> QED BY <4>2, <4>3, Zenon
    <3>2. ASSUME NEW i \in 1 .. Len(seqs), i # 1 PROVE h[i] = h[i - 1] \o seqs[i]
      <4>1. i - 1 \in 1 .. Len(seqs)
        BY <3>2
      <4> QED BY <1>3, <4>1 DEF Joins, n
    <3> QED BY <3>1, <3>2
  <2> HIDE DEF h
  <2>2. flatten = [i \in 1 .. Len(seqs) |->
                      IF i = 1 THEN seqs[i] ELSE flatten[i - 1] \o seqs[i]]
    BY <2>1
  <2>3. FlattenSeq(seqs) = flatten[n]
    BY <1>5 DEF FlattenSeq, n
  <2> HIDE DEF flatten
  <2> DEFINE f == [k \in 0 .. n |-> IF k = 0 THEN <<>> ELSE flatten[k]]
  <2>4. f[0] = <<>> /\ DOMAIN f = 0 .. n
    BY <1>1
  <2>5. ASSUME NEW k \in 1 .. n PROVE f[k] = f[k - 1] \o seqs[k]
    <3>1. CASE k = 1
      <4>1. flatten[1] = seqs[1]
        BY <2>2, <3>1 DEF n
      <4>2. f[k] = seqs[k] /\ f[k - 1] = <<>> /\ seqs[k] \in Seq(S)
        BY <1>1, <3>1, <4>1
      <4> QED BY <4>2, ConcatEmptySeq
    <3>2. CASE k # 1
      <4>1. flatten[k] = flatten[k - 1] \o seqs[k]
        BY <2>2, <3>2 DEF n
      <4>2. k - 1 \in 1 .. n /\ k \in 0 .. n /\ k - 1 \in 0 .. n
        BY <1>1, <3>2
      <4>3. f[k] = flatten[k] /\ f[k - 1] = flatten[k - 1]
        BY <4>2
      <4> QED BY <4>1, <4>3
    <3> QED BY <3>1, <3>2
  <2>6. f[n] = flatten[n]
    BY <1>1, <1>5
  <2> HIDE DEF f
  <2>7. Joins(f, seqs, n)
    BY <2>4, <2>5 DEF Joins
  <2> QED BY <1>2, <2>3, <2>6, <2>7 DEF n
<1> QED BY <1>4, <1>5

LEMMA FlattenType ==
    ASSUME NEW S, NEW seqs \in Seq(Seq(S))
    PROVE  FlattenSeq(seqs) \in Seq(S)
BY FlattenJoins, LenProperties

\* A recursion in which each value is made of those behind it
Backward(step, n, V) ==
    /\ step \in [1 .. n -> [[1 .. n -> V] -> V]]
    /\ \A k \in 1 .. n : \A f, g \in [1 .. n -> V] :
          (\A l \in 1 .. n : k < l => f[l] = g[l]) => step[k][f] = step[k][g]
Solution(f, step, n, V) == f \in [1 .. n -> V] /\ \A k \in 1 .. n : f[k] = step[k][f]

\* It has a solution, which is found from the end to the beginning.
LEMMA BackwardRecursion ==
    ASSUME NEW n \in Nat, NEW V, NEW v0 \in V, NEW step, Backward(step, n, V)
    PROVE  \E f : Solution(f, step, n, V)
<1> USE DEF Backward
<1> DEFINE Solves(f, m) == \A k \in 1 .. n : n - m < k => f[k] = step[k][f]
           X == {m \in 0 .. n : ~ \E f \in [1 .. n -> V] : Solves(f, m)}
<1>1. ASSUME NEW m \in X, \A k \in X : m <= k PROVE FALSE
  <2>1. CASE m = 0
    <3>1. [k \in 1 .. n |-> v0] \in [1 .. n -> V]
      OBVIOUS
    <3>2. \A k \in 1 .. n : ~(n - 0 < k)
      OBVIOUS
    <3>3. Solves([k \in 1 .. n |-> v0], m)
      BY <2>1, <3>2
    <3> QED BY <3>1, <3>3
  <2>2. CASE m # 0
    <3>1. m \in 1 .. n /\ m - 1 \in 0 .. n /\ ~(m <= m - 1) /\ n - m + 1 \in 1 .. n
      BY <2>2
    <3>2. PICK f \in [1 .. n -> V] : Solves(f, m - 1)
      BY <1>1, <3>1
    <3> DEFINE j == n - m + 1
               g == [f EXCEPT ![j] = step[j][f]]
    <3>3. step[j] \in [[1 .. n -> V] -> V] /\ step[j][f] \in V
      BY <3>1
    <3>4. /\ g \in [1 .. n -> V] /\ g[j] = step[j][f]
          /\ \A l \in 1 .. n : l # j => g[l] = f[l]
      BY <3>1, <3>3
    <3>5. j \in 1 .. n /\ \A k \in 1 .. n : n - m < k <=> k = j \/ n - (m - 1) < k
      BY <3>1
    <3>6. \A k \in 1 .. n : k = j \/ n - (m - 1) < k => \A l \in 1 .. n : k < l => l # j
      BY <3>1
    <3> HIDE DEF g, j
    <3>7. \A k \in 1 .. n : k = j \/ n - (m - 1) < k => step[k][f] = step[k][g]
      <4> SUFFICES ASSUME NEW k \in 1 .. n, k = j \/ n - (m - 1) < k
                   PROVE  step[k][f] = step[k][g]
        OBVIOUS
      <4>1. \A l \in 1 .. n : k < l => f[l] = g[l]
        BY <3>4, <3>6
      <4> QED BY <3>4, <4>1
    <3>8. ASSUME NEW k \in 1 .. n, n - m < k PROVE g[k] = step[k][g]
      <4>1. CASE k = j
        BY <3>4, <3>7, <4>1
      <4>2. CASE k # j
        <5>1. n - (m - 1) < k
          BY <3>5, <3>8, <4>2
        <5>2. f[k] = step[k][f]
          BY <3>2, <5>1
        <5> QED BY <3>4, <3>7, <4>2, <5>1, <5>2
      <4> QED BY <4>1, <4>2
    <3> QED BY <3>4, <3>8
  <2> QED BY <2>1, <2>2
<1>2. X \in SUBSET Nat
  OBVIOUS
<1>3. n \notin X
  <2> HIDE DEF X
  <2> QED BY <1>1, <1>2, LeastNumber
<1>4. PICK f \in [1 .. n -> V] : Solves(f, n)
  BY <1>3
<1>5. \A k \in 1 .. n : n - n < k
  OBVIOUS
<1> QED BY <1>4, <1>5 DEF Solution

\* Where the pieces of a joined sequence w begin, and what they hold there
Starts(start, seqs, w) ==
    /\ start \in [1 .. Len(seqs) + 1 -> Nat]
    /\ start[1] = 1 /\ start[Len(seqs) + 1] = Len(w) + 1
    /\ \A j \in 1 .. Len(seqs) :
          /\ start[j + 1] = start[j] + Len(seqs[j])
          /\ start[j + 1] <= Len(w) + 1 /\ 1 <= start[j]
          /\ \A d \in 1 .. Len(seqs[j]) : w[start[j] + d - 1] = seqs[j][d]

LEMMA PiecePlaces ==
    ASSUME NEW S, NEW seqs \in Seq(Seq(S))
    PROVE  \E start : Starts(start, seqs, FlattenSeq(seqs)) /\ FlattenSeq(seqs) \in Seq(S)
<1> DEFINE m == Len(seqs)
           w == FlattenSeq(seqs)
<1>1. m \in Nat /\ \A k \in 1 .. m : seqs[k] \in Seq(S)
  OBVIOUS
<1>2. PICK f : Joins(f, seqs, m) /\ w = f[m] /\ \A k \in 0 .. m : f[k] \in Seq(S)
  BY FlattenJoins
<1> HIDE DEF m, w
<1> DEFINE len(k) == Len(f[k])
           start == [j \in 1 .. m + 1 |-> Len(f[j - 1]) + 1]
<1>3. \A k \in 0 .. m : Len(f[k]) \in Nat
  BY <1>2
<1>4. start \in [1 .. m + 1 -> Nat] /\ start[1] = 1 /\ start[m + 1] = Len(w) + 1
  <2>1. \A j \in 1 .. m + 1 : j - 1 \in 0 .. m
    BY <1>1
  <2>2. f[0] = <<>> /\ Len(<<>>) = 0
    BY <1>2 DEF Joins
  <2>3. 1 - 1 = 0 /\ m + 1 - 1 = m /\ 1 \in 1 .. m + 1 /\ m + 1 \in 1 .. m + 1
    BY <1>1
  <2>4. start \in [1 .. m + 1 -> Nat]
    <3>1. \A j \in 1 .. m + 1 : Len(f[j - 1]) + 1 \in Nat
      BY <1>3, <2>1
    <3> QED BY <3>1
  <2>5. start[1] = Len(f[0]) + 1 /\ start[m + 1] = Len(f[m]) + 1
    <3>1. \A j \in 1 .. m + 1 : \A k : j - 1 = k => start[j] = Len(f[k]) + 1
      OBVIOUS
    <3> HIDE DEF start
    <3>2. start[1] = Len(f[0]) + 1
      BY <2>3, <3>1
    <3> DEFINE last == m + 1
    <3>4. last \in 1 .. m + 1 /\ last - 1 = m
      BY <1>1
    <3> HIDE DEF last
    <3>5. start[last] = Len(f[m]) + 1
      BY <3>1, <3>4
    <3>3. start[m + 1] = Len(f[m]) + 1
      BY <3>5 DEF last
    <3> QED BY <3>2, <3>3
  <2> HIDE DEF start
  <2> QED BY <1>2, <2>2, <2>4, <2>5
\* One more piece continues what is there.
<1>5. ASSUME NEW k \in 1 .. m
      PROVE  /\ Len(f[k]) = Len(f[k - 1]) + Len(seqs[k])
             /\ \A i \in 1 .. Len(f[k - 1]) : f[k][i] = f[k - 1][i]
             /\ \A d \in 1 .. Len(seqs[k]) : f[k][Len(f[k - 1]) + d] = seqs[k][d]
             /\ Len(seqs[k]) \in Nat /\ k - 1 \in 0 .. m /\ k \in 0 .. m
  <2>1. k - 1 \in 0 .. m /\ k \in 0 .. m
    BY <1>1
  <2>2. f[k] = f[k - 1] \o seqs[k] /\ f[k - 1] \in Seq(S) /\ seqs[k] \in Seq(S)
    BY <1>1, <1>2, <2>1 DEF Joins
  <2> DEFINE a == f[k - 1]
             b == seqs[k]
             c == f[k]
  <2>3. c = a \o b /\ a \in Seq(S) /\ b \in Seq(S)
    BY <2>2
  <2> HIDE DEF a, b, c
  <2>4. Len(a) \in Nat /\ Len(b) \in Nat /\ Len(c) = Len(a) + Len(b)
    BY <2>3
  <2>5. \A i \in 1 .. Len(a) + Len(b) : c[i] = IF i <= Len(a) THEN a[i] ELSE b[i - Len(a)]
    BY <2>3, ConcatProperties
  <2>6. \A i \in 1 .. Len(a) : c[i] = a[i]
    BY <2>4, <2>5
  <2>7. ASSUME NEW d \in 1 .. Len(b) PROVE c[Len(a) + d] = b[d]
    <3> DEFINE i == Len(a) + d
    <3>1. i \in 1 .. Len(a) + Len(b) /\ ~(i <= Len(a)) /\ i - Len(a) = d
      BY <2>4
    <3> HIDE DEF i
    <3>2. c[i] = b[d]
      BY <2>5, <3>1
    <3> QED BY <3>2 DEF i
  <2> QED BY <2>1, <2>4, <2>6, <2>7 DEF a, b, c
\* What a piece adds stays where it is.
<1>6. ASSUME NEW k \in 0 .. m
      PROVE  Len(f[k]) <= Len(w) /\ \A i \in 1 .. Len(f[k]) : w[i] = f[k][i]
  <2> DEFINE X == {l \in k .. m : ~ (/\ Len(f[k]) <= Len(f[l])
                                     /\ \A i \in 1 .. Len(f[k]) : f[l][i] = f[k][i])}
  <2>1. ASSUME NEW l \in X, \A o \in X : l <= o PROVE FALSE
    <3>1. l # k
      BY <1>3
    <3>2. l \in 1 .. m /\ l - 1 \in k .. m /\ ~(l <= l - 1) /\ l - 1 \in 0 .. m
      BY <1>1, <3>1
    <3>3. Len(f[k]) <= Len(f[l - 1]) /\ \A i \in 1 .. Len(f[k]) : f[l - 1][i] = f[k][i]
      BY <2>1, <3>2
    <3>4. /\ Len(f[l]) = Len(f[l - 1]) + Len(seqs[l]) /\ Len(seqs[l]) \in Nat
          /\ \A i \in 1 .. Len(f[l - 1]) : f[l][i] = f[l - 1][i]
      BY <1>5, <3>2
    <3>5. Len(f[k]) \in Nat /\ Len(f[l - 1]) \in Nat /\ Len(f[l]) \in Nat
      BY <1>3, <3>2
    <3> DEFINE x == Len(f[k])
               y == Len(f[l - 1])
               z == Len(f[l])
               e == Len(seqs[l])
    <3>6. Len(f[k]) <= Len(f[l])
      <4>1. x \in Nat /\ y \in Nat /\ e \in Nat /\ x <= y /\ z = y + e
        BY <3>3, <3>4, <3>5
      <4> HIDE DEF x, y, z, e
      <4>2. x <= z
        BY <4>1
      <4> QED BY <4>2 DEF x, z
    <3>7. \A i \in 1 .. Len(f[k]) : f[l][i] = f[k][i]
      <4>1. \A i \in 1 .. Len(f[k]) : i \in 1 .. Len(f[l - 1])
        BY <3>3, <3>5
      <4> QED BY <3>3, <3>4, <4>1
    <3> QED BY <3>6, <3>7
  <2>2. X \in SUBSET Nat /\ m \in k .. m
    BY <1>1
  <2> HIDE DEF X
  <2>3. m \notin X
    BY <2>1, <2>2, LeastNumber
  <2> QED BY <1>2, <2>2, <2>3 DEF X
<1>7. ASSUME NEW j \in 1 .. m
      PROVE  /\ start[j + 1] = start[j] + Len(seqs[j])
             /\ start[j + 1] <= Len(w) + 1 /\ 1 <= start[j]
             /\ \A d \in 1 .. Len(seqs[j]) : w[start[j] + d - 1] = seqs[j][d]
  <2>1. j \in 0 .. m /\ j - 1 \in 0 .. m /\ j \in 1 .. m + 1 /\ j + 1 \in 1 .. m + 1 /\ j + 1 - 1 = j
    BY <1>1
  <2>2. start[j] = Len(f[j - 1]) + 1 /\ start[j + 1] = Len(f[j]) + 1
    BY <2>1
  <2> HIDE DEF start
  <2>3. /\ Len(f[j]) = Len(f[j - 1]) + Len(seqs[j]) /\ Len(seqs[j]) \in Nat
        /\ \A d \in 1 .. Len(seqs[j]) : f[j][Len(f[j - 1]) + d] = seqs[j][d]
    BY <1>5
  <2>4. Len(f[j]) <= Len(w) /\ \A i \in 1 .. Len(f[j]) : w[i] = f[j][i]
    BY <1>6, <2>1
  <2>5. Len(f[j - 1]) \in Nat /\ Len(f[j]) \in Nat /\ Len(w) \in Nat
    BY <1>1, <1>2, <1>3, <2>1
  <2> DEFINE a == Len(f[j - 1])
             b == Len(f[j])
             e == Len(seqs[j])
             here == start[j]
             next == start[j + 1]
  <2>6. /\ a \in Nat /\ b \in Nat /\ e \in Nat /\ Len(w) \in Nat
        /\ here = a + 1 /\ next = b + 1 /\ b = a + e /\ b <= Len(w)
    BY <2>2, <2>3, <2>4, <2>5
  <2>7. \A d \in 1 .. e : f[j][a + d] = seqs[j][d]
    BY <2>3
  <2>8. \A i \in 1 .. b : w[i] = f[j][i]
    BY <2>4
  <2> HIDE DEF a, b, e, here, next
  <2>9. ASSUME NEW d \in 1 .. e PROVE w[here + d - 1] = seqs[j][d]
    <3>1. here + d - 1 = a + d /\ a + d \in 1 .. b
      BY <2>6
    <3> QED BY <2>7, <2>8, <3>1
  <2>10. next = here + e /\ next <= Len(w) + 1 /\ 1 <= here
    BY <2>6
  <2> QED BY <2>9, <2>10 DEF e, here, next
<1>8. w \in Seq(S)
  BY <1>1, <1>2
<1> HIDE DEF start
<1>9. Starts(start, seqs, w)
  BY <1>4, <1>7 DEF Starts, m
<1> QED BY <1>8, <1>9 DEF w

-----------------------------------------------------------------------------
(* The file and the table *)

LEMMA ConcatElements ==
    ASSUME NEW S, NEW u \in Seq(S), NEW v \in Seq(S)
    PROVE  ToSet(u \o v) = ToSet(u) \cup ToSet(v)
<1> DEFINE w == u \o v
<1>1. /\ w \in Seq(S) /\ Len(w) = Len(u) + Len(v)
      /\ \A i \in 1 .. Len(u) + Len(v) : w[i] = IF i <= Len(u) THEN u[i] ELSE v[i - Len(u)]
  BY ConcatProperties
<1> HIDE DEF w
<1>2. /\ Len(u) \in Nat /\ DOMAIN u = 1 .. Len(u) /\ Len(v) \in Nat /\ DOMAIN v = 1 .. Len(v)
      /\ DOMAIN w = 1 .. Len(u) + Len(v)
  BY <1>1
<1>3. ASSUME NEW i \in DOMAIN w PROVE w[i] \in ToSet(u) \cup ToSet(v)
  <2>1. CASE i <= Len(u)
    BY <1>1, <1>2, <2>1 DEF ToSet
  <2>2. CASE ~(i <= Len(u))
    <3>1. i - Len(u) \in DOMAIN v /\ w[i] = v[i - Len(u)]
      BY <1>1, <1>2, <2>2
    <3> QED BY <3>1 DEF ToSet
  <2> QED BY <2>1, <2>2
<1>4. ASSUME NEW i \in DOMAIN u PROVE u[i] \in ToSet(w)
  <2>1. i \in DOMAIN w /\ w[i] = u[i]
    BY <1>1, <1>2
  <2> QED BY <2>1 DEF ToSet
<1>5. ASSUME NEW i \in DOMAIN v PROVE v[i] \in ToSet(w)
  <2>1. Len(u) + i \in DOMAIN w /\ w[Len(u) + i] = v[i]
    BY <1>1, <1>2
  <2> QED BY <2>1 DEF ToSet
<1>6. ToSet(w) \subseteq ToSet(u) \cup ToSet(v)
  BY <1>3 DEF ToSet
<1>7. ToSet(u) \subseteq ToSet(w) /\ ToSet(v) \subseteq ToSet(w)
  BY <1>4, <1>5 DEF ToSet
<1> QED BY <1>6, <1>7 DEF w

\* The elements at some indices
LEMMA ThoseElements ==
    ASSUME NEW S, NEW s \in Seq(S), NEW keep
    PROVE  Those(s, keep) \in Seq(S) /\ ToSet(Those(s, keep)) = {s[i] : i \in keep \cap DOMAIN s}
<1> DEFINE n == Len(s)
           seqs == [i \in DOMAIN s |-> IF i \in keep THEN <<s[i]>> ELSE <<>>]
<1>1. n \in Nat /\ DOMAIN s = 1 .. n /\ \A i \in 1 .. n : s[i] \in S
  OBVIOUS
<1>2. seqs \in Seq(Seq(S)) /\ Len(seqs) = n
  <2>1. \A i \in 1 .. n : <<s[i]>> \in Seq(S) /\ <<>> \in Seq(S)
    BY <1>1
  <2>2. seqs \in [1 .. n -> Seq(S)]
    BY <1>1, <2>1
  <2> HIDE DEF seqs
  <2>3. seqs \in Seq(Seq(S))
    BY <1>1, <2>2, SeqDef
  <2> QED BY <1>1, <2>2, <2>3, LenProperties
<1>3. \A k \in 1 .. n : seqs[k] = IF k \in keep THEN <<s[k]>> ELSE <<>>
  BY <1>1
<1>4. Those(s, keep) = FlattenSeq(seqs)
  BY DEF Those
<1> HIDE DEF seqs, n
<1>5. PICK f : /\ Joins(f, seqs, n) /\ FlattenSeq(seqs) = f[n]
               /\ \A k \in 0 .. n : f[k] \in Seq(S)
  BY <1>2, FlattenJoins
<1> DEFINE X == {k \in 0 .. n : ToSet(f[k]) # {s[i] : i \in keep \cap (1 .. k)}}
<1>6. ASSUME NEW k \in X, \A j \in X : k <= j PROVE FALSE
  <2>1. CASE k = 0
    <3>1. f[k] = <<>>
      BY <1>5, <2>1, Zenon DEF Joins
    <3> QED BY <2>1, <3>1 DEF ToSet
  <2>2. CASE k # 0
    <3>1. k \in 1 .. n /\ k - 1 \in 0 .. n /\ ~(k <= k - 1)
      BY <1>1, <2>2
    <3>2. ToSet(f[k - 1]) = {s[i] : i \in keep \cap (1 .. (k - 1))}
      BY <1>6, <3>1
    <3>3. f[k] = f[k - 1] \o seqs[k]
      BY <1>5, <3>1, Zenon DEF Joins
    <3>4. f[k - 1] \in Seq(S) /\ seqs[k] \in Seq(S)
      BY <1>2, <1>5, <3>1
    <3>5. ToSet(f[k - 1] \o seqs[k]) = ToSet(f[k - 1]) \cup ToSet(seqs[k])
      <4> DEFINE u == f[k - 1]
                 v == seqs[k]
      <4> HIDE DEF u, v
      <4>1. u \in Seq(S) /\ v \in Seq(S)
        BY <3>4 DEF u, v
      <4> QED BY <4>1, ConcatElements DEF u, v
    <3>6. ToSet(seqs[k]) = IF k \in keep THEN {s[k]} ELSE {}
      <4>1. ToSet(<<s[k]>>) = {s[k]} /\ ToSet(<<>>) = {}
        BY DEF ToSet
      <4> QED BY <1>3, <3>1, <4>1
    <3>7. 1 .. k = (1 .. (k - 1)) \cup {k}
      BY <3>1
    <3>8. {s[i] : i \in keep \cap (1 .. k)}
             = {s[i] : i \in keep \cap (1 .. (k - 1))} \cup (IF k \in keep THEN {s[k]} ELSE {})
      BY <3>7
    <3> QED BY <3>2, <3>3, <3>5, <3>6, <3>8
  <2> QED BY <2>1, <2>2
<1>7. X \in SUBSET Nat /\ n \in 0 .. n
  BY <1>1
<1> HIDE DEF X
<1>8. X = {}
  BY <1>6, <1>7, LeastNumber
<1>9. ToSet(f[n]) = {s[i] : i \in keep \cap (1 .. n)} /\ f[n] \in Seq(S)
  BY <1>5, <1>7, <1>8 DEF X
<1> QED BY <1>1, <1>4, <1>5, <1>9

\* Dropping one element of a sequence
LEMMA DropAtProperties ==
    ASSUME NEW S, NEW s \in Seq(S), NEW d \in 1 .. Len(s)
    PROVE  /\ DropAt(s, d) \in Seq(S) /\ Len(DropAt(s, d)) = Len(s) - 1
           /\ \A k \in 1 .. (Len(s) - 1) :
                 DropAt(s, d)[k] = IF k < d THEN s[k] ELSE s[k + 1]
<1> DEFINE u == SubSeq(s, 1, d - 1)
           v == SubSeq(s, d + 1, Len(s))
<1>1. Len(s) \in Nat /\ \A i \in 1 .. Len(s) : s[i] \in S
  OBVIOUS
<1>2. u \in Seq(S) /\ Len(u) = d - 1 /\ \A i \in 1 .. (d - 1) : u[i] = s[i]
  <2>1. /\ u \in Seq(S) /\ Len(u) = IF 1 <= d - 1 THEN d - 1 - 1 + 1 ELSE 0
        /\ \A i \in 1 .. d - 1 - 1 + 1 : u[i] = s[1 + i - 1]
    BY <1>1, SubSeqProperties
  <2> QED BY <2>1
<1>3. v \in Seq(S) /\ Len(v) = Len(s) - d /\ \A i \in 1 .. (Len(s) - d) : v[i] = s[d + i]
  <2>1. /\ v \in Seq(S)
        /\ Len(v) = IF d + 1 <= Len(s) THEN Len(s) - (d + 1) + 1 ELSE 0
        /\ \A i \in 1 .. Len(s) - (d + 1) + 1 : v[i] = s[d + 1 + i - 1]
    BY <1>1, SubSeqProperties
  <2> QED BY <1>1, <2>1
<1>4. DropAt(s, d) = u \o v
  BY DEF DropAt
<1> HIDE DEF u, v
<1>5. u \o v \in Seq(S) /\ Len(u \o v) = Len(s) - 1
  <2>1. u \o v \in Seq(S) /\ Len(u \o v) = Len(u) + Len(v)
    BY <1>2, <1>3, ConcatProperties
  <2> QED BY <1>1, <1>2, <1>3, <2>1
<1>6. ASSUME NEW k \in 1 .. (Len(s) - 1)
      PROVE  (u \o v)[k] = IF k < d THEN s[k] ELSE s[k + 1]
  <2>1. (u \o v)[k] = IF k <= Len(u) THEN u[k] ELSE v[k - Len(u)]
    BY <1>1, <1>2, <1>3, ConcatProperties
  <2> QED BY <1>1, <1>2, <1>3, <2>1
<1> QED BY <1>4, <1>5, <1>6

\* The objects in the file are the rows of the table without their blobs, each id
\* once in both.
Mirror ==
    /\ table \subseteq EntityType /\ IsFiniteSet(table)
    /\ \A r, s \in table : r.id = s.id => r = s
    /\ file \in Seq(ToSet(file))
    /\ \A i, j \in DOMAIN file : file[i].id = file[j].id => i = j
    /\ ToSet(file) = {ToJson(r) : r \in table}
    /\ agreed

LEMMA JsonFields ==
    ASSUME NEW r \in EntityType
    PROVE  ToJson(r).id = r.id /\ ToJson(r).name = r.name
           /\ FromJson(ToJson(r)) = WithoutBlob(r)
           /\ WithoutBlob(r).id = r.id /\ WithoutBlob(r).name = r.name
<1>1. Fields = {"id", "name", "data"} /\ {g \in Fields : FieldType[g] # "blob"} = {"id", "name"}
  BY DEF Fields, FieldType
<1>2. ToJson(r) = [field \in {"id", "name"} |-> r[field]]
  BY <1>1, Zenon DEF ToJson
<1>3. DOMAIN ToJson(r) = {"id", "name"} /\ ToJson(r).id = r.id /\ ToJson(r).name = r.name
  BY <1>2
<1>4. WithoutBlob(r) = [id |-> r.id, name |-> r.name, data |-> 0]
  BY DEF WithoutBlob, EntityType
<1>5. FromJson(ToJson(r)) = [field \in {"id", "name", "data"} |->
         IF field \in {"id", "name"} THEN ToJson(r)[field] ELSE 0]
  BY <1>1, <1>3, Zenon DEF FromJson
<1>6. FromJson(ToJson(r)) = WithoutBlob(r)
  BY <1>3, <1>4, <1>5
<1> QED BY <1>3, <1>4, <1>6

LEMMA MirrorAgrees == Mirror => BackendsAgree
<1> SUFFICES ASSUME Mirror PROVE BackendsAgree
  OBVIOUS
<1> DEFINE n == Len(file)
           all == JsonFindAll(file)
<1>1. n \in Nat /\ DOMAIN file = 1 .. n
  BY DEF Mirror
<1>2. ASSUME NEW i \in 1 .. n PROVE \E r \in table : file[i] = ToJson(r)
  <2>1. file[i] \in ToSet(file)
    BY <1>1 DEF ToSet
  <2> QED BY <2>1 DEF Mirror
<1>3. ASSUME NEW r \in table PROVE \E i \in 1 .. n : file[i] = ToJson(r)
  <2>1. ToJson(r) \in ToSet(file)
    BY DEF Mirror
  <2> QED BY <1>1, <2>1 DEF ToSet
<1>4. Len(file) = Cardinality(table)
  <2> DEFINE at == [i \in 1 .. n |-> CHOOSE r \in table : file[i] = ToJson(r)]
  <2>1. \A i \in 1 .. n : at[i] \in table /\ file[i] = ToJson(at[i])
    BY <1>2
  <2> HIDE DEF at
  <2>2. \A i, j \in 1 .. n : at[i] = at[j] => i = j
    BY <1>1, <2>1 DEF Mirror
  <2>3. \A r \in table : \E i \in 1 .. n : at[i] = r
    <3> SUFFICES ASSUME NEW r \in table PROVE \E i \in 1 .. n : at[i] = r
      OBVIOUS
    <3>1. PICK i \in 1 .. n : file[i] = ToJson(r)
      BY <1>3
    <3>2. at[i] \in table /\ ToJson(at[i]) = ToJson(r)
      BY <2>1, <3>1
    <3>3. at[i].id = r.id
      BY <3>2, JsonFields DEF Mirror
    <3> QED BY <3>2, <3>3 DEF Mirror
  <2>4. at \in Bijection(1 .. n, table)
    <3>1. at \in [1 .. n -> table]
      BY <2>1 DEF at
    <3> QED BY <2>2, <2>3, <3>1 DEF Bijection, Injection, Surjection, IsInjective
  <2>5. IsFiniteSet(1 .. n) /\ Cardinality(1 .. n) = n
    <3> HIDE DEF n
    <3> QED BY <1>1, FS_Interval
  <2>6. Cardinality(table) = Cardinality(1 .. n)
    BY <2>4, <2>5, FS_Bijection DEF ExistsBijection
  <2> QED BY <2>5, <2>6
<1>5. DOMAIN all = 1 .. n /\ \A i \in 1 .. n : all[i] = FromJson(file[i])
  BY <1>1 DEF JsonFindAll
<1>6. ToSet(all) = SetWithoutBlobs(table)
  <2>1. ASSUME NEW i \in 1 .. n PROVE \E r \in table : all[i] = WithoutBlob(r)
    BY <1>2, <1>5, JsonFields DEF Mirror
  <2>2. ASSUME NEW r \in table PROVE \E i \in 1 .. n : all[i] = WithoutBlob(r)
    BY <1>3, <1>5, JsonFields DEF Mirror
  <2> HIDE DEF all
  <2> QED BY <1>5, <2>1, <2>2 DEF ToSet, SetWithoutBlobs
<1>7. ASSUME NEW id \in Ids
      PROVE  ToSet(JsonFindByPk(file, id)) = SetWithoutBlobs(PgFindByPk(table, id))
  <2> DEFINE found == Those(file, IndexOf(file, id))
  <2>1. found \in Seq(ToSet(file))
        /\ ToSet(found) = {file[i] : i \in IndexOf(file, id) \cap DOMAIN file}
    BY ThoseElements DEF Mirror
  <2> HIDE DEF found
  <2>2. ToSet(JsonFindAll(found)) = {FromJson(o) : o \in ToSet(found)}
    BY DEF JsonFindAll, ToSet
  <2>3. \A i \in 1 .. n : file[i] \in ToSet(found) <=> file[i].id = id
    BY <1>1, <2>1 DEF IndexOf
  <2>4. ToSet(found) \subseteq {file[i] : i \in 1 .. n}
    BY <1>1, <2>1
  <2>5. ASSUME NEW o \in ToSet(found)
        PROVE  \E r \in PgFindByPk(table, id) : FromJson(o) = WithoutBlob(r)
    <3>1. PICK i \in 1 .. n : o = file[i] /\ o.id = id
      BY <2>3, <2>4
    <3>2. PICK r \in table : o = ToJson(r)
      BY <1>2, <3>1
    <3>3. r.id = id /\ FromJson(o) = WithoutBlob(r)
      BY <3>1, <3>2, JsonFields DEF Mirror
    <3> QED BY <3>3 DEF PgFindByPk, WithId
  <2>6. ASSUME NEW r \in PgFindByPk(table, id)
        PROVE  \E o \in ToSet(found) : FromJson(o) = WithoutBlob(r)
    <3>1. r \in table /\ r.id = id
      BY DEF PgFindByPk, WithId
    <3>2. PICK i \in 1 .. n : file[i] = ToJson(r)
      BY <1>3, <3>1
    <3> QED BY <2>3, <3>1, <3>2, JsonFields DEF Mirror
  <2> QED BY <2>2, <2>5, <2>6 DEF SetWithoutBlobs, JsonFindByPk, found
<1>8. ASSUME NEW name \in Names
      PROVE  ToSet(JsonFindFirst(file, "name", name))
                = SetWithoutBlobs(PgFindFirst(table, "name", name))
  <2> DEFINE at == {i \in DOMAIN all : all[i].name = name}
             found == Those(all, at)
  <2>1. FieldType["name"] # "blob"
    BY DEF FieldType
  <2>2. JsonFindFirst(file, "name", name) = found
    BY <2>1, Zenon DEF JsonFindFirst
  <2>3. PgFindFirst(table, "name", name) = {r \in table : r.name = name}
    BY <2>1 DEF PgFindFirst
  <2>4. all \in Seq(ToSet(all))
    <3>1. all \in [1 .. n -> ToSet(all)]
      BY <1>5 DEF ToSet, JsonFindAll
    <3> HIDE DEF all
    <3> QED BY <1>1, <3>1, SeqDef
  <2>5. ToSet(found) = {all[i] : i \in at \cap DOMAIN all}
    BY <2>4, ThoseElements
  <2> HIDE DEF found, all
  <2>6. ASSUME NEW i \in 1 .. n
        PROVE  \E r \in table : all[i] = WithoutBlob(r) /\ all[i].name = r.name
    BY <1>2, <1>5, JsonFields DEF Mirror
  <2>7. ASSUME NEW r \in table
        PROVE  \E i \in 1 .. n : all[i] = WithoutBlob(r) /\ all[i].name = r.name
    BY <1>3, <1>5, JsonFields DEF Mirror
  <2>8. ToSet(found) = {WithoutBlob(r) : r \in {s \in table : s.name = name}}
    <3>1. \A x : x \in ToSet(found) <=> \E i \in 1 .. n : all[i] = x /\ all[i].name = name
      BY <1>5, <2>5
    <3>2. \A r \in table : \A i \in 1 .. n :
             all[i] = WithoutBlob(r) => all[i].name = r.name
      BY JsonFields DEF Mirror
    <3> QED BY <2>6, <2>7, <3>1, <3>2
  <2> QED BY <2>2, <2>3, <2>8 DEF SetWithoutBlobs
<1> HIDE DEF n, all
<1>9. ToSet(JsonFindAll(file)) = SetWithoutBlobs(PgFindAll(table))
  BY <1>6 DEF all, PgFindAll
<1> QED BY <1>4, <1>7, <1>8, <1>9 DEF BackendsAgree, Mirror

LEMMA InitMirror == Init => Mirror
<1> SUFFICES ASSUME Init PROVE Mirror
  OBVIOUS
<1>1. table = {} /\ IsFiniteSet({}) /\ file = <<>> /\ agreed
  BY FS_EmptySet DEF Init
<1>2. ToSet(<<>>) = {} /\ <<>> \in Seq({})
  BY DEF ToSet
<1>3. ToSet(file) = {ToJson(r) : r \in table} /\ file \in Seq(ToSet(file))
  BY <1>1, <1>2
<1> QED BY <1>1, <1>3 DEF Mirror

\* The objects of a file with one more at its end
LEMMA AppendElements ==
    ASSUME NEW s, s \in Seq(ToSet(s)), NEW x
    PROVE  /\ Append(s, x) \in Seq(ToSet(Append(s, x)))
           /\ ToSet(Append(s, x)) = ToSet(s) \cup {x}
           /\ \A i \in DOMAIN Append(s, x) : \/ i \in DOMAIN s /\ Append(s, x)[i] = s[i]
                                             \/ i = Len(s) + 1 /\ Append(s, x)[i] = x
<1> DEFINE t == Append(s, x)
<1>1. /\ Len(s) \in Nat /\ DOMAIN s = 1 .. Len(s)
      /\ t \in Seq(ToSet(s) \cup {x})
      /\ DOMAIN t = 1 .. (Len(s) + 1) /\ Len(t) = Len(s) + 1
      /\ \A i \in 1 .. Len(s) : t[i] = s[i]
      /\ t[Len(s) + 1] = x
  <2>1. s \in Seq(ToSet(s) \cup {x}) /\ x \in ToSet(s) \cup {x}
    OBVIOUS
  <2> QED BY <2>1
<1> HIDE DEF t
<1>2. ToSet(t) = ToSet(s) \cup {x}
  BY <1>1 DEF ToSet
<1>3. \A i \in DOMAIN t : \/ i \in DOMAIN s /\ t[i] = s[i]
                          \/ i = Len(s) + 1 /\ t[i] = x
  BY <1>1
<1>4. t \in Seq(ToSet(t))
  BY <1>1, <1>2
<1> QED BY <1>2, <1>3, <1>4 DEF t

\* The places and the rows of an id correspond.
LEMMA SamePlaces ==
    ASSUME Mirror, NEW id
    PROVE  /\ IndexOf(file, id) = {} <=> WithId(table, id) = {}
           /\ DOMAIN file = 1 .. Len(file) /\ Len(file) \in Nat
<1>1. DOMAIN file = 1 .. Len(file) /\ Len(file) \in Nat
  BY DEF Mirror
<1>2. ASSUME NEW i \in IndexOf(file, id) PROVE WithId(table, id) # {}
  <2>1. file[i] \in ToSet(file) /\ file[i].id = id
    BY DEF IndexOf, ToSet
  <2>2. PICK r \in table : file[i] = ToJson(r)
    BY <2>1 DEF Mirror
  <2>3. r.id = id
    BY <2>1, <2>2, JsonFields DEF Mirror
  <2> QED BY <2>3 DEF WithId
<1>3. ASSUME NEW r \in WithId(table, id) PROVE IndexOf(file, id) # {}
  <2>1. r \in table /\ r.id = id
    BY DEF WithId
  <2>2. ToJson(r) \in ToSet(file) /\ ToJson(r).id = id
    BY <2>1, JsonFields DEF Mirror
  <2> QED BY <2>2 DEF ToSet, IndexOf
<1> QED BY <1>1, <1>2, <1>3

\* A row whose id is new, and its object
LEMMA AddedRow ==
    ASSUME NEW rows, rows \subseteq EntityType, IsFiniteSet(rows),
           \A r, s \in rows : r.id = s.id => r = s,
           NEW objects, objects \in Seq(ToSet(objects)),
           \A i, j \in DOMAIN objects : objects[i].id = objects[j].id => i = j,
           ToSet(objects) = {ToJson(r) : r \in rows},
           NEW entity \in EntityType, WithId(rows, entity.id) = {}, agreed',
           table' = rows \cup {entity}, file' = Append(objects, ToJson(entity))
    PROVE  Mirror'
<1> DEFINE o == ToJson(entity)
           new == Append(objects, o)
<1>1. /\ table' \subseteq EntityType /\ IsFiniteSet(table')
      /\ \A r, s \in table' : r.id = s.id => r = s
  BY FS_AddElement DEF WithId
<1>2. o.id = entity.id
  BY JsonFields
<1> HIDE DEF o
<1>3. /\ new \in Seq(ToSet(new)) /\ ToSet(new) = ToSet(objects) \cup {o}
      /\ \A i \in DOMAIN new : \/ i \in DOMAIN objects /\ new[i] = objects[i]
                               \/ i = Len(objects) + 1 /\ new[i] = o
  BY AppendElements
<1> HIDE DEF new
<1>4. ToSet(new) = {ToJson(r) : r \in table'}
  BY <1>3 DEF o
<1>5. ASSUME NEW i \in DOMAIN objects PROVE objects[i].id # entity.id
  <2>1. objects[i] \in ToSet(objects)
    BY DEF ToSet
  <2>2. PICK r \in rows : objects[i] = ToJson(r)
    BY <2>1
  <2> QED BY <2>2, JsonFields DEF WithId
<1>6. \A i, j \in DOMAIN new : new[i].id = new[j].id => i = j
  BY <1>2, <1>3, <1>5
<1>7. file' = new
  BY DEF new, o
<1> QED BY <1>1, <1>3, <1>4, <1>6, <1>7 DEF Mirror

\* What remains without a row, and without its object
LEMMA DroppedRow ==
    ASSUME Mirror, NEW id, NEW d \in IndexOf(file, id)
    PROVE  LET rows == table \ WithId(table, id)
               objects == DropAt(file, d)
           IN /\ rows \subseteq EntityType /\ IsFiniteSet(rows)
              /\ \A r, s \in rows : r.id = s.id => r = s
              /\ objects \in Seq(ToSet(objects))
              /\ \A i, j \in DOMAIN objects : objects[i].id = objects[j].id => i = j
              /\ ToSet(objects) = {ToJson(r) : r \in rows}
              /\ WithId(rows, id) = {}
<1> DEFINE rows == table \ WithId(table, id)
           objects == DropAt(file, d)
           n == Len(file) - 1
<1>1. /\ rows \subseteq EntityType /\ IsFiniteSet(rows)
      /\ \A r, s \in rows : r.id = s.id => r = s
      /\ WithId(rows, id) = {}
  BY FS_Subset DEF Mirror, WithId
<1>2. DOMAIN file = 1 .. Len(file) /\ Len(file) \in Nat /\ d \in 1 .. Len(file)
      /\ file[d].id = id
  BY SamePlaces DEF IndexOf
<1>3. /\ objects \in Seq(ToSet(file)) /\ Len(objects) = n
      /\ \A k \in 1 .. n : objects[k] = IF k < d THEN file[k] ELSE file[k + 1]
  BY <1>2, DropAtProperties DEF Mirror
<1> HIDE DEF objects
<1>4. DOMAIN objects = 1 .. n /\ n \in Nat
  BY <1>2, <1>3
<1>5. objects \in Seq(ToSet(objects))
  <2>1. objects \in [1 .. n -> ToSet(objects)]
    BY <1>3, <1>4 DEF ToSet
  <2> HIDE DEF n
  <2> QED BY <1>4, <2>1, SeqDef
<1>6. \A k \in 1 .. n : \E i \in 1 .. Len(file) :
         objects[k] = file[i] /\ i # d /\ i = IF k < d THEN k ELSE k + 1
  BY <1>2, <1>3, <1>4
<1>7. \A i \in 1 .. Len(file) : i # d => \E k \in 1 .. n : objects[k] = file[i]
  <2> SUFFICES ASSUME NEW i \in 1 .. Len(file), i # d
               PROVE  \E k \in 1 .. n : objects[k] = file[i]
    OBVIOUS
  <2>1. CASE i < d
    <3>1. i \in 1 .. n
      BY <1>2, <2>1
    <3> QED BY <1>3, <2>1, <3>1
  <2>2. CASE ~(i < d)
    <3>1. i - 1 \in 1 .. n /\ ~(i - 1 < d) /\ i - 1 + 1 = i
      BY <1>2, <2>2
    <3> QED BY <1>3, <3>1
  <2> QED BY <2>1, <2>2
<1>8. \A k, l \in DOMAIN objects : objects[k].id = objects[l].id => k = l
  <2> SUFFICES ASSUME NEW k \in 1 .. n, NEW l \in 1 .. n, objects[k].id = objects[l].id
               PROVE  k = l
    BY <1>4
  <2>1. PICK i \in 1 .. Len(file) : objects[k] = file[i] /\ i = IF k < d THEN k ELSE k + 1
    BY <1>6
  <2>2. PICK j \in 1 .. Len(file) : objects[l] = file[j] /\ j = IF l < d THEN l ELSE l + 1
    BY <1>6
  <2>3. file[i].id = file[j].id
    BY <2>1, <2>2
  <2>4. i = j
    BY <1>2, <2>3 DEF Mirror
  <2> QED BY <1>2, <2>1, <2>2, <2>4
<1>9. ToSet(objects) = {file[i] : i \in {j \in 1 .. Len(file) : file[j].id # id}}
  <2>1. \A i \in 1 .. Len(file) : i # d <=> file[i].id # id
    BY <1>2 DEF Mirror
  <2>2. ASSUME NEW k \in 1 .. n
        PROVE  objects[k] \in {file[i] : i \in {j \in 1 .. Len(file) : file[j].id # id}}
    BY <1>6, <2>1
  <2>3. ASSUME NEW i \in 1 .. Len(file), file[i].id # id
        PROVE  \E k \in 1 .. n : objects[k] = file[i]
    BY <1>7, <2>1, <2>3
  <2> QED BY <1>4, <2>2, <2>3 DEF ToSet
<1>10. ToSet(objects) = {ToJson(r) : r \in rows}
  <2>1. \A r \in table : ToJson(r).id = r.id
    BY JsonFields DEF Mirror
  <2>2. \A o : o \in ToSet(file) <=> \E r \in table : o = ToJson(r)
    BY DEF Mirror
  <2>3. \A o : o \in ToSet(objects) <=> o \in ToSet(file) /\ o.id # id
    BY <1>2, <1>9 DEF ToSet
  <2>4. \A r : r \in rows <=> r \in table /\ r.id # id
    BY DEF WithId
  <2> HIDE DEF rows
  <2> QED BY <2>1, <2>2, <2>3, <2>4
<1> QED BY <1>1, <1>5, <1>8, <1>10 DEF objects

LEMMA NextMirror == Mirror /\ [Next]_vars => Mirror'
<1> SUFFICES ASSUME Mirror, [Next]_vars PROVE Mirror'
  OBVIOUS
<1>1. CASE UNCHANGED <<table, file, agreed>>
  BY <1>1 DEF Mirror
<1>2. ASSUME NEW entity \in Entities, RepoInsert(entity) PROVE Mirror'
  <2>1. entity \in EntityType
    BY EntitiesAssumption
  <2>2. IndexOf(file, entity.id) = {} <=> WithId(table, entity.id) = {}
    BY SamePlaces
  <2>3. CASE WithId(table, entity.id) = {}
    <3>1. table' = table \cup {entity} /\ file' = Append(file, ToJson(entity)) /\ agreed'
      BY <1>2, <2>2, <2>3 DEF RepoInsert, Change, PgInsert, JsonInsert
    <3> QED BY <2>1, <2>3, <3>1, AddedRow DEF Mirror
  <2>4. CASE WithId(table, entity.id) # {}
    <3>1. UNCHANGED <<table, file>> /\ agreed'
      BY <1>2, <2>2, <2>4 DEF RepoInsert, Change, PgInsert, JsonInsert
    <3> QED BY <3>1 DEF Mirror
  <2> QED BY <2>3, <2>4
<1>3. ASSUME NEW id, WithId(table, id) # {}
      PROVE  LET d == CHOOSE i \in IndexOf(file, id) : TRUE IN d \in IndexOf(file, id)
  BY <1>3, SamePlaces
<1>4. ASSUME NEW entity \in Entities, RepoUpdate(entity) PROVE Mirror'
  <2> DEFINE id == entity.id
             d == CHOOSE i \in IndexOf(file, id) : TRUE
             rows == table \ WithId(table, id)
             objects == DropAt(file, d)
  <2>1. entity \in EntityType
    BY EntitiesAssumption
  <2>2. IndexOf(file, id) = {} <=> WithId(table, id) = {}
    BY SamePlaces
  <2>3. CASE WithId(table, id) # {}
    <3>1. table' = rows \cup {entity} /\ file' = Append(objects, ToJson(entity)) /\ agreed'
      BY <1>4, <2>2, <2>3 DEF RepoUpdate, Change, PgUpdate, JsonUpdate
    <3>2. d \in IndexOf(file, id)
      BY <1>3, <2>3
    <3> HIDE DEF d
    <3>3. /\ rows \subseteq EntityType /\ IsFiniteSet(rows)
          /\ \A r, s \in rows : r.id = s.id => r = s
          /\ objects \in Seq(ToSet(objects))
          /\ \A i, j \in DOMAIN objects : objects[i].id = objects[j].id => i = j
          /\ ToSet(objects) = {ToJson(r) : r \in rows}
          /\ WithId(rows, id) = {}
      BY <3>2, DroppedRow
    <3> HIDE DEF rows, objects
    <3> QED BY <2>1, <3>1, <3>3, AddedRow
  <2>4. CASE WithId(table, id) = {}
    <3>1. UNCHANGED <<table, file>> /\ agreed'
      BY <1>4, <2>2, <2>4 DEF RepoUpdate, Change, PgUpdate, JsonUpdate
    <3> QED BY <3>1 DEF Mirror
  <2> QED BY <2>3, <2>4
<1>5. ASSUME NEW id \in Ids, RepoRemove(id) PROVE Mirror'
  <2> DEFINE d == CHOOSE i \in IndexOf(file, id) : TRUE
             rows == table \ WithId(table, id)
             objects == DropAt(file, d)
  <2>2. IndexOf(file, id) = {} <=> WithId(table, id) = {}
    BY SamePlaces
  <2>3. CASE WithId(table, id) # {}
    <3>1. table' = rows /\ file' = objects /\ agreed'
      BY <1>5, <2>2, <2>3 DEF RepoRemove, Change, PgRemove, JsonRemove
    <3>2. d \in IndexOf(file, id)
      BY <1>3, <2>3
    <3> HIDE DEF d
    <3>3. /\ rows \subseteq EntityType /\ IsFiniteSet(rows)
          /\ \A r, s \in rows : r.id = s.id => r = s
          /\ objects \in Seq(ToSet(objects))
          /\ \A i, j \in DOMAIN objects : objects[i].id = objects[j].id => i = j
          /\ ToSet(objects) = {ToJson(r) : r \in rows}
      BY <3>2, DroppedRow
    <3> HIDE DEF rows, objects
    <3> QED BY <3>1, <3>3 DEF Mirror
  <2>4. CASE WithId(table, id) = {}
    <3>1. UNCHANGED <<table, file>> /\ agreed'
      BY <1>5, <2>2, <2>4 DEF RepoRemove, Change, PgRemove, JsonRemove
    <3> QED BY <3>1 DEF Mirror
  <2> QED BY <2>3, <2>4
<1>6. ASSUME \/ \E c \in Conditions : AddCondition(c)
             \/ \E o \in Orders : AddOrder(o)
             \/ \E p \in Pages : SetPage(p)
             \/ InitQuery
      PROVE  Mirror'
  BY <1>1, <1>6 DEF AddCondition, AddOrder, Build, SetPage, InitQuery
<1>7. CASE UNCHANGED vars
  BY <1>1, <1>7 DEF vars
<1> QED BY <1>2, <1>4, <1>5, <1>6, <1>7 DEF Next

\* After any calls, each made through every backend, the backends have returned
\* the same codes, hold the same entities and find the same ones (repo.c over
\* model_postgres.c, model_sqlite.c and model_json.c).
THEOREM BackendsAgreeAlways == Spec => []BackendsAgree
BY InitMirror, NextMirror, MirrorAgrees, PTL DEF Spec

-----------------------------------------------------------------------------
(* Patterns *)

TokenType == {Run, One, Never} \cup {Literal(byte) : byte \in Nat}

LEMMA TokenFacts ==
    /\ Run \in TokenType /\ One \in TokenType /\ Never \in TokenType /\ Run # One
    /\ \A a \in Nat : Literal(a) \in TokenType /\ Literal(a) # Run /\ Literal(a) # One
    /\ \A a, b \in Nat : Literal(a) = Literal(b) => a = b
<1>1. Run # One
  BY DEF Run, One
<1>2. \A a : Literal(a) # Run /\ Literal(a) # One
  <2> SUFFICES ASSUME NEW a PROVE Literal(a) # Run /\ Literal(a) # One
    OBVIOUS
  <2>1. Literal(a).kind = "literal" /\ Run.kind = "run" /\ One.kind = "one"
    BY DEF Literal, Run, One
  <2> QED BY <2>1
<1>3. ASSUME NEW a, NEW b, Literal(a) = Literal(b) PROVE a = b
  <2>1. Literal(a).byte = a /\ Literal(b).byte = b
    BY DEF Literal
  <2> QED BY <1>3, <2>1
<1> QED BY <1>1, <1>2, <1>3 DEF TokenType

LEMMA MoreTokens ==
    ASSUME NEW x \in TokenType, NEW s \in Seq(TokenType)
    PROVE  <<x>> \o s \in Seq(TokenType)
OBVIOUS

\* What GlobTokens computes at a place
GlobStep(pattern, tokens, i) ==
    IF i > Len(pattern) THEN <<>>
    ELSE CASE pattern[i] = Star -> <<Run>> \o tokens[i + 1]
           [] pattern[i] = Question -> <<One>> \o tokens[i + 1]
           [] pattern[i] = LeftBracket ->
                  IF i + 2 <= Len(pattern) /\ pattern[i + 2] = RightBracket
                  THEN <<Literal(pattern[i + 1])>> \o tokens[i + 3]
                  ELSE <<Never>>
           [] OTHER -> <<Literal(pattern[i])>> \o tokens[i + 1]

LEMMA GlobRead ==
    ASSUME NEW pattern \in Seq(Nat)
    PROVE  \E f : /\ GlobTokens(pattern) = f[1]
                  /\ \A i \in 1 .. Len(pattern) + 1 : f[i] = GlobStep(pattern, f, i)
<1> DEFINE n == Len(pattern) + 1
           V == Seq(TokenType)
           step == [k \in 1 .. n |-> [f \in [1 .. n -> V] |-> GlobStep(pattern, f, k)]]
<1>1. Len(pattern) \in Nat /\ n \in Nat /\ \A i \in 1 .. Len(pattern) : pattern[i] \in Nat
  OBVIOUS
<1>2. <<>> \in V /\ <<Never>> \in V
  BY TokenFacts
<1>3. ASSUME NEW f \in [1 .. n -> V], NEW k \in 1 .. n
      PROVE  GlobStep(pattern, f, k) \in V
  <2>1. CASE k > Len(pattern)
    BY <1>2, <2>1 DEF GlobStep
  <2>2. CASE ~(k > Len(pattern))
    <3>1. pattern[k] \in Nat /\ f[k + 1] \in V
      <4>1. k \in 1 .. Len(pattern) /\ k + 1 \in 1 .. n
        BY <1>1, <2>2
      <4> HIDE DEF n, V
      <4> QED BY <1>1, <4>1
    <3>2. ASSUME k + 2 <= Len(pattern)
          PROVE  pattern[k + 1] \in Nat /\ f[k + 3] \in V
      <4>1. k + 1 \in 1 .. Len(pattern) /\ k + 3 \in 1 .. n
        BY <1>1, <2>2, <3>2
      <4> HIDE DEF n, V
      <4> QED BY <1>1, <4>1
    <3>3. \A b \in Nat : Literal(b) \in TokenType
      BY TokenFacts
    <3>4. /\ <<Run>> \o f[k + 1] \in V /\ <<One>> \o f[k + 1] \in V
          /\ <<Literal(pattern[k])>> \o f[k + 1] \in V
      BY <3>1, <3>3, TokenFacts, MoreTokens
    <3>5. k + 2 <= Len(pattern) => <<Literal(pattern[k + 1])>> \o f[k + 3] \in V
      BY <3>2, <3>3, MoreTokens
    <3> HIDE DEF V
    <3> QED BY <1>2, <2>2, <3>4, <3>5 DEF GlobStep
  <2> QED BY <2>1, <2>2
<1>4. ASSUME NEW f \in [1 .. n -> V], NEW g \in [1 .. n -> V], NEW k \in 1 .. n,
             \A l \in 1 .. n : k < l => f[l] = g[l]
      PROVE  GlobStep(pattern, f, k) = GlobStep(pattern, g, k)
  <2>1. ~(k > Len(pattern)) => f[k + 1] = g[k + 1]
    BY <1>1, <1>4
  <2>2. k + 2 <= Len(pattern) => f[k + 3] = g[k + 3]
    BY <1>1, <1>4
  <2> QED BY <2>1, <2>2 DEF GlobStep
<1> HIDE DEF n, V
<1>5. step \in [1 .. n -> [[1 .. n -> V] -> V]]
  BY <1>3
<1>6. \A k \in 1 .. n : \A f, g \in [1 .. n -> V] :
         (\A l \in 1 .. n : k < l => f[l] = g[l]) => step[k][f] = step[k][g]
  BY <1>4
<1>7. \A k \in 1 .. n : \A f \in [1 .. n -> V] : step[k][f] = GlobStep(pattern, f, k)
  OBVIOUS
<1> HIDE DEF step
<1>8. PICK g : Solution(g, step, n, V)
  <2>1. Backward(step, n, V)
    BY <1>5, <1>6 DEF Backward
  <2> QED BY <1>1, <1>2, <2>1, BackwardRecursion
<1>9. \A k \in 1 .. n : g[k] = GlobStep(pattern, g, k)
  BY <1>7, <1>8 DEF Solution
<1> DEFINE tokens[i \in 1 .. Len(pattern) + 1] ==
              IF i > Len(pattern) THEN <<>>
              ELSE CASE pattern[i] = Star -> <<Run>> \o tokens[i + 1]
                     [] pattern[i] = Question -> <<One>> \o tokens[i + 1]
                     [] pattern[i] = LeftBracket ->
                            IF i + 2 <= Len(pattern) /\ pattern[i + 2] = RightBracket
                            THEN <<Literal(pattern[i + 1])>> \o tokens[i + 3]
                            ELSE <<Never>>
                     [] OTHER -> <<Literal(pattern[i])>> \o tokens[i + 1]
           Solves(f) == f = [i \in 1 .. Len(pattern) + 1 |->
              IF i > Len(pattern) THEN <<>>
              ELSE CASE pattern[i] = Star -> <<Run>> \o f[i + 1]
                     [] pattern[i] = Question -> <<One>> \o f[i + 1]
                     [] pattern[i] = LeftBracket ->
                            IF i + 2 <= Len(pattern) /\ pattern[i + 2] = RightBracket
                            THEN <<Literal(pattern[i + 1])>> \o f[i + 3]
                            ELSE <<Never>>
                     [] OTHER -> <<Literal(pattern[i])>> \o f[i + 1]]
<1>10. \A f : Solves(f) <=> f = [i \in 1 .. Len(pattern) + 1 |-> GlobStep(pattern, f, i)]
  BY DEF GlobStep
<1>11. GlobTokens(pattern) = tokens[1]
  BY DEF GlobTokens
<1>12. tokens = CHOOSE f : Solves(f)
  OBVIOUS
<1> HIDE DEF tokens, Solves
<1>13. Solves(g)
  <2>1. g = [i \in 1 .. n |-> GlobStep(pattern, g, i)]
    BY <1>8, <1>9 DEF Solution
  <2> QED BY <1>10, <2>1 DEF n
<1>14. Solves(tokens)
  BY <1>12, <1>13
<1>15. tokens = [i \in 1 .. n |-> GlobStep(pattern, tokens, i)]
  BY <1>10, <1>14 DEF n
<1>16. \A i \in 1 .. n : tokens[i] = GlobStep(pattern, tokens, i)
  BY <1>15, Zenon
<1> QED BY <1>11, <1>16, Zenon DEF n

\* What LikeTokens computes at a place
LikeStep(pattern, tokens, i) ==
    IF i > Len(pattern) THEN <<>>
    ELSE CASE pattern[i] = Percent -> <<Run>> \o tokens[i + 1]
           [] pattern[i] = Underscore -> <<One>> \o tokens[i + 1]
           [] pattern[i] = Backslash ->
                  IF i < Len(pattern)
                  THEN <<Literal(pattern[i + 1])>> \o tokens[i + 2]
                  ELSE <<Never>>
           [] OTHER -> <<Literal(pattern[i])>> \o tokens[i + 1]

LEMMA LikeRead ==
    ASSUME NEW pattern \in Seq(Nat)
    PROVE  \E f : /\ LikeTokens(pattern) = f[1]
                  /\ \A i \in 1 .. Len(pattern) + 1 : f[i] = LikeStep(pattern, f, i)
<1> DEFINE n == Len(pattern) + 1
           V == Seq(TokenType)
           step == [k \in 1 .. n |-> [f \in [1 .. n -> V] |-> LikeStep(pattern, f, k)]]
<1>1. Len(pattern) \in Nat /\ n \in Nat /\ \A i \in 1 .. Len(pattern) : pattern[i] \in Nat
  OBVIOUS
<1>2. <<>> \in V /\ <<Never>> \in V
  BY TokenFacts
<1>3. ASSUME NEW f \in [1 .. n -> V], NEW k \in 1 .. n
      PROVE  LikeStep(pattern, f, k) \in V
  <2>1. CASE k > Len(pattern)
    BY <1>2, <2>1 DEF LikeStep
  <2>2. CASE ~(k > Len(pattern))
    <3>1. pattern[k] \in Nat /\ f[k + 1] \in V
      <4>1. k \in 1 .. Len(pattern) /\ k + 1 \in 1 .. n
        BY <1>1, <2>2
      <4> HIDE DEF n, V
      <4> QED BY <1>1, <4>1
    <3>2. ASSUME k < Len(pattern)
          PROVE  pattern[k + 1] \in Nat /\ f[k + 2] \in V
      <4>1. k + 1 \in 1 .. Len(pattern) /\ k + 2 \in 1 .. n
        BY <1>1, <2>2, <3>2
      <4> HIDE DEF n, V
      <4> QED BY <1>1, <4>1
    <3>3. \A b \in Nat : Literal(b) \in TokenType
      BY TokenFacts
    <3>4. /\ <<Run>> \o f[k + 1] \in V /\ <<One>> \o f[k + 1] \in V
          /\ <<Literal(pattern[k])>> \o f[k + 1] \in V
      BY <3>1, <3>3, TokenFacts, MoreTokens
    <3>5. k < Len(pattern) => <<Literal(pattern[k + 1])>> \o f[k + 2] \in V
      BY <3>2, <3>3, MoreTokens
    <3> HIDE DEF V
    <3> QED BY <1>2, <2>2, <3>4, <3>5 DEF LikeStep
  <2> QED BY <2>1, <2>2
<1>4. ASSUME NEW f \in [1 .. n -> V], NEW g \in [1 .. n -> V], NEW k \in 1 .. n,
             \A l \in 1 .. n : k < l => f[l] = g[l]
      PROVE  LikeStep(pattern, f, k) = LikeStep(pattern, g, k)
  <2>1. ~(k > Len(pattern)) => f[k + 1] = g[k + 1]
    BY <1>1, <1>4
  <2>2. k < Len(pattern) => f[k + 2] = g[k + 2]
    BY <1>1, <1>4
  <2> QED BY <2>1, <2>2 DEF LikeStep
<1> HIDE DEF n, V
<1>5. step \in [1 .. n -> [[1 .. n -> V] -> V]]
  BY <1>3
<1>6. \A k \in 1 .. n : \A f, g \in [1 .. n -> V] :
         (\A l \in 1 .. n : k < l => f[l] = g[l]) => step[k][f] = step[k][g]
  BY <1>4
<1>7. \A k \in 1 .. n : \A f \in [1 .. n -> V] : step[k][f] = LikeStep(pattern, f, k)
  OBVIOUS
<1> HIDE DEF step
<1>8. PICK g : Solution(g, step, n, V)
  <2>1. Backward(step, n, V)
    BY <1>5, <1>6 DEF Backward
  <2> QED BY <1>1, <1>2, <2>1, BackwardRecursion
<1>9. \A k \in 1 .. n : g[k] = LikeStep(pattern, g, k)
  BY <1>7, <1>8 DEF Solution
<1> DEFINE tokens[i \in 1 .. Len(pattern) + 1] ==
              IF i > Len(pattern) THEN <<>>
              ELSE CASE pattern[i] = Percent -> <<Run>> \o tokens[i + 1]
                     [] pattern[i] = Underscore -> <<One>> \o tokens[i + 1]
                     [] pattern[i] = Backslash ->
                            IF i < Len(pattern)
                            THEN <<Literal(pattern[i + 1])>> \o tokens[i + 2]
                            ELSE <<Never>>
                     [] OTHER -> <<Literal(pattern[i])>> \o tokens[i + 1]
           Solves(f) == f = [i \in 1 .. Len(pattern) + 1 |->
              IF i > Len(pattern) THEN <<>>
              ELSE CASE pattern[i] = Percent -> <<Run>> \o f[i + 1]
                     [] pattern[i] = Underscore -> <<One>> \o f[i + 1]
                     [] pattern[i] = Backslash ->
                            IF i < Len(pattern)
                            THEN <<Literal(pattern[i + 1])>> \o f[i + 2]
                            ELSE <<Never>>
                     [] OTHER -> <<Literal(pattern[i])>> \o f[i + 1]]
<1>10. \A f : Solves(f) <=> f = [i \in 1 .. Len(pattern) + 1 |-> LikeStep(pattern, f, i)]
  BY DEF LikeStep
<1>11. LikeTokens(pattern) = tokens[1]
  BY DEF LikeTokens
<1>12. tokens = CHOOSE f : Solves(f)
  OBVIOUS
<1> HIDE DEF tokens, Solves
<1>13. Solves(g)
  <2>1. g = [i \in 1 .. n |-> LikeStep(pattern, g, i)]
    BY <1>8, <1>9 DEF Solution
  <2> QED BY <1>10, <2>1 DEF n
<1>14. Solves(tokens)
  BY <1>12, <1>13
<1>15. tokens = [i \in 1 .. n |-> LikeStep(pattern, tokens, i)]
  BY <1>10, <1>14 DEF n
<1>16. \A i \in 1 .. n : tokens[i] = LikeStep(pattern, tokens, i)
  BY <1>15, Zenon
<1> QED BY <1>11, <1>16, Zenon DEF n

\* Where a run of percent signs ends
Past(pattern, j) ==
    CHOOSE k \in j .. Len(pattern) + 1 :
        /\ \A l \in j .. k - 1 : pattern[l] = Percent
        /\ k <= Len(pattern) => pattern[k] # Percent

IsPast(pattern, j, k) ==
    /\ k \in j .. Len(pattern) + 1
    /\ \A l \in j .. k - 1 : pattern[l] = Percent
    /\ k <= Len(pattern) => pattern[k] # Percent

LEMMA PastFacts ==
    ASSUME NEW pattern, Len(pattern) \in Nat, NEW j \in 1 .. Len(pattern) + 1
    PROVE  /\ IsPast(pattern, j, Past(pattern, j))
           /\ \A k : IsPast(pattern, j, k) => k = Past(pattern, j)
<1> DEFINE X == {k \in j .. Len(pattern) + 1 : k <= Len(pattern) => pattern[k] # Percent}
<1>1. X \in SUBSET Nat /\ Len(pattern) + 1 \in X
  OBVIOUS
<1>2. PICK k \in X : \A l \in X : k <= l
  <2> HIDE DEF X
  <2> QED BY <1>1, LeastNumber
<1>3. IsPast(pattern, j, k)
  <2>1. \A l \in j .. k - 1 : l \in j .. Len(pattern) + 1 /\ ~(k <= l)
    OBVIOUS
  <2>2. \A l \in j .. k - 1 : l \notin X
    BY <1>2, <2>1
  <2> QED BY <2>1, <2>2 DEF IsPast
<1>4. IsPast(pattern, j, Past(pattern, j))
  BY <1>3 DEF IsPast, Past
<1>5. ASSUME NEW a, NEW b, IsPast(pattern, j, a), IsPast(pattern, j, b), a < b PROVE FALSE
  <2>1. a \in j .. b - 1 /\ a <= Len(pattern)
    BY <1>5 DEF IsPast
  <2> QED BY <1>5, <2>1 DEF IsPast
<1>6. ASSUME NEW k2, IsPast(pattern, j, k2) PROVE k2 = Past(pattern, j)
  <2>1. k2 \in Int /\ Past(pattern, j) \in Int
    BY <1>4, <1>6 DEF IsPast
  <2>2. ~(k2 < Past(pattern, j)) /\ ~(Past(pattern, j) < k2)
    BY <1>4, <1>5, <1>6
  <2> QED BY <2>1, <2>2
<1> QED BY <1>4, <1>6

\* What LikeMatch computes at a place of the pattern
MatchStep(text, pattern, match, j) ==
    IF j > Len(pattern) THEN {Len(text) + 1}
    ELSE IF pattern[j] = Percent
         THEN {i \in 1 .. Len(text) + 1 :
                 \/ Past(pattern, j) > Len(pattern)
                 \/ \E from \in i .. Len(text) : from \in match[Past(pattern, j)]}
    ELSE {i \in 1 .. Len(text) : text[i] = pattern[j] /\ i + 1 \in match[j + 1]}

LEMMA LikeMatchRead ==
    ASSUME NEW text, Len(text) \in Nat, NEW pattern, Len(pattern) \in Nat
    PROVE  \E f : /\ LikeMatch(text, pattern) <=> 1 \in f[1]
                  /\ \A j \in 1 .. Len(pattern) + 1 : f[j] = MatchStep(text, pattern, f, j)
<1> DEFINE n == Len(pattern) + 1
           V == SUBSET (1 .. Len(text) + 1)
           step == [k \in 1 .. n |-> [f \in [1 .. n -> V] |-> MatchStep(text, pattern, f, k)]]
<1>1. n \in Nat /\ {} \in V
  OBVIOUS
<1>2. ASSUME NEW f, NEW k PROVE MatchStep(text, pattern, f, k) \in V
  BY DEF MatchStep
<1>3. ASSUME NEW f \in [1 .. n -> V], NEW g \in [1 .. n -> V], NEW k \in 1 .. n,
             \A l \in 1 .. n : k < l => f[l] = g[l]
      PROVE  MatchStep(text, pattern, f, k) = MatchStep(text, pattern, g, k)
  <2>1. CASE k > Len(pattern)
    BY <2>1 DEF MatchStep
  <2>2. CASE ~(k > Len(pattern)) /\ pattern[k] # Percent
    <3>1. k + 1 \in 1 .. n /\ k < k + 1
      BY <2>2
    <3>2. f[k + 1] = g[k + 1]
      BY <1>3, <3>1
    <3> QED BY <2>2, <3>2 DEF MatchStep
  <2>3. CASE ~(k > Len(pattern)) /\ pattern[k] = Percent
    <3> DEFINE past == Past(pattern, k)
    <3>1. IsPast(pattern, k, past)
      BY PastFacts
    <3> HIDE DEF past
    <3>2. past \in 1 .. n /\ k < past
      BY <2>3, <3>1 DEF IsPast
    <3>3. f[past] = g[past]
      BY <1>3, <3>2
    <3> QED BY <2>3, <3>3 DEF MatchStep, past
  <2> QED BY <2>1, <2>2, <2>3
<1> HIDE DEF n, V
<1>4. Backward(step, n, V)
  <2>1. step \in [1 .. n -> [[1 .. n -> V] -> V]]
    BY <1>2
  <2>2. \A k \in 1 .. n : \A f, g \in [1 .. n -> V] :
         (\A l \in 1 .. n : k < l => f[l] = g[l]) => step[k][f] = step[k][g]
    BY <1>3
  <2> HIDE DEF step
  <2> QED BY <2>1, <2>2 DEF Backward
<1>5. \A k \in 1 .. n : \A f \in [1 .. n -> V] : step[k][f] = MatchStep(text, pattern, f, k)
  OBVIOUS
<1> HIDE DEF step
<1>6. PICK g : Solution(g, step, n, V)
  BY <1>1, <1>4, BackwardRecursion
<1>7. g = [j \in 1 .. n |-> MatchStep(text, pattern, g, j)]
  BY <1>5, <1>6 DEF Solution
<1> DEFINE match[j \in 1 .. Len(pattern) + 1] ==
              IF j > Len(pattern) THEN {Len(text) + 1}
              ELSE IF pattern[j] = Percent
                   THEN {i \in 1 .. Len(text) + 1 :
                           \/ Past(pattern, j) > Len(pattern)
                           \/ \E from \in i .. Len(text) : from \in match[Past(pattern, j)]}
              ELSE {i \in 1 .. Len(text) : text[i] = pattern[j] /\ i + 1 \in match[j + 1]}
           Solves(f) == f = [j \in 1 .. Len(pattern) + 1 |->
              IF j > Len(pattern) THEN {Len(text) + 1}
              ELSE IF pattern[j] = Percent
                   THEN {i \in 1 .. Len(text) + 1 :
                           \/ Past(pattern, j) > Len(pattern)
                           \/ \E from \in i .. Len(text) : from \in f[Past(pattern, j)]}
              ELSE {i \in 1 .. Len(text) : text[i] = pattern[j] /\ i + 1 \in f[j + 1]}]
<1>8. \A f : Solves(f) <=> f = [j \in 1 .. Len(pattern) + 1 |-> MatchStep(text, pattern, f, j)]
  BY DEF MatchStep
<1>9. LikeMatch(text, pattern) <=> 1 \in match[1]
  BY DEF LikeMatch, Past
<1>10. match = CHOOSE f : Solves(f)
  OBVIOUS
<1> HIDE DEF match, Solves
<1>11. Solves(match)
  <2>1. Solves(g)
    BY <1>7, <1>8 DEF n
  <2> QED BY <1>10, <2>1
<1>12. match = [j \in 1 .. n |-> MatchStep(text, pattern, match, j)]
  BY <1>8, <1>11 DEF n
<1>13. \A j \in 1 .. n : match[j] = MatchStep(text, pattern, match, j)
  BY <1>12, Zenon
<1> QED BY <1>9, <1>13, Zenon DEF n

\* What TokensMatch computes at a token
TokensStep(text, tokens, match, j) ==
    IF j > Len(tokens) THEN {Len(text) + 1}
    ELSE IF tokens[j] = Run
         THEN {i \in 1 .. Len(text) + 1 : \E from \in match[j + 1] : i <= from}
    ELSE {i \in 1 .. Len(text) :
            tokens[j] \in {One, Literal(text[i])} /\ i + 1 \in match[j + 1]}

LEMMA TokensMatchRead ==
    ASSUME NEW text, Len(text) \in Nat, NEW tokens, Len(tokens) \in Nat
    PROVE  \E f : /\ TokensMatch(text, tokens) <=> 1 \in f[1]
                  /\ \A j \in 1 .. Len(tokens) + 1 : f[j] = TokensStep(text, tokens, f, j)
<1> DEFINE n == Len(tokens) + 1
           V == SUBSET (1 .. Len(text) + 1)
           step == [k \in 1 .. n |-> [f \in [1 .. n -> V] |-> TokensStep(text, tokens, f, k)]]
<1>1. n \in Nat /\ {} \in V
  OBVIOUS
<1>2. ASSUME NEW f, NEW k PROVE TokensStep(text, tokens, f, k) \in V
  BY DEF TokensStep
<1>3. ASSUME NEW f \in [1 .. n -> V], NEW g \in [1 .. n -> V], NEW k \in 1 .. n,
             \A l \in 1 .. n : k < l => f[l] = g[l]
      PROVE  TokensStep(text, tokens, f, k) = TokensStep(text, tokens, g, k)
  <2>1. CASE k > Len(tokens)
    BY <2>1 DEF TokensStep
  <2>2. CASE ~(k > Len(tokens))
    <3>1. k + 1 \in 1 .. n /\ k < k + 1
      BY <2>2
    <3>2. f[k + 1] = g[k + 1]
      BY <1>3, <3>1
    <3> QED BY <2>2, <3>2 DEF TokensStep
  <2> QED BY <2>1, <2>2
<1> HIDE DEF n, V
<1>4. Backward(step, n, V)
  <2>1. step \in [1 .. n -> [[1 .. n -> V] -> V]]
    BY <1>2
  <2>2. \A k \in 1 .. n : \A f, g \in [1 .. n -> V] :
         (\A l \in 1 .. n : k < l => f[l] = g[l]) => step[k][f] = step[k][g]
    BY <1>3
  <2> HIDE DEF step
  <2> QED BY <2>1, <2>2 DEF Backward
<1>5. \A k \in 1 .. n : \A f \in [1 .. n -> V] : step[k][f] = TokensStep(text, tokens, f, k)
  OBVIOUS
<1> HIDE DEF step
<1>6. PICK g : Solution(g, step, n, V)
  BY <1>1, <1>4, BackwardRecursion
<1>7. g = [j \in 1 .. n |-> TokensStep(text, tokens, g, j)]
  BY <1>5, <1>6 DEF Solution
<1> DEFINE match[j \in 1 .. Len(tokens) + 1] ==
              IF j > Len(tokens) THEN {Len(text) + 1}
              ELSE IF tokens[j] = Run
                   THEN {i \in 1 .. Len(text) + 1 : \E from \in match[j + 1] : i <= from}
              ELSE {i \in 1 .. Len(text) :
                      tokens[j] \in {One, Literal(text[i])} /\ i + 1 \in match[j + 1]}
           Solves(f) == f = [j \in 1 .. Len(tokens) + 1 |->
              IF j > Len(tokens) THEN {Len(text) + 1}
              ELSE IF tokens[j] = Run
                   THEN {i \in 1 .. Len(text) + 1 : \E from \in f[j + 1] : i <= from}
              ELSE {i \in 1 .. Len(text) :
                      tokens[j] \in {One, Literal(text[i])} /\ i + 1 \in f[j + 1]}]
<1>8. \A f : Solves(f) <=> f = [j \in 1 .. Len(tokens) + 1 |-> TokensStep(text, tokens, f, j)]
  BY DEF TokensStep
<1>9. TokensMatch(text, tokens) <=> 1 \in match[1]
  BY DEF TokensMatch
<1>10. match = CHOOSE f : Solves(f)
  OBVIOUS
<1> HIDE DEF match, Solves
<1>11. Solves(match)
  <2>1. Solves(g)
    BY <1>7, <1>8 DEF n
  <2> QED BY <1>10, <2>1
<1>12. match = [j \in 1 .. n |-> TokensStep(text, tokens, match, j)]
  BY <1>8, <1>11 DEF n
<1>13. \A j \in 1 .. n : match[j] = TokensStep(text, tokens, match, j)
  BY <1>12, Zenon
<1> QED BY <1>9, <1>13, Zenon DEF n

\* What a pattern says from a place on, whatever the language
Token(byte) == IF byte = Percent THEN Run ELSE Literal(byte)
Meaning(pattern, j) == [k \in 1 .. Len(pattern) + 1 - j |-> Token(pattern[j + k - 1])]

LEMMA MeaningStep ==
    ASSUME NEW pattern, Len(pattern) \in Nat
    PROVE  /\ Meaning(pattern, Len(pattern) + 1) = <<>>
           /\ \A j \in 1 .. Len(pattern) :
                 Meaning(pattern, j) = <<Token(pattern[j])>> \o Meaning(pattern, j + 1)
<1>1. Meaning(pattern, Len(pattern) + 1) = <<>>
  BY DEF Meaning
<1>2. ASSUME NEW j \in 1 .. Len(pattern)
      PROVE  Meaning(pattern, j) = <<Token(pattern[j])>> \o Meaning(pattern, j + 1)
  <2> DEFINE n == Len(pattern) - j
             S == {Token(pattern[k]) : k \in 1 .. Len(pattern)}
             rest == Meaning(pattern, j + 1)
             all == Meaning(pattern, j)
             first == Token(pattern[j])
  <2>1. n \in Nat /\ Len(pattern) + 1 - j = n + 1 /\ Len(pattern) + 1 - (j + 1) = n
    OBVIOUS
  <2>2. /\ rest = [k \in 1 .. n |-> Token(pattern[j + 1 + k - 1])]
        /\ all = [k \in 1 .. n + 1 |-> Token(pattern[j + k - 1])]
    BY <2>1 DEF Meaning
  <2>3. \A k \in 1 .. n : j + 1 + k - 1 = j + k /\ j + k \in 1 .. Len(pattern)
    OBVIOUS
  <2>4. \A k \in 1 .. n + 1 : j + k - 1 \in 1 .. Len(pattern)
    OBVIOUS
  <2>5. first \in S
    OBVIOUS
  <2>6. /\ rest = [k \in 1 .. n |-> Token(pattern[j + k])]
        /\ \A k \in 1 .. n : Token(pattern[j + k]) \in S
    BY <2>2, <2>3
  <2>7. \A k \in 1 .. n + 1 : Token(pattern[j + k - 1]) \in S
    BY <2>4
  <2> HIDE DEF S, rest, all, first, n
  <2>8. rest \in Seq(S) /\ Len(rest) = n
    <3>1. rest \in [1 .. n -> S]
      BY <2>6
    <3> QED BY <2>1, <3>1, SeqDef
  <2>9. all \in Seq(S) /\ Len(all) = n + 1
    <3> DEFINE l == n + 1
    <3>1. /\ l \in Nat /\ all = [k \in 1 .. l |-> Token(pattern[j + k - 1])]
          /\ \A k \in 1 .. l : Token(pattern[j + k - 1]) \in S
      BY <2>1, <2>2, <2>7
    <3> HIDE DEF l
    <3>2. all \in [1 .. l -> S]
      BY <3>1
    <3>3. all \in Seq(S) /\ Len(all) = l
      BY <3>1, <3>2, SeqDef
    <3> QED BY <3>3 DEF l
  <2>10. /\ <<first>> \o rest \in Seq(S) /\ Len(<<first>> \o rest) = n + 1
         /\ (<<first>> \o rest)[1] = first
         /\ \A k \in 1 .. n : (<<first>> \o rest)[k + 1] = rest[k]
    BY <2>1, <2>5, <2>8
  <2>11. all[1] = first /\ \A k \in 1 .. n : all[k + 1] = rest[k]
    <3>1. all[1] = first
      <4>1. 1 \in 1 .. n + 1 /\ j + 1 - 1 = j
        BY <2>1
      <4> QED BY <2>2, <4>1 DEF first
    <3>2. ASSUME NEW k \in 1 .. n PROVE all[k + 1] = rest[k]
      <4>1. k + 1 \in 1 .. n + 1 /\ j + (k + 1) - 1 = j + k
        BY <2>1
      <4>2. all[k + 1] = Token(pattern[j + (k + 1) - 1])
        BY <2>2, <4>1
      <4> QED BY <2>6, <4>1, <4>2
    <3> QED BY <3>1, <3>2
  <2> DEFINE joined == <<first>> \o rest
  <2>12. \A k \in 1 .. n + 1 : all[k] = joined[k]
    <3> SUFFICES ASSUME NEW k \in 1 .. n + 1 PROVE all[k] = joined[k]
      OBVIOUS
    <3>1. CASE k = 1
      BY <2>10, <2>11, <3>1
    <3>2. CASE k # 1
      <4> DEFINE i == k - 1
      <4>1. i \in 1 .. n /\ k = i + 1
        BY <2>1, <3>2
      <4> HIDE DEF i, joined
      <4> QED BY <2>10, <2>11, <4>1 DEF joined
    <3> QED BY <3>1, <3>2
  <2>13. all = joined
    <3>1. joined \in Seq(S) /\ Len(joined) = n + 1
      BY <2>10
    <3> HIDE DEF joined
    <3> QED BY <2>9, <2>12, <3>1, SeqEqual
  <2> QED BY <2>13 DEF all, first, rest
<1> QED BY <1>1, <1>2

\* A reading of the pieces, one for each byte of a pattern, is one of the pattern.
LEMMA PiecesRead ==
    ASSUME NEW pattern, Len(pattern) \in Nat, NEW f, NEW start,
           f[start[Len(pattern) + 1]] = <<>>,
           \A j \in 1 .. Len(pattern) :
              f[start[j]] = <<Token(pattern[j])>> \o f[start[j + 1]]
    PROVE  f[start[1]] = Meaning(pattern, 1)
<1> DEFINE m == Len(pattern)
           X == {d \in 0 .. m : f[start[m + 1 - d]] # Meaning(pattern, m + 1 - d)}
<1>1. ASSUME NEW d \in X, \A e \in X : d <= e PROVE FALSE
  <2>1. d # 0
    <3>1. m + 1 - 0 = m + 1
      OBVIOUS
    <3> QED BY <3>1, MeaningStep
  <2> DEFINE j == m + 1 - d
  <2>2. d - 1 \in 0 .. m /\ ~(d <= d - 1) /\ m + 1 - (d - 1) = j + 1 /\ j \in 1 .. m
    BY <2>1
  <2>3. f[start[m + 1 - (d - 1)]] = Meaning(pattern, m + 1 - (d - 1))
    BY <1>1, <2>2
  <2>4. f[start[j]] # Meaning(pattern, j)
    OBVIOUS
  <2> HIDE DEF j
  <2>5. f[start[j + 1]] = Meaning(pattern, j + 1)
    BY <2>2, <2>3
  <2>6. f[start[j]] = <<Token(pattern[j])>> \o f[start[j + 1]]
    BY <2>2
  <2>7. Meaning(pattern, j) = <<Token(pattern[j])>> \o Meaning(pattern, j + 1)
    BY <2>2, MeaningStep
  <2> QED BY <2>4, <2>5, <2>6, <2>7
<1>2. X \in SUBSET Nat
  OBVIOUS
<1>3. m \notin X
  <2> HIDE DEF X
  <2> QED BY <1>1, <1>2, LeastNumber
<1>4. m \in 0 .. m /\ m + 1 - m = 1
  OBVIOUS
<1>5. f[start[m + 1 - m]] = Meaning(pattern, m + 1 - m)
  BY <1>3, <1>4
<1> QED BY <1>4, <1>5

LEMMA Bytes ==
    /\ Percent \in Nat /\ Star \in Nat /\ Question \in Nat /\ LeftBracket \in Nat
    /\ Backslash \in Nat /\ RightBracket \in Nat /\ Underscore \in Nat
    /\ Percent # Star /\ Percent # Question /\ Percent # LeftBracket
    /\ Percent # Underscore /\ Percent # Backslash /\ Underscore # Backslash
    /\ LeftBracket # Star /\ LeftBracket # Question /\ Star # Question
BY DEF Percent, Star, Question, LeftBracket, Backslash, RightBracket, Underscore

\* SQLite reads what like_pattern_to_glob writes as what the pattern says.
LEMMA GlobMeaning ==
    ASSUME NEW pattern \in Seq(Nat)
    PROVE  GlobTokens(LikePatternToGlob(pattern)) = Meaning(pattern, 1)
<1> DEFINE glob(byte) ==
              CASE byte = Percent -> <<Star>>
                [] byte \in {Star, Question, LeftBracket} ->
                       <<LeftBracket, byte, RightBracket>>
                [] OTHER -> <<byte>>
           m == Len(pattern)
           seqs == [i \in DOMAIN pattern |-> glob(pattern[i])]
           g == FlattenSeq(seqs)
<1>1. m \in Nat /\ DOMAIN pattern = 1 .. m /\ \A i \in 1 .. m : pattern[i] \in Nat
  OBVIOUS
<1>2. /\ glob(Percent) = <<Star>>
      /\ \A b \in {Star, Question, LeftBracket} : glob(b) = <<LeftBracket, b, RightBracket>>
      /\ \A b : b # Percent /\ b \notin {Star, Question, LeftBracket} => glob(b) = <<b>>
  BY Bytes
<1>3. LikePatternToGlob(pattern) = g
  BY DEF LikePatternToGlob
<1> HIDE DEF glob
<1>4. \A b \in Nat : glob(b) \in Seq(Nat)
  <2> SUFFICES ASSUME NEW b \in Nat PROVE glob(b) \in Seq(Nat)
    OBVIOUS
  <2>1. <<Star>> \in Seq(Nat) /\ <<LeftBracket, b, RightBracket>> \in Seq(Nat) /\ <<b>> \in Seq(Nat)
    BY Bytes
  <2> QED BY <1>2, <2>1
<1>5. seqs \in Seq(Seq(Nat)) /\ Len(seqs) = m /\ \A i \in 1 .. m : seqs[i] = glob(pattern[i])
  <2>1. seqs \in [1 .. m -> Seq(Nat)]
    BY <1>1, <1>4
  <2>2. \A i \in 1 .. m : seqs[i] = glob(pattern[i])
    BY <1>1
  <2> HIDE DEF m, seqs
  <2> QED BY <1>1, <2>1, <2>2, SeqDef
<1> HIDE DEF seqs
<1>6. PICK start : Starts(start, seqs, g) /\ g \in Seq(Nat)
  BY <1>5, PiecePlaces
<1> HIDE DEF m, g
<1>7. PICK f : /\ GlobTokens(g) = f[1]
               /\ \A i \in 1 .. Len(g) + 1 : f[i] = GlobStep(g, f, i)
  BY <1>6, GlobRead
<1>8. f[start[m + 1]] = <<>>
  <2>1. Len(g) \in Nat /\ start[m + 1] = Len(g) + 1
    BY <1>5, <1>6 DEF Starts
  <2> DEFINE last == Len(g) + 1
  <2>2. last \in 1 .. Len(g) + 1 /\ last > Len(g) /\ start[m + 1] = last
    BY <2>1
  <2> HIDE DEF last
  <2> QED BY <1>7, <2>2 DEF GlobStep
<1>9. ASSUME NEW j \in 1 .. m
      PROVE  f[start[j]] = <<Token(pattern[j])>> \o f[start[j + 1]]
  <2> DEFINE s == start[j]
             e == start[j + 1]
             b == pattern[j]
  <2>1. b \in Nat /\ Len(g) \in Nat /\ s \in Nat
    BY <1>1, <1>5, <1>6 DEF Starts
  <2>2. /\ e = s + Len(glob(b)) /\ e <= Len(g) + 1 /\ 1 <= s
        /\ \A d \in 1 .. Len(glob(b)) : g[s + d - 1] = glob(b)[d]
    BY <1>5, <1>6 DEF Starts
  <2> HIDE DEF s, e, b
  <2>3. Len(glob(b)) >= 1 => s \in 1 .. Len(g) + 1 /\ ~(s > Len(g))
    BY <2>1, <2>2
  <2>4. CASE b = Percent
    <3>1. Len(glob(b)) = 1 /\ glob(b)[1] = Star
      BY <1>2, <2>4
    <3>2. e = s + 1 /\ g[s] = Star /\ s \in 1 .. Len(g) + 1 /\ ~(s > Len(g))
      <4>1. s + 1 - 1 = s
        BY <2>1
      <4> QED BY <2>2, <2>3, <3>1, <4>1
    <3>3. GlobStep(g, f, s) = <<Run>> \o f[s + 1]
      BY <3>2, Bytes DEF GlobStep
    <3> QED BY <1>7, <2>4, <3>2, <3>3 DEF Token, s, e, b
  <2>5. CASE b \in {Star, Question, LeftBracket}
    <3>1. /\ Len(glob(b)) = 3 /\ glob(b)[1] = LeftBracket /\ glob(b)[2] = b
          /\ glob(b)[3] = RightBracket
      BY <1>2, <2>5
    <3>2. /\ e = s + 3 /\ g[s] = LeftBracket /\ g[s + 1] = b /\ g[s + 2] = RightBracket
          /\ s + 2 <= Len(g) /\ s \in 1 .. Len(g) + 1 /\ ~(s > Len(g))
      <4>1. s + 1 - 1 = s /\ s + 2 - 1 = s + 1 /\ s + 3 - 1 = s + 2
        BY <2>1
      <4>2. e = s + 3 /\ s + 2 <= Len(g)
        BY <2>1, <2>2, <3>1
      <4>3. 1 \in 1 .. 3 /\ 2 \in 1 .. 3 /\ 3 \in 1 .. 3
        OBVIOUS
      <4> QED BY <2>2, <2>3, <3>1, <4>1, <4>2, <4>3
    <3>3. GlobStep(g, f, s) = <<Literal(b)>> \o f[s + 3]
      BY <3>2, Bytes DEF GlobStep
    <3> QED BY <1>7, <2>5, <3>2, <3>3, Bytes DEF Token, s, e, b
  <2>6. CASE b # Percent /\ b \notin {Star, Question, LeftBracket}
    <3>1. Len(glob(b)) = 1 /\ glob(b)[1] = b
      BY <1>2, <2>6
    <3>2. e = s + 1 /\ g[s] = b /\ s \in 1 .. Len(g) + 1 /\ ~(s > Len(g))
      <4>1. s + 1 - 1 = s
        BY <2>1
      <4> QED BY <2>2, <2>3, <3>1, <4>1
    <3>3. GlobStep(g, f, s) = <<Literal(b)>> \o f[s + 1]
      BY <2>6, <3>2 DEF GlobStep
    <3> QED BY <1>7, <2>6, <3>2, <3>3 DEF Token, s, e, b
  <2> QED BY <2>4, <2>5, <2>6
<1>10. f[start[1]] = Meaning(pattern, 1)
  BY <1>1, <1>8, <1>9, PiecesRead DEF m
<1> QED BY <1>3, <1>6, <1>7, <1>10 DEF Starts

\* PostgreSQL reads what escape_like_pattern writes as what the pattern says.
LEMMA LikeMeaning ==
    ASSUME NEW pattern \in Seq(Nat)
    PROVE  LikeTokens(EscapeLikePattern(pattern)) = Meaning(pattern, 1)
<1> DEFINE escaped(byte) == IF byte \in {Backslash, Underscore} THEN <<Backslash, byte>> ELSE <<byte>>
           m == Len(pattern)
           seqs == [i \in DOMAIN pattern |-> escaped(pattern[i])]
           g == FlattenSeq(seqs)
<1>1. m \in Nat /\ DOMAIN pattern = 1 .. m /\ \A i \in 1 .. m : pattern[i] \in Nat
  OBVIOUS
<1>2. /\ \A b \in {Backslash, Underscore} : escaped(b) = <<Backslash, b>>
      /\ \A b : b \notin {Backslash, Underscore} => escaped(b) = <<b>>
  BY Bytes
<1>3. EscapeLikePattern(pattern) = g
  BY DEF EscapeLikePattern
<1> HIDE DEF escaped
<1>4. \A b \in Nat : escaped(b) \in Seq(Nat)
  <2> SUFFICES ASSUME NEW b \in Nat PROVE escaped(b) \in Seq(Nat)
    OBVIOUS
  <2>1. <<Backslash, b>> \in Seq(Nat) /\ <<b>> \in Seq(Nat)
    BY Bytes
  <2> QED BY <1>2, <2>1
<1>5. seqs \in Seq(Seq(Nat)) /\ Len(seqs) = m /\ \A i \in 1 .. m : seqs[i] = escaped(pattern[i])
  <2>1. seqs \in [1 .. m -> Seq(Nat)]
    BY <1>1, <1>4
  <2>2. \A i \in 1 .. m : seqs[i] = escaped(pattern[i])
    BY <1>1
  <2> HIDE DEF m, seqs
  <2> QED BY <1>1, <2>1, <2>2, SeqDef
<1> HIDE DEF seqs
<1>6. PICK start : Starts(start, seqs, g) /\ g \in Seq(Nat)
  BY <1>5, PiecePlaces
<1> HIDE DEF m, g
<1>7. PICK f : /\ LikeTokens(g) = f[1]
               /\ \A i \in 1 .. Len(g) + 1 : f[i] = LikeStep(g, f, i)
  BY <1>6, LikeRead
<1>8. f[start[m + 1]] = <<>>
  <2>1. Len(g) \in Nat /\ start[m + 1] = Len(g) + 1
    BY <1>5, <1>6 DEF Starts
  <2> DEFINE last == Len(g) + 1
  <2>2. last \in 1 .. Len(g) + 1 /\ last > Len(g) /\ start[m + 1] = last
    BY <2>1
  <2> HIDE DEF last
  <2> QED BY <1>7, <2>2 DEF LikeStep
<1>9. ASSUME NEW j \in 1 .. m
      PROVE  f[start[j]] = <<Token(pattern[j])>> \o f[start[j + 1]]
  <2> DEFINE s == start[j]
             e == start[j + 1]
             b == pattern[j]
  <2>1. b \in Nat /\ Len(g) \in Nat /\ s \in Nat
    BY <1>1, <1>5, <1>6 DEF Starts
  <2>2. /\ e = s + Len(escaped(b)) /\ e <= Len(g) + 1 /\ 1 <= s
        /\ \A d \in 1 .. Len(escaped(b)) : g[s + d - 1] = escaped(b)[d]
    BY <1>5, <1>6 DEF Starts
  <2> HIDE DEF s, e, b
  <2>3. Len(escaped(b)) >= 1 => s \in 1 .. Len(g) + 1 /\ ~(s > Len(g))
    BY <2>1, <2>2
  <2>4. CASE b = Percent
    <3>1. Len(escaped(b)) = 1 /\ escaped(b)[1] = Percent
      BY <1>2, <2>4, Bytes
    <3>2. e = s + 1 /\ g[s] = Percent /\ s \in 1 .. Len(g) + 1 /\ ~(s > Len(g))
      <4>1. s + 1 - 1 = s
        BY <2>1
      <4> QED BY <2>2, <2>3, <3>1, <4>1
    <3>3. LikeStep(g, f, s) = <<Run>> \o f[s + 1]
      BY <3>2, Bytes DEF LikeStep
    <3> QED BY <1>7, <2>4, <3>2, <3>3 DEF Token, s, e, b
  <2>5. CASE b \in {Backslash, Underscore}
    <3>1. Len(escaped(b)) = 2 /\ escaped(b)[1] = Backslash /\ escaped(b)[2] = b
      BY <1>2, <2>5
    <3>2. /\ e = s + 2 /\ g[s] = Backslash /\ g[s + 1] = b
          /\ s < Len(g) /\ s \in 1 .. Len(g) + 1 /\ ~(s > Len(g))
      <4>1. s + 1 - 1 = s /\ s + 2 - 1 = s + 1
        BY <2>1
      <4>2. e = s + 2 /\ s < Len(g)
        BY <2>1, <2>2, <3>1
      <4>3. 1 \in 1 .. 2 /\ 2 \in 1 .. 2
        OBVIOUS
      <4> QED BY <2>2, <2>3, <3>1, <4>1, <4>2, <4>3
    <3>3. LikeStep(g, f, s) = <<Literal(b)>> \o f[s + 2]
      BY <3>2, Bytes DEF LikeStep
    <3> QED BY <1>7, <2>5, <3>2, <3>3, Bytes DEF Token, s, e, b
  <2>6. CASE b # Percent /\ b \notin {Backslash, Underscore}
    <3>1. Len(escaped(b)) = 1 /\ escaped(b)[1] = b
      BY <1>2, <2>6
    <3>2. e = s + 1 /\ g[s] = b /\ s \in 1 .. Len(g) + 1 /\ ~(s > Len(g))
      <4>1. s + 1 - 1 = s
        BY <2>1
      <4> QED BY <2>2, <2>3, <3>1, <4>1
    <3>3. LikeStep(g, f, s) = <<Literal(b)>> \o f[s + 1]
      BY <2>6, <3>2 DEF LikeStep
    <3> QED BY <1>7, <2>6, <3>2, <3>3 DEF Token, s, e, b
  <2> QED BY <2>4, <2>5, <2>6
<1>10. f[start[1]] = Meaning(pattern, 1)
  BY <1>1, <1>8, <1>9, PiecesRead DEF m
<1> QED BY <1>3, <1>6, <1>7, <1>10 DEF Starts

\* The memory, SQLite and PostgreSQL agree about every text and every pattern.
LEMMA TokensLikeMatch ==
    ASSUME NEW text \in Seq(Nat), NEW pattern \in Seq(Nat)
    PROVE  TokensMatch(text, Meaning(pattern, 1)) <=> LikeMatch(text, pattern)
<1> DEFINE n == Len(text)
           m == Len(pattern)
           tokens == Meaning(pattern, 1)
<1>1. /\ n \in Nat /\ m \in Nat
      /\ \A i \in 1 .. n : text[i] \in Nat
      /\ \A j \in 1 .. m : pattern[j] \in Nat
  OBVIOUS
<1>2. Len(tokens) = m /\ \A j \in 1 .. m : tokens[j] = Token(pattern[j])
  <2>1. m + 1 - 1 = m /\ \A j \in 1 .. m : 1 + j - 1 = j
    BY <1>1
  <2>2. tokens = [k \in 1 .. m |-> Token(pattern[1 + k - 1])]
    BY <2>1 DEF Meaning
  <2>3. tokens = [k \in 1 .. m |-> Token(pattern[k])]
    BY <2>1, <2>2
  <2> HIDE DEF tokens, m
  <2>4. Len(tokens) = m
    BY <1>1, <2>3
  <2> QED BY <2>3, <2>4
<1> HIDE DEF tokens
<1>3. PICK t : /\ TokensMatch(text, tokens) <=> 1 \in t[1]
               /\ \A j \in 1 .. m + 1 : t[j] = TokensStep(text, tokens, t, j)
  BY <1>1, <1>2, TokensMatchRead
<1>4. PICK l : /\ LikeMatch(text, pattern) <=> 1 \in l[1]
               /\ \A j \in 1 .. m + 1 : l[j] = MatchStep(text, pattern, l, j)
  BY <1>1, LikeMatchRead
<1> DEFINE X == {d \in 0 .. m : \E e \in 0 .. d : t[m + 1 - e] # l[m + 1 - e]}
<1>5. ASSUME NEW j \in 1 .. m, \A k \in 1 .. m + 1 : j < k => t[k] = l[k]
      PROVE  t[j] = l[j]
  <2>1. /\ j \in 1 .. m + 1 /\ j + 1 \in 1 .. m + 1 /\ j < j + 1 /\ ~(j > m)
        /\ pattern[j] \in Nat /\ tokens[j] = Token(pattern[j])
    BY <1>1, <1>2
  <2>2. t[j + 1] = l[j + 1]
    BY <1>5, <2>1
  <2>3. t[j] = TokensStep(text, tokens, t, j) /\ l[j] = MatchStep(text, pattern, l, j)
    BY <1>3, <1>4, <2>1
  <2>4. CASE pattern[j] # Percent
    <3>1. tokens[j] = Literal(pattern[j]) /\ tokens[j] # Run
      BY <2>1, <2>4, TokenFacts DEF Token
    <3>2. \A i \in 1 .. n : tokens[j] \in {One, Literal(text[i])} <=> text[i] = pattern[j]
      BY <1>1, <2>1, <3>1, TokenFacts
    <3>3. TokensStep(text, tokens, t, j)
             = {i \in 1 .. n : tokens[j] \in {One, Literal(text[i])} /\ i + 1 \in t[j + 1]}
      BY <1>2, <2>1, <3>1 DEF TokensStep
    <3>4. MatchStep(text, pattern, l, j)
             = {i \in 1 .. n : text[i] = pattern[j] /\ i + 1 \in l[j + 1]}
      BY <2>1, <2>4 DEF MatchStep
    <3> QED BY <2>2, <2>3, <3>2, <3>3, <3>4
  <2>5. CASE pattern[j] = Percent
    <3> DEFINE past == Past(pattern, j)
               next == Past(pattern, j + 1)
    <3>1. tokens[j] = Run
      BY <2>1, <2>5 DEF Token
    <3>2. t[j] = {i \in 1 .. n + 1 : \E from \in l[j + 1] : i <= from}
      BY <1>2, <2>1, <2>2, <2>3, <3>1 DEF TokensStep
    <3>3. l[j] = {i \in 1 .. n + 1 : past > m \/ \E from \in i .. n : from \in l[past]}
      BY <2>1, <2>3, <2>5 DEF MatchStep
    <3>4. IsPast(pattern, j, past) /\ IsPast(pattern, j + 1, next)
      BY <1>1, <2>1, PastFacts
    <3>5. past = next
      <4>1. next \in j .. m + 1 /\ \A k \in j .. next - 1 : k = j \/ k \in j + 1 .. next - 1
        BY <1>1, <3>4 DEF IsPast
      <4>2. IsPast(pattern, j, next)
        BY <2>5, <3>4, <4>1 DEF IsPast
      <4> HIDE DEF past, next
      <4>3. next = Past(pattern, j)
        BY <1>1, <2>1, <4>2, PastFacts
      <4> QED BY <4>3 DEF past
    <3>6. past \in j + 1 .. m + 1
      BY <3>4, <3>5 DEF IsPast
    <3> HIDE DEF past, next
    <3>7. l[j + 1] = MatchStep(text, pattern, l, j + 1)
      BY <1>4, <2>1
    <3>8. CASE j = m
      <4>1. past = m + 1 /\ past > m /\ j + 1 > m
        BY <1>1, <3>6, <3>8
      <4>2. l[j + 1] = {n + 1}
        BY <3>7, <4>1 DEF MatchStep
      <4> QED BY <1>1, <3>2, <3>3, <4>1, <4>2
    <3>9. CASE j # m /\ pattern[j + 1] = Percent
      <4>1. ~(j + 1 > m)
        BY <1>1, <2>1, <3>9
      <4>2. l[j + 1] = {i \in 1 .. n + 1 : past > m \/ \E from \in i .. n : from \in l[past]}
        BY <3>5, <3>7, <3>9, <4>1 DEF MatchStep, next
      <4>3. ASSUME NEW i \in 1 .. n + 1, NEW from \in l[j + 1], i <= from
            PROVE  past > m \/ \E at \in i .. n : at \in l[past]
        <5>1. from \in 1 .. n + 1 /\ (past > m \/ \E at \in from .. n : at \in l[past])
          BY <4>2
        <5>2. \A at \in from .. n : at \in i .. n
          BY <1>1, <4>3, <5>1
        <5> QED BY <5>1, <5>2
      <4>4. ASSUME NEW i \in 1 .. n + 1, past > m \/ \E at \in i .. n : at \in l[past]
            PROVE  i \in l[j + 1] /\ i <= i
        BY <1>1, <4>2, <4>4
      <4> QED BY <3>2, <3>3, <4>3, <4>4
    <3>10. CASE j # m /\ pattern[j + 1] # Percent
      <4>1. ~(j + 1 > m)
        BY <1>1, <2>1, <3>10
      <4>2. past = j + 1 /\ ~(past > m)
        <5>1. next = j + 1
          <6>1. next \in Int /\ ~(j + 1 \in j + 1 .. next - 1)
            BY <3>4, <3>10 DEF IsPast
          <6> QED BY <3>5, <3>6, <6>1
        <5> QED BY <3>5, <4>1, <5>1
      <4>3. l[j + 1] = {i \in 1 .. n : text[i] = pattern[j + 1] /\ i + 1 \in l[j + 1 + 1]}
        BY <3>7, <3>10, <4>1 DEF MatchStep
      <4>4. \A from \in l[j + 1] : from \in 1 .. n
        BY <4>3
      <4>5. \A i \in 1 .. n + 1 :
               (\E from \in l[j + 1] : i <= from) <=> (\E from \in i .. n : from \in l[j + 1])
        BY <1>1, <4>4
      <4> QED BY <3>2, <3>3, <4>2, <4>5
    <3> QED BY <3>8, <3>9, <3>10
  <2> QED BY <2>4, <2>5
<1>6. ASSUME NEW d \in X, \A e \in X : d <= e PROVE FALSE
  <2>1. CASE d = 0
    <3> DEFINE last == m + 1
    <3>1. t[last] # l[last]
      <4>1. \A e \in 0 .. 0 : m + 1 - e = m + 1
        BY <1>1
      <4> QED BY <2>1, <4>1
    <3>2. last \in 1 .. m + 1 /\ last > m
      BY <1>1
    <3> HIDE DEF last
    <3> QED BY <1>2, <1>3, <1>4, <3>1, <3>2 DEF TokensStep, MatchStep
  <2>2. CASE d # 0
    <3> DEFINE j == m + 1 - d
    <3>1. d - 1 \in 0 .. m /\ ~(d <= d - 1) /\ j \in 1 .. m
      BY <1>1, <2>2
    <3>2. \A e \in 0 .. d - 1 : t[m + 1 - e] = l[m + 1 - e]
      BY <1>6, <3>1
    <3>3. ASSUME NEW k \in 1 .. m + 1, j < k PROVE t[k] = l[k]
      <4> DEFINE e == m + 1 - k
      <4>1. e \in 0 .. d - 1 /\ m + 1 - e = k
        BY <1>1, <3>1, <3>3
      <4> HIDE DEF e, j
      <4> QED BY <3>2, <4>1
    <3>4. t[j] = l[j]
      <4> HIDE DEF j
      <4> QED BY <1>5, <3>1, <3>3
    <3>5. ASSUME NEW e \in 0 .. d PROVE t[m + 1 - e] = l[m + 1 - e]
      <4>1. e = d \/ e \in 0 .. d - 1
        BY <1>1
      <4> QED BY <3>2, <3>4, <4>1
    <3> QED BY <3>5
  <2> QED BY <2>1, <2>2
<1>7. X \in SUBSET Nat
  BY <1>1
<1>8. m \notin X
  <2> HIDE DEF X
  <2> QED BY <1>6, <1>7, LeastNumber
<1>9. m \in 0 .. m /\ m + 1 - m = 1
  BY <1>1
<1>10. t[1] = l[1]
  <2>1. t[m + 1 - m] = l[m + 1 - m]
    BY <1>8, <1>9
  <2> QED BY <1>9, <2>1
<1> QED BY <1>3, <1>4, <1>10 DEF tokens

-----------------------------------------------------------------------------
(* Orders *)

\* What three comparisons of a, b and c - a with b, b with c, a with c - are to
\* each other when they compare by one order
Sign == {-1, 0, 1}
Chain(x, y, z) ==
    /\ x = 0 => z = y
    /\ y = 0 => z = x
    /\ x < 0 /\ y < 0 => z < 0
    /\ x > 0 /\ y > 0 => z > 0

\* v is the first of n comparisons that differs from 0, and 0 if all are 0.
IsFirst(d, n, v) ==
    \/ v = 0 /\ \A k \in 1 .. n : d[k] = 0
    \/ \E k \in 1 .. n : v = d[k] /\ d[k] # 0 /\ \A l \in 1 .. k - 1 : d[l] = 0

LEMMA FirstUnique ==
    ASSUME NEW n \in Nat, NEW d, NEW v, NEW w, IsFirst(d, n, v), IsFirst(d, n, w)
    PROVE  v = w
<1>1. CASE v = 0 /\ \A k \in 1 .. n : d[k] = 0
  BY <1>1 DEF IsFirst
<1>2. CASE w = 0 /\ \A k \in 1 .. n : d[k] = 0
  BY <1>2 DEF IsFirst
<1>3. ASSUME NEW k \in 1 .. n, v = d[k], d[k] # 0, \A l \in 1 .. k - 1 : d[l] = 0,
             NEW j \in 1 .. n, w = d[j], d[j] # 0, \A l \in 1 .. j - 1 : d[l] = 0
      PROVE  v = w
  <2>1. ~(j < k) /\ ~(k < j)
    <3>1. j < k => j \in 1 .. k - 1
      OBVIOUS
    <3>2. k < j => k \in 1 .. j - 1
      OBVIOUS
    <3> QED BY <1>3, <3>1, <3>2
  <2>2. j = k
    BY <2>1
  <2> QED BY <1>3, <2>2
<1> QED BY <1>1, <1>2, <1>3 DEF IsFirst

LEMMA FirstChain ==
    ASSUME NEW n \in Nat, NEW ab, NEW bc, NEW ac, NEW x, NEW y, NEW z,
           \A k \in 1 .. n : ab[k] \in Sign /\ bc[k] \in Sign /\ ac[k] \in Sign,
           \A k \in 1 .. n : Chain(ab[k], bc[k], ac[k]),
           IsFirst(ab, n, x), IsFirst(bc, n, y), IsFirst(ac, n, z)
    PROVE  Chain(x, y, z) /\ x \in Sign
<1>1. x \in Sign
  BY DEF IsFirst, Sign
<1>2. CASE \A k \in 1 .. n : ab[k] = 0
  <2>1. \A k \in 1 .. n : ac[k] = bc[k]
    BY <1>2 DEF Chain
  <2>2. x = 0
    BY <1>2 DEF IsFirst
  <2>3. IsFirst(ac, n, y)
    <3>1. \A k \in 1 .. n : \A l \in 1 .. k - 1 : l \in 1 .. n
      OBVIOUS
    <3> QED BY <2>1, <3>1 DEF IsFirst
  <2>4. z = y
    BY <2>3, FirstUnique
  <2> QED BY <1>1, <2>2, <2>4 DEF Chain
<1>3. CASE \A k \in 1 .. n : bc[k] = 0
  <2>1. \A k \in 1 .. n : ac[k] = ab[k]
    BY <1>3 DEF Chain
  <2>2. y = 0
    BY <1>3 DEF IsFirst
  <2>3. IsFirst(ac, n, x)
    <3>1. \A k \in 1 .. n : \A l \in 1 .. k - 1 : l \in 1 .. n
      OBVIOUS
    <3> QED BY <2>1, <3>1 DEF IsFirst
  <2>4. z = x
    BY <2>3, FirstUnique
  <2> QED BY <1>1, <2>2, <2>4 DEF Chain
<1>4. ASSUME NEW p \in 1 .. n, x = ab[p], ab[p] # 0, \A l \in 1 .. p - 1 : ab[l] = 0,
             NEW q \in 1 .. n, y = bc[q], bc[q] # 0, \A l \in 1 .. q - 1 : bc[l] = 0
      PROVE  Chain(x, y, z)
  <2>1. \A k \in 1 .. n : (ab[k] = 0 => ac[k] = bc[k]) /\ (bc[k] = 0 => ac[k] = ab[k])
    BY DEF Chain
  <2>2. CASE p < q
    <3>1. p \in 1 .. q - 1 /\ \A l \in 1 .. p - 1 : l \in 1 .. q - 1 /\ l \in 1 .. n
      BY <2>2
    <3>2. ac[p] = ab[p] /\ \A l \in 1 .. p - 1 : ac[l] = 0
      BY <1>4, <2>1, <3>1
    <3>3. IsFirst(ac, n, x)
      BY <1>4, <3>2 DEF IsFirst
    <3>4. z = x
      BY <3>3, FirstUnique
    <3> QED BY <1>4, <3>4 DEF Chain, Sign
  <2>3. CASE q < p
    <3>1. q \in 1 .. p - 1 /\ \A l \in 1 .. q - 1 : l \in 1 .. p - 1 /\ l \in 1 .. n
      BY <2>3
    <3>2. ac[q] = bc[q] /\ \A l \in 1 .. q - 1 : ac[l] = 0
      BY <1>4, <2>1, <3>1
    <3>3. IsFirst(ac, n, y)
      BY <1>4, <3>2 DEF IsFirst
    <3>4. z = y
      BY <3>3, FirstUnique
    <3> QED BY <1>4, <3>4 DEF Chain, Sign
  <2>4. CASE p = q
    <3>1. \A l \in 1 .. p - 1 : l \in 1 .. n
      OBVIOUS
    <3>2. \A l \in 1 .. p - 1 : ac[l] = 0
      BY <1>4, <2>1, <2>4, <3>1
    <3>3. ac[p] # 0 => IsFirst(ac, n, ac[p])
      BY <3>2 DEF IsFirst
    <3>4. Chain(ab[p], bc[p], ac[p])
      OBVIOUS
    <3>5. ac[p] # 0 => z = ac[p]
      BY <3>3, FirstUnique
    <3>6. x # 0 /\ y # 0 /\ x = ab[p] /\ y = bc[p]
      BY <1>4, <2>4
    <3>7. (x < 0 /\ y < 0 => ac[p] < 0) /\ (x > 0 /\ y > 0 => ac[p] > 0)
      BY <3>4, <3>6 DEF Chain
    <3>8. ac[p] \in Int
      BY DEF Sign
    <3> QED BY <3>5, <3>6, <3>7, <3>8 DEF Chain
  <2> QED BY <2>2, <2>3, <2>4
<1> QED BY <1>1, <1>2, <1>3, <1>4 DEF IsFirst

\* What a comparison of the elements of S must be to sort them; it is given as a
\* function of two elements.
IsOrder(order, S) ==
    /\ \A a, b \in S : order[<<a, b>>] \in Sign
    /\ \A a \in S : order[<<a, a>>] = 0
    /\ \A a, b, c \in S : Chain(order[<<a, b>>], order[<<b, c>>], order[<<a, c>>])

LEMMA OrderFacts ==
    ASSUME NEW order, NEW S, IsOrder(order, S)
    PROVE  /\ \A a, b \in S : order[<<a, b>>] <= 0 \/ order[<<b, a>>] <= 0
           /\ \A a, b, c \in S : order[<<a, b>>] <= 0 /\ order[<<b, c>>] <= 0 => order[<<a, c>>] <= 0
<1>1. ASSUME NEW a \in S, NEW b \in S PROVE order[<<a, b>>] <= 0 \/ order[<<b, a>>] <= 0
  <2> DEFINE x == order[<<a, b>>]
             y == order[<<b, a>>]
  <2>1. x \in Sign /\ y \in Sign /\ Chain(x, y, 0)
    <3>1. order[<<a, a>>] = 0 /\ Chain(x, y, order[<<a, a>>])
      BY DEF IsOrder
    <3> QED BY <3>1 DEF IsOrder
  <2> HIDE DEF x, y
  <2>2. x <= 0 \/ y <= 0
    BY <2>1 DEF Sign, Chain
  <2> QED BY <2>2 DEF x, y
<1>2. ASSUME NEW a \in S, NEW b \in S, NEW c \in S, order[<<a, b>>] <= 0, order[<<b, c>>] <= 0
      PROVE  order[<<a, c>>] <= 0
  <2> DEFINE x == order[<<a, b>>]
             y == order[<<b, c>>]
             z == order[<<a, c>>]
  <2>1. x \in Sign /\ y \in Sign /\ z \in Sign /\ Chain(x, y, z) /\ x <= 0 /\ y <= 0
    BY <1>2 DEF IsOrder
  <2> HIDE DEF x, y, z
  <2>2. z <= 0
    BY <2>1 DEF Sign, Chain
  <2> QED BY <2>2 DEF z
<1> QED BY <1>1, <1>2

LEMMA NumberOrderFacts ==
    ASSUME NEW a \in Int, NEW b \in Int, NEW c \in Int
    PROVE  /\ NumberOrder(a, b) \in Sign /\ NumberOrder(a, a) = 0
           /\ NumberOrder(a, b) = 0 <=> a = b
           /\ Chain(NumberOrder(a, b), NumberOrder(b, c), NumberOrder(a, c))
BY DEF NumberOrder, Sign, Chain

\* Texts are compared at their first difference, if the comparison goes far enough.
LEMMA TextFirst ==
    ASSUME NEW a \in Seq(Nat), NEW b \in Seq(Nat), NEW n \in Nat, Len(a) + Len(b) <= n
    PROVE  IsFirst([k \in 1 .. n |-> NumberOrder(Byte(a, k), Byte(b, k))], n, TextOrder(a, b))
<1> DEFINE d == [k \in 1 .. n |-> NumberOrder(Byte(a, k), Byte(b, k))]
           differs == {i \in 1 .. Len(a) + Len(b) : Byte(a, i) # Byte(b, i)}
<1>1. Len(a) \in Nat /\ Len(b) \in Nat
  OBVIOUS
<1>2. \A k \in 1 .. n : Byte(a, k) \in Nat /\ Byte(b, k) \in Nat
  BY <1>1 DEF Byte
<1>3. \A k \in 1 .. n : k \notin 1 .. Len(a) + Len(b) => Byte(a, k) = 0 /\ Byte(b, k) = 0
  BY <1>1 DEF Byte
<1>4. \A k \in 1 .. n : d[k] = 0 <=> k \notin differs
  <2> SUFFICES ASSUME NEW k \in 1 .. n PROVE d[k] = 0 <=> k \notin differs
    OBVIOUS
  <2>1. d[k] = NumberOrder(Byte(a, k), Byte(b, k))
    OBVIOUS
  <2>2. d[k] = 0 <=> Byte(a, k) = Byte(b, k)
    BY <1>2, <2>1, NumberOrderFacts
  <2> HIDE DEF d
  <2> QED BY <1>3, <2>2
<1>5. differs \in SUBSET Nat /\ \A i \in differs : i \in 1 .. n
  BY <1>1
<1>6. CASE differs = {}
  <2>1. TextOrder(a, b) = 0
    BY <1>6 DEF TextOrder
  <2> HIDE DEF d, differs
  <2> QED BY <1>4, <1>6, <2>1 DEF IsFirst, d
<1>7. CASE differs # {}
  <2> DEFINE first == CHOOSE i \in differs : \A j \in differs : i <= j
  <2>1. TextOrder(a, b) = IF Byte(a, first) < Byte(b, first) THEN -1 ELSE 1
    BY <1>7 DEF TextOrder
  <2> HIDE DEF differs
  <2>2. first \in differs /\ \A j \in differs : first <= j
    <3>1. \E i \in differs : \A j \in differs : i <= j
      BY <1>5, <1>7, LeastNumber
    <3> QED BY <3>1
  <2> HIDE DEF first
  <2>3. first \in 1 .. n /\ Byte(a, first) \in Nat /\ Byte(b, first) \in Nat
        /\ Byte(a, first) # Byte(b, first)
    BY <1>2, <1>5, <2>2 DEF differs
  <2>4. d[first] = TextOrder(a, b) /\ d[first] # 0
    <3>1. d[first] = NumberOrder(Byte(a, first), Byte(b, first))
      BY <2>3
    <3> HIDE DEF d
    <3> QED BY <2>1, <2>3, <3>1 DEF NumberOrder
  <2>5. \A l \in 1 .. first - 1 : l \in 1 .. n /\ l \notin differs
    BY <2>2, <2>3
  <2> HIDE DEF d
  <2>6. \A l \in 1 .. first - 1 : d[l] = 0
    BY <1>4, <2>5
  <2> QED BY <2>3, <2>4, <2>6 DEF IsFirst, d
<1> QED BY <1>6, <1>7

LEMMA TextOrderFacts ==
    ASSUME NEW a \in Seq(Nat), NEW b \in Seq(Nat), NEW c \in Seq(Nat)
    PROVE  /\ TextOrder(a, b) \in Sign /\ TextOrder(a, a) = 0
           /\ Chain(TextOrder(a, b), TextOrder(b, c), TextOrder(a, c))
<1> DEFINE n == Len(a) + Len(b) + Len(c)
           ab == [k \in 1 .. n |-> NumberOrder(Byte(a, k), Byte(b, k))]
           bc == [k \in 1 .. n |-> NumberOrder(Byte(b, k), Byte(c, k))]
           ac == [k \in 1 .. n |-> NumberOrder(Byte(a, k), Byte(c, k))]
<1>1. /\ n \in Nat /\ Len(a) + Len(b) <= n /\ Len(b) + Len(c) <= n /\ Len(a) + Len(c) <= n
  OBVIOUS
<1> HIDE DEF n
<1>2. /\ IsFirst(ab, n, TextOrder(a, b)) /\ IsFirst(bc, n, TextOrder(b, c))
      /\ IsFirst(ac, n, TextOrder(a, c))
  BY <1>1, TextFirst
<1>3. \A k \in 1 .. n : Byte(a, k) \in Int /\ Byte(b, k) \in Int /\ Byte(c, k) \in Int
  BY DEF Byte
<1>4. \A k \in 1 .. n : ab[k] \in Sign /\ bc[k] \in Sign /\ ac[k] \in Sign
  BY <1>3, NumberOrderFacts
<1>5. \A k \in 1 .. n : Chain(ab[k], bc[k], ac[k])
  BY <1>3, NumberOrderFacts
<1> HIDE DEF ab, bc, ac
<1>6. Chain(TextOrder(a, b), TextOrder(b, c), TextOrder(a, c)) /\ TextOrder(a, b) \in Sign
  BY <1>1, <1>2, <1>4, <1>5, FirstChain
<1>7. TextOrder(a, a) = 0
  BY DEF TextOrder
<1> QED BY <1>6, <1>7

LEMMA FieldCompareFacts ==
    ASSUME NEW field \in Fields, NEW r \in EntityType, NEW s \in EntityType, NEW t \in EntityType
    PROVE  /\ FieldCompare(field, r[field], s[field]) \in Sign
           /\ FieldCompare(field, r[field], r[field]) = 0
           /\ Chain(FieldCompare(field, r[field], s[field]), FieldCompare(field, s[field], t[field]),
                    FieldCompare(field, r[field], t[field]))
<1>1. field \in {"id", "name", "data"} /\ (Textual(field) <=> field = "name")
  BY DEF Fields, FieldType, Textual
<1>2. CASE field = "name"
  <2>1. r[field] \in Seq(Nat) /\ s[field] \in Seq(Nat) /\ t[field] \in Seq(Nat)
    BY <1>2 DEF EntityType
  <2> QED BY <1>1, <1>2, <2>1, TextOrderFacts DEF FieldCompare
<1>3. CASE field # "name"
  <2>1. r[field] \in Int /\ s[field] \in Int /\ t[field] \in Int
    BY <1>1, <1>3 DEF EntityType
  <2> QED BY <1>1, <1>3, <2>1, NumberOrderFacts DEF FieldCompare
<1> QED BY <1>2, <1>3

\* bb_sort_cmp compares by an order.
SortKeys(sorts) == sorts \in Seq(ToSet(sorts)) /\ \A i \in DOMAIN sorts : sorts[i].field \in Fields

KeyCompare(sorts, a, b, i) == FieldCompare(sorts[i].field, a[sorts[i].field], b[sorts[i].field])
SignedCompare(sorts, a, b, i) ==
    IF sorts[i].direction = "asc" THEN KeyCompare(sorts, a, b, i) ELSE -KeyCompare(sorts, a, b, i)

LEMMA SignedFacts ==
    ASSUME NEW sorts, SortKeys(sorts), NEW i \in DOMAIN sorts,
           NEW a \in EntityType, NEW b \in EntityType, NEW c \in EntityType
    PROVE  /\ SignedCompare(sorts, a, b, i) \in Sign
           /\ SignedCompare(sorts, a, a, i) = 0
           /\ SignedCompare(sorts, a, b, i) = 0 <=> KeyCompare(sorts, a, b, i) = 0
           /\ Chain(SignedCompare(sorts, a, b, i), SignedCompare(sorts, b, c, i),
                    SignedCompare(sorts, a, c, i))
<1> DEFINE x == KeyCompare(sorts, a, b, i)
           y == KeyCompare(sorts, b, c, i)
           z == KeyCompare(sorts, a, c, i)
           w == KeyCompare(sorts, a, a, i)
<1>1. sorts[i].field \in Fields
  BY DEF SortKeys
<1>2. x \in Sign /\ y \in Sign /\ z \in Sign /\ w = 0
  BY <1>1, FieldCompareFacts DEF KeyCompare
<1>3. Chain(x, y, z)
  BY <1>1, FieldCompareFacts DEF KeyCompare
<1> HIDE DEF x, y, z, w
<1>4. -x \in Sign /\ -w = 0 /\ (-x = 0 <=> x = 0) /\ Chain(-x, -y, -z)
  <2>1. x \in Int /\ y \in Int /\ z \in Int
    BY <1>2 DEF Sign
  <2>2. -x \in Sign
    BY <1>2 DEF Sign
  <2>3. (-x = 0 => -z = -y) /\ (-y = 0 => -z = -x)
    BY <1>3, <2>1 DEF Chain
  <2>4. (-x < 0 /\ -y < 0 => -z < 0) /\ (-x > 0 /\ -y > 0 => -z > 0)
    BY <1>3, <2>1 DEF Chain
  <2>5. Chain(-x, -y, -z)
    BY <2>3, <2>4 DEF Chain
  <2>6. \A v \in Int : -v = 0 <=> v = 0
    OBVIOUS
  <2>7. w \in Int
    BY <1>2
  <2>8. -x = 0 <=> x = 0
    BY <2>1, <2>6
  <2>9. -w = 0
    BY <1>2, <2>6, <2>7
  <2> QED BY <2>2, <2>5, <2>8, <2>9
<1>5. CASE sorts[i].direction = "asc"
  BY <1>2, <1>3, <1>5 DEF SignedCompare, x, y, z, w
<1>6. CASE sorts[i].direction # "asc"
  BY <1>2, <1>4, <1>6 DEF SignedCompare, x, y, z, w
<1> QED BY <1>5, <1>6

LEMMA SortFirst ==
    ASSUME NEW sorts, SortKeys(sorts), NEW a \in EntityType, NEW b \in EntityType
    PROVE  IsFirst([i \in 1 .. Len(sorts) |-> SignedCompare(sorts, a, b, i)], Len(sorts),
                   SortCompare(sorts, a, b))
<1> DEFINE n == Len(sorts)
           d == [i \in 1 .. n |-> SignedCompare(sorts, a, b, i)]
           order(i) == FieldCompare(sorts[i].field, a[sorts[i].field], b[sorts[i].field])
           differs == {i \in DOMAIN sorts : order(i) # 0}
<1>1. n \in Nat /\ DOMAIN sorts = 1 .. n
  BY DEF SortKeys
<1>2. \A i \in 1 .. n : d[i] = SignedCompare(sorts, a, b, i)
  OBVIOUS
<1>3. \A i : order(i) = KeyCompare(sorts, a, b, i)
  BY DEF KeyCompare
<1>4. \A i \in 1 .. n : d[i] = 0 <=> i \notin differs
  <2> SUFFICES ASSUME NEW i \in 1 .. n PROVE d[i] = 0 <=> i \notin differs
    OBVIOUS
  <2>1. d[i] = 0 <=> KeyCompare(sorts, a, b, i) = 0
    BY <1>1, <1>2, SignedFacts
  <2>2. i \in differs <=> order(i) # 0
    BY <1>1
  <2> HIDE DEF d, differs, order
  <2> QED BY <1>3, <2>1, <2>2
<1>5. CASE differs = {}
  <2>1. SortCompare(sorts, a, b) = 0
    BY <1>5 DEF SortCompare
  <2> HIDE DEF d, differs, order
  <2> QED BY <1>4, <1>5, <2>1 DEF IsFirst, d
<1>6. CASE differs # {}
  <2> DEFINE first == CHOOSE i \in differs : \A j \in differs : i <= j
  <2>1. SortCompare(sorts, a, b)
           = IF sorts[first].direction = "asc" THEN order(first) ELSE -order(first)
    BY <1>6 DEF SortCompare
  <2>2. differs \in SUBSET Nat /\ \A i \in differs : i \in 1 .. n
    BY <1>1
  <2> HIDE DEF differs, order, d
  <2>3. first \in differs /\ \A j \in differs : first <= j
    <3>1. \E i \in differs : \A j \in differs : i <= j
      BY <1>6, <2>2, LeastNumber
    <3> QED BY <3>1
  <2> HIDE DEF first
  <2>4. first \in 1 .. n
    BY <2>2, <2>3
  <2>5. d[first] = SortCompare(sorts, a, b) /\ d[first] # 0
    BY <1>2, <1>3, <1>4, <2>1, <2>3, <2>4 DEF SignedCompare
  <2>6. \A l \in 1 .. first - 1 : l \in 1 .. n /\ l \notin differs
    BY <1>1, <2>2, <2>3, <2>4
  <2>7. \A l \in 1 .. first - 1 : d[l] = 0
    BY <1>4, <2>6
  <2> QED BY <2>4, <2>5, <2>7 DEF IsFirst, d
<1> QED BY <1>5, <1>6

Order(sorts) == [p \in EntityType \X EntityType |-> SortCompare(sorts, p[1], p[2])]

LEMMA SortIsOrder ==
    ASSUME NEW sorts, SortKeys(sorts)
    PROVE  IsOrder(Order(sorts), EntityType)
<1> DEFINE n == Len(sorts)
<1>1. n \in Nat /\ DOMAIN sorts = 1 .. n
  BY DEF SortKeys
<1>2. \A a, b \in EntityType : Order(sorts)[<<a, b>>] = SortCompare(sorts, a, b)
  BY DEF Order
<1>3. ASSUME NEW a \in EntityType, NEW b \in EntityType, NEW c \in EntityType
      PROVE  /\ SortCompare(sorts, a, b) \in Sign
             /\ SortCompare(sorts, a, a) = 0
             /\ Chain(SortCompare(sorts, a, b), SortCompare(sorts, b, c), SortCompare(sorts, a, c))
  <2> DEFINE ab == [i \in 1 .. n |-> SignedCompare(sorts, a, b, i)]
             bc == [i \in 1 .. n |-> SignedCompare(sorts, b, c, i)]
             ac == [i \in 1 .. n |-> SignedCompare(sorts, a, c, i)]
             aa == [i \in 1 .. n |-> SignedCompare(sorts, a, a, i)]
  <2>1. IsFirst(ab, n, SortCompare(sorts, a, b)) /\ IsFirst(bc, n, SortCompare(sorts, b, c))
        /\ IsFirst(ac, n, SortCompare(sorts, a, c)) /\ IsFirst(aa, n, SortCompare(sorts, a, a))
    BY SortFirst
  <2>2. \A k \in 1 .. n : ab[k] \in Sign /\ bc[k] \in Sign /\ ac[k] \in Sign
    BY <1>1, SignedFacts
  <2>3. \A k \in 1 .. n : Chain(ab[k], bc[k], ac[k])
    BY <1>1, SignedFacts
  <2>4. \A k \in 1 .. n : aa[k] = 0
    BY <1>1, SignedFacts
  <2> HIDE DEF ab, bc, ac, aa
  <2>5. SortCompare(sorts, a, a) = 0
    BY <2>1, <2>4 DEF IsFirst
  <2> HIDE DEF n
  <2>6. Chain(SortCompare(sorts, a, b), SortCompare(sorts, b, c), SortCompare(sorts, a, c))
        /\ SortCompare(sorts, a, b) \in Sign
    BY <1>1, <2>1, <2>2, <2>3, FirstChain
  <2> QED BY <2>5, <2>6
<1> QED BY <1>2, <1>3 DEF IsOrder

-----------------------------------------------------------------------------
(* Listings of a set *)

LEMMA ListingFacts ==
    ASSUME NEW S, IsFiniteSet(S)
    PROVE  /\ Cardinality(S) \in Nat
           /\ \E s : s \in SetToSeqs(S)
           /\ \A s \in SetToSeqs(S) :
                 /\ s \in Seq(S) /\ Len(s) = Cardinality(S) /\ DOMAIN s = 1 .. Cardinality(S)
                 /\ ToSet(s) = S
                 /\ \A i, j \in DOMAIN s : s[i] = s[j] => i = j
<1> DEFINE n == Cardinality(S)
<1>1. n \in Nat /\ ExistsBijection(1 .. n, S)
  BY FS_CardinalityType
<1> HIDE DEF n
<1>2. SetToSeqs(S) = {f \in [1 .. n -> S] : \A i, j \in 1 .. n : i # j => f[i] # f[j]}
  BY DEF SetToSeqs, n
<1>3. \E s : s \in SetToSeqs(S)
  <2>1. PICK f : f \in Bijection(1 .. n, S)
    BY <1>1 DEF ExistsBijection
  <2>2. f \in [1 .. n -> S] /\ \A i, j \in 1 .. n : f[i] = f[j] => i = j
    BY <2>1 DEF Bijection, Injection, IsInjective
  <2> QED BY <1>2, <2>2
<1>4. ASSUME NEW s \in SetToSeqs(S)
      PROVE  /\ s \in Seq(S) /\ Len(s) = n /\ DOMAIN s = 1 .. n
             /\ ToSet(s) = S
             /\ \A i, j \in DOMAIN s : s[i] = s[j] => i = j
  <2>1. s \in [1 .. n -> S] /\ \A i, j \in 1 .. n : s[i] = s[j] => i = j
    BY <1>2
  <2>2. s \in Seq(S) /\ Len(s) = n /\ DOMAIN s = 1 .. n
    BY <1>1, <2>1, SeqDef
  <2>3. s \in Injection(1 .. n, S)
    BY <2>1 DEF Injection, IsInjective
  <2>4. Cardinality(1 .. n) = n
    <3>1. Cardinality(1 .. n) = IF 1 > n THEN 0 ELSE n - 1 + 1
      BY <1>1, FS_Interval
    <3> QED BY <1>1, <3>1
  <2>5. s \in Surjection(1 .. n, S)
    BY <2>3, <2>4, FS_Injection DEF n
  <2>6. ToSet(s) = S
    BY <2>1, <2>2, <2>5 DEF Surjection, ToSet
  <2> QED BY <2>1, <2>2, <2>6
<1> QED BY <1>1, <1>3, <1>4 DEF n

\* A finite set has a greatest element in an order.
LEMMA GreatestElement ==
    ASSUME NEW order, NEW T, IsOrder(order, T), NEW S \in SUBSET T, IsFiniteSet(S), S # {}
    PROVE  \E g \in S : \A r \in S : order[<<r, g>>] <= 0
<1> DEFINE Has(U) == \E g \in U : \A r \in U : order[<<r, g>>] <= 0
           X == {n \in Nat : \E U \in SUBSET T :
                    IsFiniteSet(U) /\ U # {} /\ Cardinality(U) = n /\ ~Has(U)}
<1>1. ASSUME NEW n \in X, \A m \in X : n <= m PROVE FALSE
  <2>1. PICK U \in SUBSET T : IsFiniteSet(U) /\ U # {} /\ Cardinality(U) = n /\ ~Has(U)
    OBVIOUS
  <2>2. PICK x : x \in U
    BY <2>1
  <2> DEFINE V == U \ {x}
  <2>3. IsFiniteSet(V) /\ Cardinality(V) = n - 1 /\ V \in SUBSET T
    BY <2>1, <2>2, FS_RemoveElement
  <2>4. n - 1 \in Nat /\ ~(n <= n - 1)
    BY <2>3, FS_CardinalityType
  <2>5. x \in T /\ order[<<x, x>>] <= 0
    BY <2>2 DEF IsOrder
  <2>6. CASE V = {}
    <3>1. \A r \in U : r = x
      BY <2>6
    <3>2. Has(U)
      BY <2>2, <2>5, <3>1
    <3> QED BY <2>1, <3>2
  <2>7. CASE V # {}
    <3>1. Has(V)
      <4> HIDE DEF Has, V
      <4> QED BY <1>1, <2>3, <2>4, <2>7
    <3>2. PICK g \in V : \A r \in V : order[<<r, g>>] <= 0
      BY <3>1
    <3>3. g \in U /\ g \in T /\ \A r \in U : r \in T /\ (r = x \/ r \in V)
      OBVIOUS
    <3>4. CASE order[<<x, g>>] <= 0
      <4>1. \A r \in U : order[<<r, g>>] <= 0
        BY <3>2, <3>3, <3>4
      <4>2. Has(U)
        BY <3>3, <4>1
      <4> QED BY <2>1, <4>2
    <3>5. CASE order[<<g, x>>] <= 0
      <4>1. \A r \in U : order[<<r, x>>] <= 0
        BY <2>5, <3>2, <3>3, <3>5, OrderFacts
      <4>2. Has(U)
        BY <2>2, <4>1
      <4> QED BY <2>1, <4>2
    <3> QED BY <2>5, <3>3, <3>4, <3>5, OrderFacts
  <2> QED BY <2>6, <2>7
<1>2. X \in SUBSET Nat
  OBVIOUS
<1>3. X = {}
  <2> HIDE DEF X
  <2> QED BY <1>1, <1>2, LeastNumber
<1>4. Cardinality(S) \in Nat
  BY FS_CardinalityType
<1>5. Has(S)
  <2> HIDE DEF Has
  <2> QED BY <1>3, <1>4
<1> QED BY <1>5

\* Rows can be sorted by any keys.
LEMMA SortedExists ==
    ASSUME NEW sorts, SortKeys(sorts), NEW S \in SUBSET EntityType, IsFiniteSet(S)
    PROVE  Sorted(S, sorts) # {}
<1> DEFINE X == {n \in Nat : \E U \in SUBSET EntityType :
                    IsFiniteSet(U) /\ Cardinality(U) = n /\ Sorted(U, sorts) = {}}
<1>1. ASSUME NEW n \in X, \A m \in X : n <= m PROVE FALSE
  <2>1. PICK U \in SUBSET EntityType :
           IsFiniteSet(U) /\ Cardinality(U) = n /\ Sorted(U, sorts) = {}
    OBVIOUS
  <2>2. CASE U = {}
    <3>1. PICK s : s \in SetToSeqs(U)
      BY <2>1, ListingFacts
    <3>2. DOMAIN s = 1 .. 0
      BY <2>1, <2>2, <3>1, ListingFacts, FS_EmptySet
    <3>3. s \in Sorted(U, sorts)
      BY <3>1, <3>2 DEF Sorted
    <3> QED BY <2>1, <3>3
  <2>3. CASE U # {}
    <3>1. PICK g \in U : \A r \in U : Order(sorts)[<<r, g>>] <= 0
      BY <2>1, <2>3, SortIsOrder, GreatestElement
    <3>2. \A r \in U : SortCompare(sorts, r, g) <= 0
      BY <3>1 DEF Order
    <3> DEFINE V == U \ {g}
    <3>3. IsFiniteSet(V) /\ Cardinality(V) = n - 1 /\ V \in SUBSET EntityType
      BY <2>1, FS_RemoveElement
    <3>4. n - 1 \in Nat /\ ~(n <= n - 1) /\ n \in Nat
      BY <3>3, FS_CardinalityType
    <3>5. Sorted(V, sorts) # {}
      <4> HIDE DEF V
      <4> QED BY <1>1, <3>3, <3>4
    <3>6. PICK s \in SetToSeqs(V) :
             \A i, j \in DOMAIN s : i < j => SortCompare(sorts, s[i], s[j]) <= 0
      BY <3>5 DEF Sorted
    <3> DEFINE m == n - 1
    <3>7. /\ s \in Seq(V) /\ Len(s) = m /\ DOMAIN s = 1 .. m
          /\ \A i, j \in DOMAIN s : s[i] = s[j] => i = j
      BY <3>3, ListingFacts
    <3>8. m \in Nat /\ m + 1 = n
      BY <3>4
    <3>9. \A i \in 1 .. m : s[i] \in U /\ s[i] # g
      BY <3>7
    <3> DEFINE t == [i \in 1 .. n |-> IF i = n THEN g ELSE s[i]]
    <3>10. t[n] = g /\ \A i \in 1 .. n : i = n \/ (i \in 1 .. m /\ t[i] = s[i])
      BY <3>4, <3>8
    <3>11. t \in [1 .. n -> U]
      <4>1. \A i \in 1 .. n : (IF i = n THEN g ELSE s[i]) \in U
        BY <3>8, <3>9
      <4> QED BY <4>1
    <3> HIDE DEF t, m
    <3>12. \A i, j \in 1 .. n : i # j => t[i] # t[j]
      BY <3>7, <3>9, <3>10
    <3>13. t \in SetToSeqs(U)
      BY <2>1, <3>11, <3>12 DEF SetToSeqs
    <3>14. ASSUME NEW i \in 1 .. n, NEW j \in 1 .. n, i < j
           PROVE  SortCompare(sorts, t[i], t[j]) <= 0
      <4>1. i \in 1 .. m /\ t[i] = s[i]
        BY <3>4, <3>10, <3>14
      <4>2. CASE j = n
        BY <3>2, <3>9, <3>10, <4>1, <4>2
      <4>3. CASE j # n
        BY <3>6, <3>7, <3>10, <3>14, <4>1, <4>3
      <4> QED BY <4>2, <4>3
    <3>15. t \in Sorted(U, sorts)
      <4>1. DOMAIN t = 1 .. n
        BY <3>11
      <4> QED BY <3>13, <3>14, <4>1 DEF Sorted
    <3> QED BY <2>1, <3>15
  <2> QED BY <2>2, <2>3
<1>2. X \in SUBSET Nat
  OBVIOUS
<1>3. X = {}
  <2> HIDE DEF X
  <2> QED BY <1>1, <1>2, LeastNumber
<1>4. Cardinality(S) \in Nat
  BY FS_CardinalityType
<1> QED BY <1>3, <1>4

-----------------------------------------------------------------------------
(* Queries *)

\* The statements hold of a row what the reference holds of it.
GoodCondition(c) ==
    /\ c.field \in Fields
    /\ c.cmp = "like" /\ c.field = "name" => c.value \in Seq(Nat)

LEMMA HoldsAgree ==
    ASSUME NEW row \in EntityType, NEW c, GoodCondition(c)
    PROVE  (SqliteHolds(row, c) <=> CondMatches(row, c)) /\ (PgHolds(row, c) <=> CondMatches(row, c))
<1>1. CASE c.cmp # "like"
  BY <1>1 DEF SqliteHolds, PgHolds, CondMatches
<1>2. CASE c.cmp = "like" /\ ~Textual(c.field)
  BY <1>2 DEF SqliteHolds, PgHolds, CondMatches
<1>3. CASE c.cmp = "like" /\ Textual(c.field)
  <2>1. c.field = "name"
    BY <1>3 DEF Textual, FieldType, GoodCondition, Fields
  <2>2. c.value \in Seq(Nat) /\ row[c.field] \in Seq(Nat)
    BY <1>3, <2>1 DEF GoodCondition, EntityType
  <2>3. /\ GlobTokens(LikePatternToGlob(c.value)) = Meaning(c.value, 1)
        /\ LikeTokens(EscapeLikePattern(c.value)) = Meaning(c.value, 1)
    BY <2>2, GlobMeaning, LikeMeaning
  <2>4. TokensMatch(row[c.field], Meaning(c.value, 1)) <=> LikeMatch(row[c.field], c.value)
    BY <2>2, TokensLikeMatch
  <2> QED BY <1>3, <2>3, <2>4 DEF SqliteHolds, PgHolds, CondMatches
<1> QED BY <1>1, <1>2, <1>3

\* A long that fits an int is passed on as it is.
LEMMA ToIntFits ==
    ASSUME NEW n \in Nat, 2 * n < IntRange
    PROVE  ToInt(n) = n
<1>1. n % IntRange = n
  BY QueryAssumption
<1> QED BY <1>1, QueryAssumption DEF ToInt

\* A negative limit is none and a negative offset is zero, on both sides.
LEMMA PagesAgree ==
    ASSUME NEW s, Len(s) \in Nat, NEW limit \in Int, NEW offset \in Int,
           2 * limit < IntRange, 2 * offset < IntRange
    PROVE  /\ Page(s, IF limit >= 0 THEN ToInt(limit) ELSE -1,
                      IF offset >= 0 THEN ToInt(offset) ELSE 0) = Page(s, limit, offset)
           /\ Page(s, limit, IF offset >= 0 THEN offset ELSE 0) = Page(s, limit, offset)
<1>1. limit >= 0 => ToInt(limit) = limit
  BY ToIntFits
<1>2. offset >= 0 => ToInt(offset) = offset
  BY ToIntFits
<1> DEFINE L == IF limit >= 0 THEN ToInt(limit) ELSE -1
           O == IF offset >= 0 THEN ToInt(offset) ELSE 0
           P == IF offset >= 0 THEN offset ELSE 0
<1>3. L \in Int /\ O \in Int /\ P = O
  BY <1>1, <1>2
<1>4. (L >= 0 <=> limit >= 0) /\ (limit >= 0 => L = limit)
  BY <1>1
<1>5. (O > 0 <=> offset > 0) /\ (offset > 0 => O = offset)
  BY <1>2
<1> HIDE DEF L, O, P
<1>6. (IF O > 0 THEN O ELSE 0) = (IF offset > 0 THEN offset ELSE 0)
  BY <1>5
<1>7. \A m : (IF L >= 0 /\ L < m THEN L ELSE m) = (IF limit >= 0 /\ limit < m THEN limit ELSE m)
  BY <1>4
<1>8. Page(s, L, O) = Page(s, limit, offset)
  BY <1>6, <1>7 DEF Page
<1>9. Page(s, limit, O) = Page(s, limit, offset)
  BY <1>6 DEF Page
<1> QED BY <1>3, <1>8, <1>9 DEF L, O, P

\* What is kept of a sequence is its beginning if only that is to be kept.
LEMMA ThosePrefix ==
    ASSUME NEW S, NEW s \in Seq(S), NEW r \in Seq(S), NEW keep,
           keep \cap DOMAIN (s \o r) = 1 .. Len(s)
    PROVE  Those(s \o r, keep) = s
<1> DEFINE u == s \o r
           n == Len(s)
           m == Len(u)
           seqs == [i \in DOMAIN u |-> IF i \in keep THEN <<u[i]>> ELSE <<>>]
           w == FlattenSeq(seqs)
<1>1. u \in Seq(S) /\ m = n + Len(r) /\ n \in Nat /\ m \in Nat /\ n <= m /\ DOMAIN u = 1 .. m
      /\ \A i \in 1 .. n : u[i] = s[i]
  BY ConcatProperties
<1>2. seqs \in Seq(Seq(S)) /\ Len(seqs) = m
  <2>1. \A i \in 1 .. m : u[i] \in S
    BY <1>1
  <2>2. \A i \in 1 .. m : (IF i \in keep THEN <<u[i]>> ELSE <<>>) \in Seq(S)
    BY <2>1
  <2>3. seqs \in [1 .. m -> Seq(S)]
    BY <1>1, <2>2
  <2> HIDE DEF seqs, m
  <2> QED BY <1>1, <2>3, SeqDef
<1>3. \A i \in 1 .. m : i \in keep <=> i <= n
  BY <1>1
<1>4. \A i \in 1 .. m : seqs[i] = IF i <= n THEN <<u[i]>> ELSE <<>>
  BY <1>1, <1>3
<1>5. Those(s \o r, keep) = w
  BY DEF Those
<1> HIDE DEF u, n, m, seqs, w
<1>6. PICK start : Starts(start, seqs, w) /\ w \in Seq(S)
  BY <1>2, PiecePlaces DEF w
<1>7. /\ start[1] = 1 /\ start[m + 1] = Len(w) + 1
      /\ \A j \in 1 .. m : start[j + 1] = start[j] + Len(seqs[j])
  BY <1>2, <1>6 DEF Starts
<1>8. \A j \in 1 .. m : Len(seqs[j]) = IF j <= n THEN 1 ELSE 0
  <2> SUFFICES ASSUME NEW j \in 1 .. m PROVE Len(seqs[j]) = IF j <= n THEN 1 ELSE 0
    OBVIOUS
  <2>1. CASE j <= n
    <3>1. seqs[j] = <<u[j]>>
      BY <1>4, <2>1
    <3>2. Len(seqs[j]) = 1
      BY <3>1
    <3> QED BY <2>1, <3>2
  <2>2. CASE ~(j <= n)
    <3>1. seqs[j] = <<>>
      BY <1>4, <2>2
    <3>2. Len(seqs[j]) = 0
      BY <3>1
    <3> QED BY <2>2, <3>2
  <2> QED BY <2>1, <2>2
<1> DEFINE place(j) == IF j <= n THEN j ELSE n + 1
           X == {j \in 1 .. m + 1 : start[j] # place(j)}
<1>9. ASSUME NEW k \in X, \A j \in X : k <= j PROVE FALSE
  <2>1. k \in 1 .. m + 1 /\ k # 1
    BY <1>1, <1>7
  <2>2. PICK i \in 1 .. m : k = i + 1
    <3>1. k - 1 \in 1 .. m /\ k = (k - 1) + 1
      BY <1>1, <2>1
    <3> QED BY <3>1
  <2>3. i \notin X /\ i \in 1 .. m + 1
    BY <1>1, <1>9, <2>2
  <2>4. start[i] = place(i)
    BY <2>3
  <2>5. start[i + 1] = start[i] + (IF i <= n THEN 1 ELSE 0)
    BY <1>7, <1>8, <2>2
  <2>6. start[i + 1] = place(i + 1)
    BY <1>1, <2>2, <2>4, <2>5
  <2> QED BY <2>2, <2>6
<1>10. \A j \in 1 .. m + 1 : start[j] = place(j)
  <2>1. X \in SUBSET Nat
    BY <1>1
  <2>2. X = {}
    <3> HIDE DEF X
    <3> QED BY <1>9, <2>1, LeastNumber
  <2> QED BY <2>2
<1>11. Len(w) = n
  <2>1. start[m + 1] = n + 1
    BY <1>1, <1>10
  <2>2. Len(w) \in Nat
    BY <1>6
  <2> QED BY <1>1, <1>7, <2>1, <2>2
<1>12. ASSUME NEW j \in 1 .. n PROVE w[j] = s[j]
  <2>1. j \in 1 .. m /\ start[j] = j /\ 1 \in 1 .. Len(seqs[j])
    BY <1>1, <1>8, <1>10
  <2>2. w[start[j] + 1 - 1] = seqs[j][1]
    BY <1>2, <1>6, <2>1 DEF Starts
  <2>3. start[j] + 1 - 1 = j
    BY <2>1
  <2>4. seqs[j] = <<s[j]>>
    <3>1. u[j] = s[j] /\ j <= n
      BY <1>1
    <3>2. seqs[j] = <<u[j]>>
      BY <1>4, <2>1, <3>1
    <3> QED BY <3>1, <3>2
  <2> QED BY <2>2, <2>3, <2>4
<1>13. s \in Seq(S) /\ Len(s) = n
  BY DEF n
<1>14. w = s
  BY <1>6, <1>11, <1>12, <1>13
<1> QED BY <1>5, <1>14

\* A listing of some rows can be continued to one of all.
LEMMA ListingContinued ==
    ASSUME NEW T, IsFiniteSet(T), NEW R \in SUBSET T, NEW s \in SetToSeqs(R)
    PROVE  \E r \in SetToSeqs(T \ R) :
              /\ s \o r \in SetToSeqs(T) /\ s \in Seq(T) /\ r \in Seq(T)
              /\ \A i \in DOMAIN (s \o r) : (s \o r)[i] \in R <=> i \in 1 .. Len(s)
<1> DEFINE V == T \ R
           n == Len(s)
           p == Cardinality(V)
<1>1. IsFiniteSet(R) /\ IsFiniteSet(V) /\ Cardinality(V) = Cardinality(T) - Cardinality(R)
  <2>1. IsFiniteSet(R) /\ IsFiniteSet(V)
    BY FS_Subset
  <2>2. Cardinality(V) = Cardinality(T) - Cardinality(T \cap R) /\ T \cap R = R
    BY FS_Difference
  <2> QED BY <2>1, <2>2
<1>2. s \in Seq(R) /\ n = Cardinality(R) /\ DOMAIN s = 1 .. n /\ n \in Nat
      /\ \A i, j \in 1 .. n : s[i] = s[j] => i = j
  BY <1>1, ListingFacts
<1>3. PICK r : r \in SetToSeqs(V)
  BY <1>1, ListingFacts
<1>4. r \in Seq(V) /\ Len(r) = p /\ DOMAIN r = 1 .. p /\ p \in Nat
      /\ \A i, j \in 1 .. p : r[i] = r[j] => i = j
  <2> HIDE DEF V
  <2> QED BY <1>1, <1>3, ListingFacts
<1>5. s \in Seq(T) /\ r \in Seq(T)
  BY <1>2, <1>4
<1>6. Cardinality(T) \in Nat
  BY FS_CardinalityType
<1> DEFINE u == s \o r
           m == Cardinality(T)
<1>7. m = n + p
  BY <1>1, <1>2, <1>4, <1>6
<1>8. u \in Seq(T) /\ Len(u) = m
      /\ \A i \in 1 .. m : u[i] = IF i <= n THEN s[i] ELSE r[i - n]
  <2>1. u \in Seq(T) /\ Len(u) = n + p
        /\ \A i \in 1 .. n + p : u[i] = IF i <= n THEN s[i] ELSE r[i - n]
    <3>1. u \in Seq(T) /\ Len(u) = Len(s) + Len(r)
          /\ \A i \in 1 .. Len(s) + Len(r) : u[i] = IF i <= Len(s) THEN s[i] ELSE r[i - Len(s)]
      BY <1>5, ConcatProperties
    <3>2. Len(r) = p
      BY <1>4
    <3> HIDE DEF u, p
    <3> QED BY <3>1, <3>2
  <2> HIDE DEF u, m, n, p
  <2> QED BY <1>7, <2>1
<1>9. DOMAIN u = 1 .. m /\ u \in [1 .. m -> T]
  <2> HIDE DEF u, m
  <2> QED BY <1>6, <1>8, LenProperties
<1> HIDE DEF u, m, n, p
<1>10. \A i \in 1 .. n : s[i] \in R
  BY <1>2
<1>11. \A i \in 1 .. p : r[i] \in T /\ r[i] \notin R
  BY <1>4
<1>12. ASSUME NEW i \in 1 .. m
       PROVE  \/ i \in 1 .. n /\ u[i] = s[i] /\ u[i] \in R
              \/ i > n /\ i - n \in 1 .. p /\ u[i] = r[i - n] /\ u[i] \notin R
  <2>1. i \in 1 .. n \/ (i > n /\ i - n \in 1 .. p)
    BY <1>2, <1>4, <1>7
  <2>2. CASE i \in 1 .. n
    BY <1>2, <1>8, <1>10, <2>2
  <2>3. CASE i > n /\ i - n \in 1 .. p
    <3>1. u[i] = r[i - n]
      BY <1>2, <1>8, <2>3
    <3> QED BY <1>11, <2>3, <3>1
  <2> QED BY <2>1, <2>2, <2>3
<1>13. ASSUME NEW i \in 1 .. m, NEW j \in 1 .. m, u[i] = u[j] PROVE i = j
  <2>1. CASE u[i] \in R
    <3>1. i \in 1 .. n /\ j \in 1 .. n /\ s[i] = s[j]
      BY <1>12, <1>13, <2>1
    <3> QED BY <1>2, <3>1
  <2>2. CASE u[i] \notin R
    <3>1. i - n \in 1 .. p /\ u[i] = r[i - n]
      BY <1>12, <2>2
    <3>2. j - n \in 1 .. p /\ u[j] = r[j - n]
      BY <1>12, <1>13, <2>2
    <3>3. i - n = j - n
      BY <1>4, <1>13, <3>1, <3>2
    <3> QED BY <1>2, <1>6, <3>3 DEF m
  <2> QED BY <2>1, <2>2
<1>14. u \in SetToSeqs(T)
  BY <1>9, <1>13 DEF SetToSeqs, m
<1>15. \A i \in DOMAIN u : u[i] \in R <=> i \in 1 .. n
  BY <1>2, <1>9, <1>12
<1> QED BY <1>3, <1>5, <1>14, <1>15 DEF u, n

\* The queries that the builder makes
IsQuery(q) ==
    /\ q = [conditions |-> q.conditions, sorts |-> q.sorts, limit |-> q.limit, offset |-> q.offset]
    /\ q.conditions \in Seq(ToSet(q.conditions))
    /\ \A i \in DOMAIN q.conditions : GoodCondition(q.conditions[i])
    /\ SortKeys(q.sorts)
    /\ q.limit \in Int /\ q.offset \in Int

LEMMA NoQueryIsQuery == IsQuery(NoQuery)
<1>1. <<>> \in Seq(ToSet(<<>>)) /\ DOMAIN <<>> = {}
  OBVIOUS
<1>2. SortKeys(<<>>)
  BY <1>1 DEF SortKeys
<1> QED BY <1>1, <1>2 DEF IsQuery, NoQuery

LEMMA NextIsQuery ==
    ASSUME IsQuery(query), [Next]_vars
    PROVE  IsQuery(query)'
<1> SUFFICES IsQuery(query')
  BY DEF IsQuery, SortKeys
<1>1. ASSUME NEW c \in Conditions, query' = Where(query, c.field, c.cmp, c.value)
      PROVE  IsQuery(query')
  <2>1. CASE c.field \in Fields /\ Len(query.conditions) < MaxConditions
    <3> DEFINE added == [field |-> c.field, cmp |-> c.cmp, value |-> c.value]
               longer == Append(query.conditions, added)
    <3>1. query' = [conditions |-> longer, sorts |-> query.sorts,
                    limit |-> query.limit, offset |-> query.offset]
      BY <1>1, <2>1 DEF Where, IsQuery
    <3>2. GoodCondition(added)
      BY <2>1, QueriesAssumption DEF GoodCondition
    <3> HIDE DEF added
    <3>3. longer \in Seq(ToSet(longer))
      BY AppendElements DEF IsQuery
    <3>4. \A i \in DOMAIN longer : \/ i \in DOMAIN query.conditions /\ longer[i] = query.conditions[i]
                                   \/ longer[i] = added
      BY AppendElements DEF IsQuery
    <3> HIDE DEF longer
    <3>5. \A i \in DOMAIN longer : GoodCondition(longer[i])
      BY <3>2, <3>4 DEF IsQuery
    <3>6. /\ query'.conditions = longer /\ query'.sorts = query.sorts
          /\ query'.limit = query.limit /\ query'.offset = query.offset
      BY <3>1
    <3> QED BY <3>1, <3>3, <3>5, <3>6 DEF IsQuery
  <2>2. CASE ~(c.field \in Fields /\ Len(query.conditions) < MaxConditions)
    BY <1>1, <2>2 DEF Where
  <2> QED BY <2>1, <2>2
<1>2. ASSUME NEW o \in Orders, query' = OrderBy(query, o.field, o.direction)
      PROVE  IsQuery(query')
  <2>1. CASE o.field \in Fields /\ Len(query.sorts) < MaxSorts
    <3> DEFINE added == [field |-> o.field, direction |-> o.direction]
               longer == Append(query.sorts, added)
    <3>1. query' = [conditions |-> query.conditions, sorts |-> longer,
                    limit |-> query.limit, offset |-> query.offset]
      BY <1>2, <2>1 DEF OrderBy, IsQuery
    <3>2. added.field \in Fields
      BY <2>1
    <3> HIDE DEF added
    <3>3. longer \in Seq(ToSet(longer))
      BY AppendElements DEF IsQuery, SortKeys
    <3>4. \A i \in DOMAIN longer : \/ i \in DOMAIN query.sorts /\ longer[i] = query.sorts[i]
                                   \/ longer[i] = added
      BY AppendElements DEF IsQuery, SortKeys
    <3> HIDE DEF longer
    <3>5. \A i \in DOMAIN longer : longer[i].field \in Fields
      BY <3>2, <3>4 DEF IsQuery, SortKeys
    <3>6. SortKeys(longer)
      BY <3>3, <3>5 DEF SortKeys
    <3>7. /\ query'.conditions = query.conditions /\ query'.sorts = longer
          /\ query'.limit = query.limit /\ query'.offset = query.offset
      BY <3>1
    <3> QED BY <3>1, <3>6, <3>7 DEF IsQuery
  <2>2. CASE ~(o.field \in Fields /\ Len(query.sorts) < MaxSorts)
    BY <1>2, <2>2 DEF OrderBy
  <2> QED BY <2>1, <2>2
<1>3. ASSUME NEW p \in Pages, query' = [query EXCEPT !.limit = p.limit, !.offset = p.offset]
      PROVE  IsQuery(query')
  <2>1. query' = [conditions |-> query.conditions, sorts |-> query.sorts,
                  limit |-> p.limit, offset |-> p.offset]
    BY <1>3 DEF IsQuery
  <2>2. p.limit \in Int /\ p.offset \in Int
    BY QueriesAssumption
  <2>3. /\ query'.conditions = query.conditions /\ query'.sorts = query.sorts
        /\ query'.limit = p.limit /\ query'.offset = p.offset
    BY <2>1
  <2> QED BY <2>1, <2>2, <2>3 DEF IsQuery
<1>4. CASE query' = query
  BY <1>4
<1>5. CASE InitQuery
  BY <1>5, NoQueryIsQuery DEF InitQuery
<1>6. CASE \E entity \in Entities : RepoInsert(entity) \/ RepoUpdate(entity)
  <2>1. query' = query
    BY <1>6 DEF RepoInsert, RepoUpdate, Change
  <2> QED BY <1>4, <2>1
<1>7. CASE \E id \in Ids : RepoRemove(id)
  <2>1. query' = query
    BY <1>7 DEF RepoRemove, Change
  <2> QED BY <1>4, <2>1
<1>8. CASE \E c \in Conditions : AddCondition(c)
  BY <1>1, <1>8 DEF AddCondition, Build
<1>9. CASE \E o \in Orders : AddOrder(o)
  BY <1>2, <1>9 DEF AddOrder, Build
<1>10. CASE \E p \in Pages : SetPage(p)
  BY <1>3, <1>10 DEF SetPage
<1>11. CASE UNCHANGED vars
  BY <1>4, <1>11 DEF vars
<1> QED BY <1>5, <1>6, <1>7, <1>8, <1>9, <1>10, <1>11 DEF Next

\* The pages of the sorted rows are answers of the reference: of any listing of the
\* table if there are sort keys, and else of the one that begins with them.
LEMMA ReferenceCovers ==
    ASSUME NEW T \in SUBSET EntityType, IsFiniteSet(T), NEW q,
           NEW s \in Sorted({row \in T : Matches(row, q)}, q.sorts)
    PROVE  Page(s, q.limit, q.offset) \in Reference(q, T)
<1> DEFINE R == {row \in T : Matches(row, q)}
           keep(in) == {i \in DOMAIN in : Matches(in[i], q)}
<1>1. CASE q.sorts = <<>>
  <2>1. s \in SetToSeqs(R) /\ R \in SUBSET T
    BY DEF Sorted
  <2> HIDE DEF R
  <2>2. PICK r \in SetToSeqs(T \ R) :
           /\ s \o r \in SetToSeqs(T) /\ s \in Seq(T) /\ r \in Seq(T)
           /\ \A i \in DOMAIN (s \o r) : (s \o r)[i] \in R <=> i \in 1 .. Len(s)
    BY <2>1, ListingContinued
  <2> DEFINE in == s \o r
  <2>3. in \in Seq(T) /\ DOMAIN in = 1 .. Len(s) + Len(r) /\ Len(s) \in Nat /\ Len(r) \in Nat
    BY <2>2, ConcatProperties
  <2>4. \A i \in DOMAIN in : in[i] \in T
    BY <2>3
  <2>5. \A i \in DOMAIN in : i \in keep(in) <=> i \in 1 .. Len(s)
    BY <2>2, <2>4 DEF R
  <2>6. keep(in) \cap DOMAIN in = 1 .. Len(s)
    <3>1. 1 .. Len(s) \subseteq DOMAIN in
      BY <2>3
    <3> HIDE DEF in, keep
    <3> QED BY <2>5, <3>1
  <2>7. Those(in, keep(in)) = s
    <3> HIDE DEF keep
    <3> QED BY <2>2, <2>6, ThosePrefix
  <2>8. Page(s, q.limit, q.offset) \in Apply(q, in)
    BY <1>1, <2>7 DEF Apply
  <2> HIDE DEF in
  <2> QED BY <2>2, <2>8 DEF Reference, in
<1>2. CASE q.sorts # <<>>
  <2>1. PICK in : in \in SetToSeqs(T)
    BY ListingFacts
  <2>2. in \in Seq(T) /\ ToSet(in) = T
    BY <2>1, ListingFacts
  <2>3. ToSet(Those(in, keep(in))) = {in[i] : i \in keep(in) \cap DOMAIN in}
    <3> HIDE DEF keep
    <3> QED BY <2>2, ThoseElements
  <2>4. {in[i] : i \in keep(in) \cap DOMAIN in} = R
    BY <2>2 DEF ToSet
  <2>5. ToSet(Those(in, keep(in))) = R
    BY <2>3, <2>4
  <2>6. Page(s, q.limit, q.offset) \in Apply(q, in)
    BY <1>2, <2>5 DEF Apply
  <2> QED BY <2>1, <2>6 DEF Reference
<1> QED BY <1>1, <1>2

LEMMA QueryAgrees ==
    ASSUME Mirror, IsQuery(query), 2 * query.limit < IntRange, 2 * query.offset < IntRange,
           NEW backend \in {"sqlite", "postgres"}
    PROVE  /\ RepoFind(backend, query) # {}
           /\ RepoFind(backend, query) \subseteq Reference(query, table)
<1> DEFINE R == {row \in table : Matches(row, query)}
           pages == {Page(s, query.limit, query.offset) : s \in Sorted(R, query.sorts)}
<1>1. table \in SUBSET EntityType /\ IsFiniteSet(table) /\ SortKeys(query.sorts)
      /\ query.limit \in Int /\ query.offset \in Int
  BY DEF Mirror, IsQuery
<1>2. /\ {row \in table : \A i \in DOMAIN query.conditions :
                             SqliteHolds(row, query.conditions[i])} = R
      /\ {row \in table : \A i \in DOMAIN query.conditions :
                             PgHolds(row, query.conditions[i])} = R
  <2>1. \A row \in table : \A i \in DOMAIN query.conditions :
           /\ SqliteHolds(row, query.conditions[i]) <=> CondMatches(row, query.conditions[i])
           /\ PgHolds(row, query.conditions[i]) <=> CondMatches(row, query.conditions[i])
    BY <1>1, HoldsAgree DEF IsQuery
  <2> QED BY <2>1 DEF Matches
<1>3. R \in SUBSET EntityType /\ IsFiniteSet(R)
  BY <1>1, FS_Subset
<1>4. \A s \in Sorted(R, query.sorts) : Len(s) \in Nat
  <2>1. \A s \in Sorted(R, query.sorts) : s \in SetToSeqs(R)
    BY DEF Sorted
  <2> HIDE DEF R
  <2>2. \A s \in SetToSeqs(R) : s \in Seq(R)
    BY <1>3, ListingFacts
  <2> QED BY <2>1, <2>2, LenProperties
<1>5. Sorted(R, query.sorts) # {}
  <2> HIDE DEF R
  <2> QED BY <1>1, <1>3, SortedExists
<1>6. SqliteQuery(query, table) = pages
  <2> DEFINE L == IF query.limit >= 0 THEN ToInt(query.limit) ELSE -1
             O == IF query.offset >= 0 THEN ToInt(query.offset) ELSE 0
  <2>1. SqliteQuery(query, table) = {Page(s, L, O) : s \in Sorted(R, query.sorts)}
    BY <1>2 DEF SqliteQuery, Select
  <2>2. \A s \in Sorted(R, query.sorts) : Page(s, L, O) = Page(s, query.limit, query.offset)
    BY <1>1, <1>4, PagesAgree
  <2> HIDE DEF L, O, R
  <2> QED BY <2>1, <2>2
<1>7. PgQuery(query, table) = pages
  <2> DEFINE O == IF query.offset >= 0 THEN query.offset ELSE 0
  <2>1. PgQuery(query, table) = {Page(s, query.limit, O) : s \in Sorted(R, query.sorts)}
    BY <1>2 DEF PgQuery, Select
  <2>2. \A s \in Sorted(R, query.sorts) :
           Page(s, query.limit, O) = Page(s, query.limit, query.offset)
    BY <1>1, <1>4, PagesAgree
  <2> HIDE DEF O, R
  <2> QED BY <2>1, <2>2
<1>8. RepoFind(backend, query) = pages
  BY <1>6, <1>7 DEF RepoFind
<1>9. pages # {}
  BY <1>5
<1>10. pages \subseteq Reference(query, table)
  BY <1>1, ReferenceCovers
<1> QED BY <1>8, <1>9, <1>10

\* Whatever query has been built, the statements of the SQL backends return rows
\* that bb_query_apply could return, in an order that the sort keys allow: for
\* every set of entities, of conditions with any patterns, of sort keys and of
\* pages, every width of an int and every limit of the builder.
THEOREM QueriesAgreeAlways == Spec => []QueriesAgree
<1>1. Init => Mirror /\ IsQuery(query)
  BY InitMirror, NoQueryIsQuery DEF Init
<1>2. Mirror /\ IsQuery(query) /\ [Next]_vars => Mirror' /\ IsQuery(query)'
  BY NextMirror, NextIsQuery
<1>3. Mirror /\ IsQuery(query) => QueriesAgree
  BY QueryAgrees DEF QueriesAgree
<1> QED BY <1>1, <1>2, <1>3, PTL DEF Spec

====
