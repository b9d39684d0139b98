--------------------------- MODULE Scoring_proofs ---------------------------
(***************************************************************************)
(* Proofs about Scoring and NextRanking for any set of tasks, any          *)
(* blocked_by lists, any base scores and any number of rounds.             *)
(*                                                                         *)
(* Sums over sets, powers of ten and the search are defined by recursion.  *)
(* The induction that goes with them takes the set of the values that have *)
(* a property as its parameter (OnNat, OnSubsets); it follows from what    *)
(* WellFoundedInduction says of least elements.                            *)
(***************************************************************************)
EXTENDS NextRanking, FiniteSetTheorems, TLAPS

-----------------------------------------------------------------------------
(* Induction, with the set of the values that have the property as parameter. *)

\* Every set of numbers that is not empty has a least element.
LEMMA Least ==
  ASSUME NEW T, T \subseteq Nat, T # {}
  PROVE  \E x \in T : \A y \in T : x <= y
<1>1. IsWellFoundedOn({ss \in Nat \X Nat : ss[1] < ss[2]}, Nat)
  BY NatLessThanWellFounded DEF OpToRel
<1>2. PICK x \in T : \A y \in T : << y, x >> \notin {ss \in Nat \X Nat : ss[1] < ss[2]}
  BY <1>1, WFMin
<1>3. \A y \in T : ~(y < x)
  BY <1>2
<1>. QED
  BY <1>3

LEMMA OnNat ==
  ASSUME NEW Q, 0 \in Q, \A n \in Nat : n \in Q => n + 1 \in Q
  PROVE  Nat \subseteq Q
<1>. SUFFICES ASSUME Nat \ Q # {}
              PROVE  FALSE
  OBVIOUS
<1>1. PICK n \in Nat \ Q : \A m \in Nat \ Q : n <= m
  BY Least, Nat \ Q \subseteq Nat
<1>2. n # 0 /\ n - 1 \in Nat /\ ~(n <= n - 1)
  BY <1>1
<1>3. n - 1 \in Q
  BY <1>1, <1>2
<1>4. (n - 1) + 1 \in Q
  BY <1>2, <1>3
<1>. QED
  BY <1>1, <1>4

OneOf(s) == CHOOSE x \in s : TRUE

\* Induction on the subsets of a finite set, one chosen element at a time.
LEMMA OnSubsets ==
  ASSUME NEW S, IsFiniteSet(S), NEW Q, {} \in Q,
         \A s \in SUBSET S : s # {} /\ s \ {OneOf(s)} \in Q => s \in Q
  PROVE  SUBSET S \subseteq Q
<1>. DEFINE N == { n \in Nat : \A s \in SUBSET S : Cardinality(s) = n => s \in Q }
<1>1. 0 \in N
  <2>1. ASSUME NEW s \in SUBSET S, Cardinality(s) = 0
        PROVE  s = {}
    BY <2>1, FS_Subset, FS_EmptySet
  <2>. QED
    BY <2>1
<1>2. ASSUME NEW n \in Nat, n \in N
      PROVE  n + 1 \in N
  <2>1. ASSUME NEW s \in SUBSET S, Cardinality(s) = n + 1
        PROVE  s \in Q
    <3>1. IsFiniteSet(s) /\ s # {}
      BY <2>1, FS_Subset, FS_EmptySet
    <3>2. OneOf(s) \in s
      BY <3>1 DEF OneOf
    <3>3. Cardinality(s \ {OneOf(s)}) = Cardinality(s) - 1
      BY <3>1, <3>2, FS_RemoveElement
    <3>4. s \ {OneOf(s)} \in Q
      BY <1>2, <2>1, <3>3
    <3>. QED
      BY <3>1, <3>4
  <2>. QED
    BY <2>1
<1>3. Nat \subseteq N
  <2>. HIDE DEF N
  <2>. QED
    BY <1>1, <1>2, OnNat
<1>4. ASSUME NEW s \in SUBSET S
      PROVE  s \in Q
  <2>1. Cardinality(s) \in Nat
    BY FS_Subset, FS_CardinalityType
  <2>. QED
    BY <1>3, <2>1
<1>. QED
  BY <1>4

-----------------------------------------------------------------------------
(* A function that is defined from its value before exists. *)

Starts(n, h, a, F) ==
  DOMAIN h = 0 .. n /\ h[0] = a /\ \A i \in 1 .. n : h[i] = F[h[i - 1]]

LEMMA StartsExist ==
  ASSUME NEW F, NEW a, NEW n \in Nat
  PROVE  \E h : Starts(n, h, a, F)
<1>. DEFINE Q == { m \in Nat : \E h : Starts(m, h, a, F) }
<1>1. 0 \in Q
  <2>1. Starts(0, [i \in 0 .. 0 |-> a], a, F)
    BY DEF Starts
  <2>. QED
    BY <2>1
<1>2. ASSUME NEW m \in Nat, m \in Q
      PROVE  m + 1 \in Q
  <2>1. PICK h : Starts(m, h, a, F)
    BY <1>2
  <2>2. Starts(m + 1, [i \in 0 .. m + 1 |-> IF i = m + 1 THEN F[h[m]] ELSE h[i]], a, F)
    BY <2>1 DEF Starts
  <2>. QED
    BY <2>2
<1>3. Nat \subseteq Q
  <2>. HIDE DEF Q
  <2>. QED
    BY <1>1, <1>2, OnNat
<1>. QED
  BY <1>3

LEMMA StartsAgree ==
  ASSUME NEW F, NEW a, NEW n \in Nat, NEW m \in Nat, NEW h, NEW k,
         Starts(n, h, a, F), Starts(m, k, a, F), NEW i \in Nat, i <= n, i <= m
  PROVE  h[i] = k[i]
<1>. DEFINE Q == { j \in Nat : j <= n /\ j <= m => h[j] = k[j] }
<1>1. 0 \in Q
  BY DEF Starts
<1>2. ASSUME NEW j \in Nat, j \in Q
      PROVE  j + 1 \in Q
  <2>1. ASSUME j + 1 <= n, j + 1 <= m
        PROVE  h[j + 1] = k[j + 1]
    <3>1. h[j] = k[j]
      BY <1>2, <2>1
    <3>2. j + 1 \in 1 .. n /\ j + 1 \in 1 .. m /\ (j + 1) - 1 = j
      BY <2>1
    <3>3. h[j + 1] = F[h[j]] /\ k[j + 1] = F[k[j]]
      BY <3>2 DEF Starts
    <3>. QED
      BY <3>1, <3>3
  <2>. QED
    BY <2>1
<1>3. Nat \subseteq Q
  <2>. HIDE DEF Q
  <2>. QED
    BY <1>1, <1>2, OnNat
<1>. QED
  BY <1>3

Iterates(g, a, F) == g = [n \in Nat |-> IF n = 0 THEN a ELSE F[g[n - 1]]]

LEMMA IteratesExist ==
  ASSUME NEW F, NEW a
  PROVE  \E g : Iterates(g, a, F)
<1>. DEFINE H(n) == CHOOSE h : Starts(n, h, a, F)
            g == [n \in Nat |-> H(n)[n]]
<1>1. ASSUME NEW n \in Nat
      PROVE  Starts(n, H(n), a, F)
  BY StartsExist
<1>2. ASSUME NEW n \in Nat
      PROVE  g[n] = IF n = 0 THEN a ELSE F[g[n - 1]]
  <2>1. CASE n = 0
    <3>1. Starts(0, H(0), a, F)
      BY <1>1
    <3>. QED
      BY <2>1, <3>1 DEF Starts
  <2>2. CASE n # 0
    <3>1. n - 1 \in Nat /\ n \in 1 .. n
      BY <2>2
    <3>2. Starts(n, H(n), a, F) /\ Starts(n - 1, H(n - 1), a, F)
      BY <1>1, <3>1
    <3>. HIDE DEF H
    <3>3. H(n)[n] = F[H(n)[n - 1]]
      BY <3>1, <3>2 DEF Starts
    <3>4. H(n)[n - 1] = H(n - 1)[n - 1]
      BY <3>1, <3>2, StartsAgree
    <3>. QED
      BY <2>2, <3>1, <3>3, <3>4
  <2>. QED
    BY <2>1, <2>2
<1>3. Iterates(g, a, F)
  <2>. HIDE DEF H
  <2>. QED
    BY <1>2 DEF Iterates
<1>. QED
  BY <1>3

LEMMA IteratesType ==
  ASSUME NEW F, NEW a, NEW X, a \in X, \A x \in X : F[x] \in X,
         NEW g, Iterates(g, a, F), NEW n \in Nat
  PROVE  g[n] \in X
<1>. DEFINE Q == { m \in Nat : g[m] \in X }
<1>1. 0 \in Q
  BY DEF Iterates
<1>2. ASSUME NEW m \in Nat, m \in Q
      PROVE  m + 1 \in Q
  <2>1. m + 1 \in Nat /\ m + 1 # 0 /\ (m + 1) - 1 = m
    OBVIOUS
  <2>2. g[m + 1] = F[g[m]]
    BY <2>1 DEF Iterates
  <2>. QED
    BY <1>2, <2>2
<1>3. Nat \subseteq Q
  <2>. HIDE DEF Q
  <2>. QED
    BY <1>1, <1>2, OnNat
<1>. QED
  BY <1>3

-----------------------------------------------------------------------------
(* What SumFunctionOnSet computes. *)

Unfolds(g, f, S) ==
  g = [s \in SUBSET S |-> IF s = {} THEN 0 ELSE f[OneOf(s)] + g[s \ {OneOf(s)}]]

SumIter(f, S) == CHOOSE g : Unfolds(g, f, S)

LEMMA SumIsUnfolded ==
  ASSUME NEW f, NEW S
  PROVE  SumFunctionOnSet(f, S) = SumIter(f, S)[S]
BY DEF SumFunctionOnSet, FoldFunctionOnSet, MapThenFoldSet, SumIter, Unfolds, OneOf

LEMMA UnfoldsAgree ==
  ASSUME NEW f, NEW S, NEW R, NEW g, NEW h, Unfolds(g, f, S), Unfolds(h, f, R),
         NEW q, q \subseteq S, q \subseteq R, IsFiniteSet(q)
  PROVE  g[q] = h[q]
<1>. DEFINE Q == { s \in SUBSET q : g[s] = h[s] }
<1>1. {} \in Q
  BY DEF Unfolds
<1>2. ASSUME NEW s \in SUBSET q, s # {}, s \ {OneOf(s)} \in Q
      PROVE  s \in Q
  BY <1>2 DEF Unfolds
<1>3. SUBSET q \subseteq Q
  <2>. HIDE DEF Q
  <2>. QED
    BY <1>1, <1>2, OnSubsets
<1>. QED
  BY <1>3

\* The function that a fold chooses exists: the values on smaller sets agree.
LEMMA UnfoldsExist ==
  ASSUME NEW f, NEW S, IsFiniteSet(S)
  PROVE  Unfolds(SumIter(f, S), f, S)
<1>. DEFINE Q == { s \in SUBSET S : \A r \in SUBSET s : \E g : Unfolds(g, f, r) }
            N == { n \in Nat : \A s \in SUBSET S : Cardinality(s) <= n => \E g : Unfolds(g, f, s) }
<1>1. 0 \in N
  <2>1. ASSUME NEW s \in SUBSET S, Cardinality(s) <= 0
        PROVE  s = {}
    BY <2>1, FS_Subset, FS_EmptySet, FS_CardinalityType
  <2>2. Unfolds([s \in SUBSET {} |-> 0], f, {})
    BY DEF Unfolds
  <2>. QED
    BY <2>1, <2>2
<1>2. ASSUME NEW n \in Nat, n \in N
      PROVE  n + 1 \in N
  <2>1. ASSUME NEW s \in SUBSET S, Cardinality(s) <= n + 1
        PROVE  \E g : Unfolds(g, f, s)
    <3>. DEFINE before(t) == t \ {OneOf(t)}
                h == [t \in SUBSET s |->
                        IF t = {} THEN 0 ELSE f[OneOf(t)] + SumIter(f, before(t))[before(t)]]
    <3>1. ASSUME NEW t \in SUBSET s, t # {}
          PROVE  /\ before(t) \in SUBSET s /\ IsFiniteSet(before(t))
                 /\ Unfolds(SumIter(f, before(t)), f, before(t))
      <4>1. IsFiniteSet(s) /\ IsFiniteSet(t) /\ OneOf(t) \in t
        BY <3>1, FS_Subset DEF OneOf
      <4>2. /\ Cardinality(t) <= n + 1 /\ Cardinality(t) \in Nat
            /\ IsFiniteSet(before(t)) /\ Cardinality(before(t)) = Cardinality(t) - 1
        BY <2>1, <4>1, FS_Subset, FS_RemoveElement, FS_CardinalityType
      <4>3. Cardinality(before(t)) <= n /\ before(t) \in SUBSET S
        BY <4>2
      <4>4. \E g : Unfolds(g, f, before(t))
        BY <1>2, <4>3
      <4>. QED
        BY <4>2, <4>4 DEF SumIter
    <3>2. ASSUME NEW t \in SUBSET s, t # {}
          PROVE  h[before(t)] = SumIter(f, before(t))[before(t)]
      <4>. DEFINE r == before(t)
      <4>1. r \in SUBSET s /\ Unfolds(SumIter(f, r), f, r) /\ IsFiniteSet(r)
        BY <3>1, <3>2
      <4>2. CASE r = {}
        BY <4>1, <4>2 DEF Unfolds
      <4>3. CASE r # {}
        <5>1. /\ before(r) \in SUBSET r /\ IsFiniteSet(before(r))
              /\ Unfolds(SumIter(f, before(r)), f, before(r))
          BY <3>1, <4>1, <4>3
        <5>2. SumIter(f, r)[r] = f[OneOf(r)] + SumIter(f, r)[before(r)]
          BY <4>1, <4>3 DEF Unfolds
        <5>3. SumIter(f, r)[before(r)] = SumIter(f, before(r))[before(r)]
          BY <4>1, <5>1, UnfoldsAgree
        <5>4. h[r] = f[OneOf(r)] + SumIter(f, before(r))[before(r)]
          BY <4>1, <4>3
        <5>. QED
          BY <5>2, <5>3, <5>4
      <4>. QED
        BY <4>2, <4>3
    <3>3. Unfolds(h, f, s)
      <4>1. ASSUME NEW t \in SUBSET s
            PROVE  h[t] = IF t = {} THEN 0 ELSE f[OneOf(t)] + h[before(t)]
        BY <3>2
      <4>2. h = [t \in SUBSET s |-> h[t]]
        OBVIOUS
      <4>. HIDE DEF h
      <4>. QED
        BY <4>1, <4>2 DEF Unfolds
    <3>. QED
      BY <3>3
  <2>. QED
    BY <2>1
<1>3. Nat \subseteq N
  <2>. HIDE DEF N
  <2>. QED
    BY <1>1, <1>2, OnNat
<1>4. Cardinality(S) \in Nat
  BY FS_CardinalityType
<1>5. \E g : Unfolds(g, f, S)
  BY <1>3, <1>4
<1>. QED
  BY <1>5 DEF SumIter

LEMMA SumEmpty ==
  ASSUME NEW f
  PROVE  SumFunctionOnSet(f, {}) = 0
<1>1. Unfolds(SumIter(f, {}), f, {})
  BY UnfoldsExist, FS_EmptySet
<1>. QED
  BY <1>1, SumIsUnfolded DEF Unfolds

\* The two equations of a sum: SumEmpty, and one element taken out.
LEMMA SumStep ==
  ASSUME NEW f, NEW S, IsFiniteSet(S), S # {}
  PROVE  SumFunctionOnSet(f, S) = f[OneOf(S)] + SumFunctionOnSet(f, S \ {OneOf(S)})
<1>. DEFINE R == S \ {OneOf(S)}
<1>1. IsFiniteSet(R) /\ R \subseteq S
  BY FS_Subset
<1>2. Unfolds(SumIter(f, S), f, S) /\ Unfolds(SumIter(f, R), f, R)
  BY <1>1, UnfoldsExist
<1>3. SumIter(f, S)[S] = f[OneOf(S)] + SumIter(f, S)[R]
  BY <1>2 DEF Unfolds
<1>4. SumIter(f, S)[R] = SumIter(f, R)[R]
  BY <1>1, <1>2, UnfoldsAgree
<1>. QED
  BY <1>3, <1>4, SumIsUnfolded

LEMMA SumAgree ==
  ASSUME NEW S, IsFiniteSet(S), NEW f, NEW g, \A x \in S : f[x] = g[x]
  PROVE  SumFunctionOnSet(f, S) = SumFunctionOnSet(g, S)
<1>. DEFINE Q == { s \in SUBSET S : SumFunctionOnSet(f, s) = SumFunctionOnSet(g, s) }
<1>1. {} \in Q
  BY SumEmpty
<1>2. ASSUME NEW s \in SUBSET S, s # {}, s \ {OneOf(s)} \in Q
      PROVE  s \in Q
  <2>1. IsFiniteSet(s) /\ OneOf(s) \in S
    BY <1>2, FS_Subset DEF OneOf
  <2>. QED
    BY <1>2, <2>1, SumStep
<1>3. SUBSET S \subseteq Q
  <2>. HIDE DEF Q
  <2>. QED
    BY <1>1, <1>2, OnSubsets
<1>. QED
  BY <1>3

LEMMA SumType ==
  ASSUME NEW S, IsFiniteSet(S), NEW f, \A x \in S : f[x] \in Int
  PROVE  SumFunctionOnSet(f, S) \in Int
<1>. DEFINE Q == { s \in SUBSET S : SumFunctionOnSet(f, s) \in Int }
<1>1. {} \in Q
  BY SumEmpty
<1>2. ASSUME NEW s \in SUBSET S, s # {}, s \ {OneOf(s)} \in Q
      PROVE  s \in Q
  <2>1. IsFiniteSet(s) /\ OneOf(s) \in S
    BY <1>2, FS_Subset DEF OneOf
  <2>. QED
    BY <1>2, <2>1, SumStep
<1>3. SUBSET S \subseteq Q
  <2>. HIDE DEF Q
  <2>. QED
    BY <1>1, <1>2, OnSubsets
<1>. QED
  BY <1>3

LEMMA Distributes ==
  ASSUME NEW k \in Int, NEW x \in Int, NEW y \in Int
  PROVE  k * (x + y) = k * x + k * y
OBVIOUS

LEMMA SumScaled ==
  ASSUME NEW S, IsFiniteSet(S), NEW f, NEW g, NEW k \in Int,
         \A x \in S : f[x] \in Int /\ g[x] = k * f[x]
  PROVE  SumFunctionOnSet(g, S) = k * SumFunctionOnSet(f, S)
<1>. DEFINE Q == { s \in SUBSET S : SumFunctionOnSet(g, s) = k * SumFunctionOnSet(f, s) }
<1>1. {} \in Q
  BY SumEmpty
<1>2. ASSUME NEW s \in SUBSET S, s # {}, s \ {OneOf(s)} \in Q
      PROVE  s \in Q
  <2>. DEFINE one == OneOf(s)
              sum == SumFunctionOnSet(f, s \ {one})
  <2>1. IsFiniteSet(s) /\ one \in S /\ IsFiniteSet(s \ {one}) /\ s \ {one} \subseteq S
    BY <1>2, FS_Subset DEF OneOf
  <2>2. f[one] \in Int /\ g[one] = k * f[one] /\ sum \in Int
    BY <2>1, SumType
  <2>3. /\ SumFunctionOnSet(f, s) = f[one] + sum
        /\ SumFunctionOnSet(g, s) = k * f[one] + k * sum
    BY <1>2, <2>1, <2>2, SumStep
  <2>4. k * (f[one] + sum) = k * f[one] + k * sum
    <3>. HIDE DEF one, sum
    <3>. QED
      BY <2>2, Distributes
  <2>. QED
    BY <2>3, <2>4
<1>3. SUBSET S \subseteq Q
  <2>. HIDE DEF Q
  <2>. QED
    BY <1>1, <1>2, OnSubsets
<1>. QED
  BY <1>3

\* Sums are as close as what is summed.
LEMMA SumIsClose ==
  ASSUME NEW S, IsFiniteSet(S), NEW f, NEW g, NEW h,
         \A x \in S : /\ f[x] \in Int /\ g[x] \in Int /\ h[x] \in Int
                      /\ Gap(f[x], g[x]) <= h[x]
  PROVE  Gap(SumFunctionOnSet(f, S), SumFunctionOnSet(g, S)) <= SumFunctionOnSet(h, S)
<1>. DEFINE Close(s) ==
              Gap(SumFunctionOnSet(f, s), SumFunctionOnSet(g, s)) <= SumFunctionOnSet(h, s)
            Q == { s \in SUBSET S : Close(s) }
<1>1. {} \in Q
  BY SumEmpty DEF Gap
<1>2. ASSUME NEW s \in SUBSET S, s # {}, s \ {OneOf(s)} \in Q
      PROVE  s \in Q
  <2>. DEFINE one == OneOf(s)
              r == s \ {one}
  <2>1. IsFiniteSet(s) /\ one \in S /\ IsFiniteSet(r) /\ r \subseteq S
    BY <1>2, FS_Subset DEF OneOf
  <2>2. /\ SumFunctionOnSet(f, r) \in Int /\ SumFunctionOnSet(g, r) \in Int
        /\ SumFunctionOnSet(h, r) \in Int
    BY <2>1, SumType
  <2>3. /\ SumFunctionOnSet(f, s) = f[one] + SumFunctionOnSet(f, r)
        /\ SumFunctionOnSet(g, s) = g[one] + SumFunctionOnSet(g, r)
        /\ SumFunctionOnSet(h, s) = h[one] + SumFunctionOnSet(h, r)
    BY <1>2, <2>1, SumStep
  <2>4. Close(r) /\ Gap(f[one], g[one]) <= h[one]
        /\ f[one] \in Int /\ g[one] \in Int /\ h[one] \in Int
    BY <1>2, <2>1
  <2>. HIDE DEF one, r
  <2>. QED
    BY <2>2, <2>3, <2>4 DEF Gap
<1>3. SUBSET S \subseteq Q
  <2>. HIDE DEF Q
  <2>. QED
    BY <1>1, <1>2, OnSubsets
<1>. QED
  BY <1>3

-----------------------------------------------------------------------------
(* What the depth-first search finds. *)

SeenFrom(waiting, start) ==
  CHOOSE seen : seen =
    [n \in Nat |->
       IF n = 0 THEN waiting[start]
       ELSE LET s == seen[n - 1] IN s \cup UNION { waiting[m] : m \in s }]

LEMMA ReachableIsSeen ==
  ASSUME NEW waiting, NEW start
  PROVE  Reachable(waiting, start) = SeenFrom(waiting, start)[Cardinality(Tasks)]
BY DEF Reachable, SeenFrom

LEMMA SeenSteps ==
  ASSUME NEW waiting \in [Tasks -> SUBSET Tasks], NEW start \in Tasks
  PROVE  LET seen == SeenFrom(waiting, start)
         IN /\ seen[0] = waiting[start]
            /\ \A n \in Nat : /\ seen[n] \in SUBSET Tasks
                              /\ seen[n + 1] = seen[n] \cup UNION { waiting[m] : m \in seen[n] }
<1>. DEFINE further(s) == s \cup UNION { waiting[m] : m \in s }
            F == [s \in SUBSET Tasks |-> further(s)]
            seen == SeenFrom(waiting, start)
            Eq(g) == g =
              [n \in Nat |->
                 IF n = 0 THEN waiting[start]
                 ELSE LET s == g[n - 1] IN s \cup UNION { waiting[m] : m \in s }]
<1>1. \A s \in SUBSET Tasks : further(s) \in SUBSET Tasks /\ F[s] = further(s)
  OBVIOUS
<1>2. waiting[start] \in SUBSET Tasks
  OBVIOUS
<1>3. PICK g : Iterates(g, waiting[start], F)
  BY IteratesExist
<1>4. \A n \in Nat : g[n] \in SUBSET Tasks
  <2>. DEFINE X == SUBSET Tasks
              a == waiting[start]
  <2>1. a \in X /\ \A x \in X : F[x] \in X
    BY <1>1, <1>2
  <2>2. Iterates(g, a, F)
    BY <1>3
  <2>. HIDE DEF F, further, X, a
  <2>3. \A n \in Nat : g[n] \in X
    BY <2>1, <2>2, IteratesType
  <2>. QED
    BY <2>3 DEF X
<1>5. Eq(g)
  <2>1. ASSUME NEW n \in Nat, n # 0
        PROVE  F[g[n - 1]] = LET s == g[n - 1] IN s \cup UNION { waiting[m] : m \in s }
    BY <1>1, <1>4, <2>1, n - 1 \in Nat
  <2>. HIDE DEF F
  <2>. QED
    BY <1>3, <2>1 DEF Iterates
<1>6. Eq(seen)
  BY <1>5 DEF SeenFrom
<1>7. seen[0] = waiting[start]
  BY <1>6
<1>8. ASSUME NEW n \in Nat
      PROVE  seen[n + 1] = further(seen[n])
  <2>1. n + 1 \in Nat /\ n + 1 # 0 /\ (n + 1) - 1 = n
    OBVIOUS
  <2>. QED
    BY <1>6, <2>1
<1>9. \A n \in Nat : seen[n] \in SUBSET Tasks
  <2>. DEFINE Q == { n \in Nat : seen[n] \in SUBSET Tasks }
  <2>1. 0 \in Q
    BY <1>2, <1>7
  <2>2. ASSUME NEW n \in Nat, n \in Q
        PROVE  n + 1 \in Q
    <3>1. seen[n] \in SUBSET Tasks
      BY <2>2
    <3>2. further(seen[n]) \in SUBSET Tasks
      BY <1>1, <3>1
    <3>3. seen[n + 1] \in SUBSET Tasks
      BY <1>8, <3>2
    <3>. QED
      BY <3>3
  <2>3. Nat \subseteq Q
    <3>. HIDE DEF Q
    <3>. QED
      BY <2>1, <2>2, OnNat
  <2>. QED
    BY <2>3
<1>. QED
  BY <1>7, <1>8, <1>9

\* The search finds something new or has found as many as it took steps.
LEMMA SeenGrows ==
  ASSUME NEW waiting \in [Tasks -> SUBSET Tasks], NEW start \in Tasks, NEW n \in Nat
  PROVE  LET seen == SeenFrom(waiting, start)
         IN \/ seen[n + 1] = seen[n]
            \/ Cardinality(seen[n]) >= n
<1>. DEFINE seen == SeenFrom(waiting, start)
            Q == { k \in Nat : seen[k + 1] = seen[k] \/ Cardinality(seen[k]) >= k }
<1>. HIDE DEF seen
<1>1. \A k \in Nat : seen[k] \in SUBSET Tasks
                     /\ seen[k + 1] = seen[k] \cup UNION { waiting[m] : m \in seen[k] }
  BY SeenSteps DEF seen
<1>2. \A k \in Nat : IsFiniteSet(seen[k]) /\ Cardinality(seen[k]) \in Nat
  BY <1>1, ScoringAssumption, FS_Subset, FS_CardinalityType
<1>3. 0 \in Q
  BY <1>2
<1>4. ASSUME NEW k \in Nat, k \in Q
      PROVE  k + 1 \in Q
  <2>0. k + 1 \in Nat /\ (k + 1) + 1 \in Nat
    OBVIOUS
  <2>1. CASE seen[k + 1] = seen[k]
    <3>1. seen[(k + 1) + 1] = seen[k + 1] \cup UNION { waiting[m] : m \in seen[k + 1] }
      BY <1>1, <2>0
    <3>2. seen[(k + 1) + 1] = seen[k + 1]
      BY <1>1, <2>1, <3>1
    <3>. QED
      BY <2>0, <3>2
  <2>2. CASE seen[k + 1] # seen[k]
    <3>1. Cardinality(seen[k]) >= k
      BY <1>4, <2>2
    <3>2. seen[k] \subseteq seen[k + 1]
      BY <1>1
    <3>3. /\ Cardinality(seen[k]) <= Cardinality(seen[k + 1])
          /\ Cardinality(seen[k]) # Cardinality(seen[k + 1])
      BY <1>2, <2>0, <2>2, <3>2, FS_Subset
    <3>4. Cardinality(seen[k + 1]) >= k + 1
      BY <1>2, <2>0, <3>1, <3>3
    <3>. QED
      BY <2>0, <3>4
  <2>. QED
    BY <2>1, <2>2
<1>5. Nat \subseteq Q
  <2>. HIDE DEF Q
  <2>. QED
    BY <1>3, <1>4, OnNat
<1>. QED
  BY <1>5 DEF seen

\* blocksReachability: the search from one node finds the least set of tasks that
\* holds what waits for the node and what waits for any of its members.
THEOREM ReachableIsClosure ==
  ASSUME NEW waiting \in [Tasks -> SUBSET Tasks], NEW start \in Tasks
  PROVE  /\ Reachable(waiting, start) \in SUBSET Tasks
         /\ waiting[start] \subseteq Reachable(waiting, start)
         /\ \A m \in Reachable(waiting, start) : waiting[m] \subseteq Reachable(waiting, start)
         /\ \A S \in SUBSET Tasks :
              waiting[start] \subseteq S /\ (\A x \in S : waiting[x] \subseteq S) =>
                Reachable(waiting, start) \subseteq S
<1>. DEFINE seen == SeenFrom(waiting, start)
            n == Cardinality(Tasks)
<1>1. Reachable(waiting, start) = seen[n]
  BY ReachableIsSeen
<1>. HIDE DEF seen
<1>2. /\ seen[0] = waiting[start]
      /\ \A k \in Nat : seen[k] \in SUBSET Tasks
                     /\ seen[k + 1] = seen[k] \cup UNION { waiting[m] : m \in seen[k] }
  BY SeenSteps DEF seen
<1>3. n \in Nat
  BY ScoringAssumption, FS_CardinalityType
<1>4. waiting[start] \subseteq seen[n]
  <2>. DEFINE Q == { k \in Nat : waiting[start] \subseteq seen[k] }
  <2>1. 0 \in Q
    BY <1>2
  <2>2. ASSUME NEW k \in Nat, k \in Q
        PROVE  k + 1 \in Q
    BY <1>2, <2>2
  <2>3. Nat \subseteq Q
    <3>. HIDE DEF Q
    <3>. QED
      BY <2>1, <2>2, OnNat
  <2>. QED
    BY <1>3, <2>3
<1>5. seen[n + 1] = seen[n]
  <2>. SUFFICES ASSUME seen[n + 1] # seen[n]
                PROVE  FALSE
    OBVIOUS
  <2>1. Cardinality(seen[n]) >= n
    BY <1>3, SeenGrows DEF seen
  <2>2. seen[n] \in SUBSET Tasks /\ Cardinality(seen[n]) <= n /\ Cardinality(seen[n]) \in Nat
    BY <1>2, <1>3, ScoringAssumption, FS_Subset, FS_CardinalityType
  <2>3. Cardinality(seen[n]) = n
    BY <1>3, <2>1, <2>2
  <2>4. seen[n] = Tasks
    BY <2>2, <2>3, ScoringAssumption, FS_Subset
  <2>5. seen[n] \subseteq seen[n + 1] /\ seen[n + 1] \in SUBSET Tasks
    BY <1>2, <1>3, n + 1 \in Nat
  <2>. QED
    BY <2>4, <2>5
<1>6. \A m \in seen[n] : waiting[m] \subseteq seen[n]
  BY <1>2, <1>3, <1>5
<1>7. ASSUME NEW S \in SUBSET Tasks, waiting[start] \subseteq S, \A x \in S : waiting[x] \subseteq S
      PROVE  seen[n] \subseteq S
  <2>. DEFINE Q == { k \in Nat : seen[k] \subseteq S }
  <2>1. 0 \in Q
    BY <1>2, <1>7
  <2>2. ASSUME NEW k \in Nat, k \in Q
        PROVE  k + 1 \in Q
    BY <1>2, <1>7, <2>2
  <2>3. Nat \subseteq Q
    <3>. HIDE DEF Q
    <3>. QED
      BY <2>1, <2>2, OnNat
  <2>. QED
    BY <1>3, <2>3
<1>. QED
  BY <1>1, <1>2, <1>3, <1>4, <1>6, <1>7

-----------------------------------------------------------------------------
(* The edges that are followed have no cycle: they lead to a lower rank. *)

ReachIsClosure ==
  /\ reach \in [Tasks -> SUBSET Tasks]
  /\ \A t \in Tasks :
       /\ Blocks(t) \subseteq reach[t]
       /\ \A m \in reach[t] : Blocks(m) \subseteq reach[t]
       /\ \A S \in SUBSET Tasks :
            Blocks(t) \subseteq S /\ (\A x \in S : Blocks(x) \subseteq S) => reach[t] \subseteq S

Rank(t) == Cardinality(reach[t] \cup {t}) - 1

LEMMA InitReach ==
  ASSUME Init
  PROVE  ReachIsClosure
<1>. DEFINE waiting == [t \in Tasks |-> Blocks(t)]
<1>1. reach = [t \in Tasks |-> Reachable(waiting, t)]
  BY DEF Init
<1>2. waiting \in [Tasks -> SUBSET Tasks] /\ \A t \in Tasks : waiting[t] = Blocks(t)
  BY DEF Blocks
<1>. HIDE DEF waiting
<1>3. ASSUME NEW t \in Tasks
      PROVE  /\ reach[t] \in SUBSET Tasks
             /\ Blocks(t) \subseteq reach[t]
             /\ \A m \in reach[t] : Blocks(m) \subseteq reach[t]
             /\ \A S \in SUBSET Tasks :
                  Blocks(t) \subseteq S /\ (\A x \in S : Blocks(x) \subseteq S) =>
                    reach[t] \subseteq S
  <2>1. /\ reach[t] \in SUBSET Tasks
        /\ waiting[t] \subseteq reach[t]
        /\ \A m \in reach[t] : waiting[m] \subseteq reach[t]
        /\ \A S \in SUBSET Tasks :
             waiting[t] \subseteq S /\ (\A x \in S : waiting[x] \subseteq S) => reach[t] \subseteq S
    BY <1>1, <1>2, ReachableIsClosure
  <2>. QED
    BY <1>2, <2>1
<1>. QED
  BY <1>1, <1>3 DEF ReachIsClosure

LEMMA ReachIsTransitive ==
  ASSUME ReachIsClosure, NEW t \in Tasks, NEW u \in reach[t]
  PROVE  u \in Tasks /\ reach[u] \subseteq reach[t]
BY DEF ReachIsClosure

LEMMA ForwardIsFeeds ==
  ASSUME ReachIsClosure, NEW t \in Tasks
  PROVE  ForwardOnly(t) = Feeds(t)
<1>1. ASSUME NEW u \in Tasks
      PROVE  ComesTo(u, t) <=> t \in reach[u]
  <2>1. ASSUME ComesTo(u, t)
        PROVE  t \in reach[u]
    BY <2>1 DEF ComesTo, ReachIsClosure
  <2>2. ASSUME t \in reach[u]
        PROVE  ComesTo(u, t)
    BY <2>2 DEF ComesTo, ReachIsClosure
  <2>. QED
    BY <2>1, <2>2
<1>2. Blocks(t) \subseteq Tasks
  BY DEF Blocks
<1>. QED
  BY <1>1, <1>2 DEF ForwardOnly, Feeds

LEMMA FeedsAreTasks ==
  ASSUME NEW t \in Tasks
  PROVE  Feeds(t) \subseteq Tasks /\ IsFiniteSet(Feeds(t)) /\ (Blocks(t) = {} => Feeds(t) = {})
<1>1. Feeds(t) \subseteq Tasks
  BY DEF Feeds, Blocks
<1>2. IsFiniteSet(Feeds(t))
  BY <1>1, ScoringAssumption, FS_Subset
<1>. QED
  BY <1>1, <1>2 DEF Feeds

LEMMA RankType ==
  ASSUME ReachIsClosure, NEW t \in Tasks
  PROVE  /\ Rank(t) \in Nat /\ Cardinality(Tasks) \in Nat /\ Rank(t) < Cardinality(Tasks)
         /\ IsFiniteSet(reach[t] \cup {t})
         /\ Cardinality(reach[t]) \in Nat /\ Rank(t) <= Cardinality(reach[t])
<1>1. reach[t] \subseteq Tasks /\ reach[t] \cup {t} \subseteq Tasks
  BY DEF ReachIsClosure
<1>2. /\ IsFiniteSet(reach[t]) /\ IsFiniteSet(reach[t] \cup {t})
      /\ Cardinality(reach[t] \cup {t}) <= Cardinality(Tasks)
  BY <1>1, ScoringAssumption, FS_Subset
<1>3. /\ Cardinality(reach[t]) \in Nat /\ Cardinality(reach[t] \cup {t}) \in Nat
      /\ Cardinality(Tasks) \in Nat
  BY <1>2, ScoringAssumption, FS_CardinalityType
<1>4. Cardinality(reach[t] \cup {t}) # 0
  BY <1>2, FS_EmptySet
<1>5. Cardinality(reach[t] \cup {t}) =
        IF t \in reach[t] THEN Cardinality(reach[t]) ELSE Cardinality(reach[t]) + 1
  BY <1>2, FS_AddElement
<1>. QED
  BY <1>2, <1>3, <1>4, <1>5 DEF Rank

\* What a task sums is of lower rank: a back-edge is not followed.
LEMMA FeedsRankLower ==
  ASSUME ReachIsClosure, NEW t \in Tasks, NEW u \in Feeds(t)
  PROVE  u \in Tasks /\ u # t /\ Rank(u) < Rank(t)
<1>1. u \in Blocks(t) /\ t \notin reach[u] /\ u \in Tasks
  BY DEF Feeds, Blocks
<1>2. u \in reach[t]
  BY <1>1 DEF ReachIsClosure
<1>3. reach[u] \subseteq reach[t]
  BY <1>2, ReachIsTransitive
<1>4. u # t
  BY <1>1, <1>2
<1>. DEFINE R == reach[u] \cup {u}
            S == reach[t] \cup {t}
<1>5. R \in SUBSET S /\ R # S
  BY <1>1, <1>2, <1>3, <1>4
<1>6. IsFiniteSet(S) /\ IsFiniteSet(R)
  BY <1>1, RankType
<1>7. Cardinality(R) <= Cardinality(S) /\ Cardinality(R) # Cardinality(S)
  BY <1>5, <1>6, FS_Subset
<1>8. Cardinality(R) \in Nat /\ Cardinality(S) \in Nat
  BY <1>6, FS_CardinalityType
<1>. QED
  BY <1>1, <1>4, <1>7, <1>8 DEF Rank

-----------------------------------------------------------------------------
(* The inductive invariant.  In round n every task of rank n has its last    *)
(* inputs before it is visited, and gets them at the latest then: what it    *)
(* sums is of lower rank and does not move any more.                         *)

Settled(t) == fed[t] = Inputs(t)

IInv ==
  /\ TypeOK /\ ReachIsClosure
  /\ \A t \in Tasks : Blocks(t) = {} => pot[t] = base[t]
  /\ \A t \in Tasks : Rank(t) <= round \/ (Rank(t) <= round + 1 /\ t \notin left) => Settled(t)
  /\ changed => \E t \in Tasks : Rank(t) > round
  /\ ~changed => \A t \in Tasks \ left : Settled(t)
  /\ pc = "done" =>
       /\ left = {} /\ Over
       /\ score = [t \in Tasks |->
            [ potential |-> pot[t],
              effective |-> IF blockedBy[t] # {} THEN 0 ELSE pot[t] ]]

\* A task that sums nothing has the inputs it was fed, none.
LEMMA NoFeedsSettled ==
  ASSUME TypeOK, NEW t \in Tasks, Feeds(t) = {}
  PROVE  Settled(t)
<1>1. fed[t] = [u \in {} |-> 0] \/ fed[t] \in [{} -> Int]
  BY DEF TypeOK
<1>2. fed[t] = [u \in {} |-> pot[u]]
  BY <1>1
<1>. QED
  BY <1>2 DEF Settled, Inputs

LEMMA WorthType ==
  ASSUME TypeOK, NEW t \in Tasks
  PROVE  /\ Worth(t) \in Int /\ SumFunctionOnSet(pot, Feeds(t)) \in Int
         /\ base[t] \in Int /\ pot[t] \in Int
<1>1. base[t] \in Int /\ pot[t] \in Int /\ \A u \in Feeds(t) : pot[u] \in Int
  BY FeedsAreTasks, ScoringAssumption DEF TypeOK
<1>2. SumFunctionOnSet(pot, Feeds(t)) \in Int
  BY <1>1, FeedsAreTasks, SumType
<1>. QED
  BY <1>1, <1>2 DEF Worth

LEMMA RoundedIsNear ==
  ASSUME NEW n \in Int, NEW v \in Rounded(n)
  PROVE  v \in Int /\ Gap(10 * v, n) <= 5
<1>. DEFINE q == n \div 10
            r == n % 10
<1>0. q \in Int /\ r \in Int /\ r \in 0 .. 9
  OBVIOUS
<1>1. n = 10 * q + r
  BY <1>0, Z3
<1>2. \/ v = q /\ r <= 5
      \/ v = q + 1 /\ r >= 5
  BY DEF Rounded
<1>. HIDE DEF q, r
<1>. QED
  BY <1>0, <1>1, <1>2 DEF Gap

LEMMA SettledNear ==
  ASSUME TypeOK, NEW t \in Tasks, Settled(t)
  PROVE  Gap(10 * pot[t], Worth(t)) <= 15
<1>1. CASE fed[t] = [u \in {} |-> 0] /\ pot[t] = base[t]
  <2>1. Feeds(t) = {}
    <3>1. DOMAIN fed[t] = {} /\ DOMAIN Inputs(t) = Feeds(t)
      BY <1>1 DEF Inputs
    <3>. QED
      BY <3>1 DEF Settled
  <2>2. Worth(t) = 10 * base[t]
    BY <2>1, SumEmpty, WorthType DEF Worth
  <2>. QED
    BY <1>1, <2>2, WorthType DEF Gap
<1>2. CASE Gap(10 * pot[t], 10 * base[t] + 3 * SumFunctionOnSet(fed[t], Feeds(t))) <= 15
  <2>1. \A u \in Feeds(t) : fed[t][u] = pot[u]
    BY DEF Settled, Inputs
  <2>2. SumFunctionOnSet(fed[t], Feeds(t)) = SumFunctionOnSet(pot, Feeds(t))
    BY <2>1, FeedsAreTasks, SumAgree
  <2>. QED
    BY <1>2, <2>2 DEF Worth
<1>. QED
  BY <1>1, <1>2 DEF TypeOK

LEMMA RoundType ==
  ASSUME TypeOK
  PROVE  round \in Nat /\ round < MaxRounds /\ MaxRounds \in Nat
BY ScoringAssumption DEF TypeOK

LEMMA InitIInv ==
  ASSUME Init
  PROVE  IInv
<1>1. ReachIsClosure
  BY InitReach
<1>2. TypeOK
  <2>1. base \in [Tasks -> Bases] /\ pot = base /\ round = 0
    BY DEF Init
  <2>2. pot \in [Tasks -> Int]
    BY <2>1, ScoringAssumption
  <2>3. round \in 0 .. MaxRounds - 1
    BY <2>1, ScoringAssumption
  <2>4. /\ DOMAIN fed = Tasks /\ \A t \in Tasks : fed[t] = [u \in {} |-> 0] /\ pot[t] = base[t]
        /\ blockedBy \in [Tasks -> Lists] /\ left \subseteq Tasks /\ changed \in BOOLEAN
        /\ pc \in { "rounds", "done" }
    BY <2>1 DEF Init
  <2>5. score \in [Tasks -> [ potential : Int, effective : Int ]]
    BY DEF Init
  <2>. QED
    BY <1>1, <2>1, <2>2, <2>3, <2>4, <2>5 DEF TypeOK, ReachIsClosure
<1>3. ASSUME NEW t \in Tasks, Rank(t) <= round
      PROVE  Settled(t)
  <2>1. Rank(t) = 0
    <3>1. round = 0
      BY DEF Init
    <3>2. Rank(t) \in Nat
      BY <1>1, RankType
    <3>. QED
      BY <1>3, <3>1, <3>2
  <2>2. Feeds(t) = {}
    <3>1. ASSUME NEW u \in Feeds(t)
          PROVE  FALSE
      <4>1. u \in Tasks /\ Rank(u) < Rank(t)
        BY <1>1, FeedsRankLower
      <4>2. Rank(u) \in Nat
        BY <1>1, <4>1, RankType
      <4>. QED
        BY <2>1, <4>1, <4>2
    <3>. QED
      BY <3>1
  <2>. QED
    BY <1>2, <2>2, NoFeedsSettled
<1>. QED
  BY <1>1, <1>2, <1>3 DEF Init, IInv

\* What a step leaves alone leaves the edges and the ranks as they are.
LEMMA EdgesKept ==
  ASSUME UNCHANGED << blockedBy, base, reach >>
  PROVE  /\ ReachIsClosure => ReachIsClosure'
         /\ \A t : Blocks(t)' = Blocks(t) /\ Feeds(t)' = Feeds(t) /\ Rank(t)' = Rank(t)
<1>1. \A t : Blocks(t)' = Blocks(t)
  BY DEF Blocks
<1>2. \A t : Feeds(t)' = Feeds(t)
  BY <1>1 DEF Feeds
<1>3. \A t : Rank(t)' = Rank(t)
  BY DEF Rank
<1>4. ReachIsClosure => ReachIsClosure'
  BY <1>1 DEF ReachIsClosure
<1>. QED
  BY <1>1, <1>2, <1>3, <1>4

\* A visit that computes from other potentials than the last time is one of a
\* task that this round does not have to have settled before.
LEMMA FedIsHigher ==
  ASSUME IInv, NEW t \in Tasks, t \in left, fed[t] # Inputs(t)
  PROVE  Rank(t) > round /\ ~Settled(t)
<1>1. ~Settled(t)
  BY DEF Settled
<1>2. ~(Rank(t) <= round) /\ ReachIsClosure /\ TypeOK
  BY <1>1 DEF IInv
<1>3. Rank(t) \in Nat /\ round \in Nat
  BY <1>2, RankType, RoundType
<1>. QED
  BY <1>1, <1>2, <1>3

LEMMA SkippedIsSettled ==
  ASSUME IInv, NEW t \in Tasks, Blocks(t) = {} \/ fed[t] = Inputs(t)
  PROVE  Settled(t)
BY FeedsAreTasks, NoFeedsSettled DEF IInv, Settled

LEMMA SkipStep ==
  ASSUME IInv, NEW t \in Tasks, Visit(t),
         Blocks(t) = {} \/ fed[t] = Inputs(t), UNCHANGED << pot, changed, fed >>
  PROVE  IInv'
<1>1. /\ UNCHANGED << blockedBy, base, reach, round, pc, score >>
      /\ pc = "rounds" /\ left' = left \ {t}
  BY DEF Visit
<1>2. /\ ReachIsClosure'
      /\ \A u : Blocks(u)' = Blocks(u) /\ Feeds(u)' = Feeds(u) /\ Rank(u)' = Rank(u)
  BY <1>1, EdgesKept DEF IInv
<1>3. \A u : Settled(u)' <=> Settled(u)
  BY <1>2 DEF Settled, Inputs
<1>4. Settled(t)
  BY SkippedIsSettled
<1>5. TypeOK'
  BY <1>1, <1>2 DEF IInv, TypeOK, Gap
<1>6. \A u \in Tasks :
        Rank(u)' <= round' \/ (Rank(u)' <= round' + 1 /\ u \notin left') =>
          Settled(u)'
  BY <1>1, <1>2, <1>3, <1>4 DEF IInv
<1>7. (changed => \E u \in Tasks : Rank(u) > round)'
  BY <1>1, <1>2 DEF IInv
<1>8. (~changed => \A u \in Tasks \ left : Settled(u))'
  BY <1>1, <1>3, <1>4 DEF IInv
<1>. QED
  BY <1>1, <1>2, <1>5, <1>6, <1>7, <1>8 DEF IInv

\* What a visit that computes does: it is fed what there is now, and has now,
\* up to the rounding and the threshold, what this makes it.
Fed(t) ==
  /\ Blocks(t) # {} /\ fed[t] # Inputs(t)
  /\ fed' = [fed EXCEPT ![t] = Inputs(t)]
  /\ \A u \in Tasks \ {t} : pot'[u] = pot[u]
  /\ pot' \in [Tasks -> Int]
  /\ Gap(10 * pot'[t], Worth(t)) <= 15
  /\ changed' \in BOOLEAN
  /\ (changed' = changed /\ pot' = pot) \/ changed'

LEMMA VisitFeeds ==
  ASSUME TypeOK, NEW t \in Tasks, Visit(t), ~(Blocks(t) = {} \/ fed[t] = Inputs(t))
  PROVE  Fed(t)
<1>1. PICK new \in Rounded(Worth(t)) :
        \/ MayAdopt(new, pot[t]) /\ pot' = [pot EXCEPT ![t] = new] /\ changed' = TRUE
        \/ MayKeep(new, pot[t]) /\ UNCHANGED << pot, changed >>
  BY DEF Visit
<1>2. new \in Int /\ Gap(10 * new, Worth(t)) <= 5 /\ Worth(t) \in Int /\ pot[t] \in Int
  BY WorthType, RoundedIsNear
<1>3. fed' = [fed EXCEPT ![t] = Inputs(t)]
  BY DEF Visit
<1>4. pot \in [Tasks -> Int] /\ changed \in BOOLEAN
  BY DEF TypeOK
<1>5. CASE pot' = [pot EXCEPT ![t] = new] /\ changed' = TRUE
  <2>1. pot'[t] = new /\ pot' \in [Tasks -> Int] /\ \A u \in Tasks \ {t} : pot'[u] = pot[u]
    BY <1>2, <1>4, <1>5
  <2>2. Gap(10 * new, Worth(t)) <= 15
    BY <1>2 DEF Gap
  <2>. QED
    BY <1>3, <1>5, <2>1, <2>2 DEF Fed
<1>6. CASE MayKeep(new, pot[t]) /\ UNCHANGED << pot, changed >>
  <2>1. Gap(10 * pot[t], Worth(t)) <= 15
    BY <1>2, <1>6 DEF Gap, MayKeep
  <2>2. Gap(10 * pot'[t], Worth(t)) <= 15
    BY <1>6, <2>1
  <2>. QED
    BY <1>3, <1>4, <1>6, <2>2 DEF Fed
<1>. QED
  BY <1>1, <1>5, <1>6

LEMMA FedStep ==
  ASSUME IInv, NEW t \in Tasks, Visit(t), Fed(t)
  PROVE  IInv'
<1>1. /\ UNCHANGED << blockedBy, base, reach, round, pc, score >>
      /\ pc = "rounds" /\ t \in left /\ left' = left \ {t}
  BY DEF Visit
<1>2. /\ ReachIsClosure /\ ReachIsClosure'
      /\ \A u : Blocks(u)' = Blocks(u) /\ Feeds(u)' = Feeds(u) /\ Rank(u)' = Rank(u)
  BY <1>1, EdgesKept DEF IInv
<1>3. Rank(t) > round
  BY <1>1, FedIsHigher DEF Fed
<1>4. DOMAIN fed = Tasks /\ fed'[t] = Inputs(t) /\ \A u \in Tasks \ {t} : fed'[u] = fed[u]
  BY DEF Fed, IInv, TypeOK
<1>5. t \notin Feeds(t)
  BY <1>2, FeedsRankLower
<1>6. Settled(t)'
  <2>1. \A u \in Feeds(t) : pot'[u] = pot[u]
    BY <1>5, FeedsAreTasks DEF Fed
  <2>2. Inputs(t)' = Inputs(t)
    BY <1>2, <2>1 DEF Inputs
  <2>. QED
    BY <1>4, <2>2 DEF Settled
<1>7. ASSUME NEW u \in Tasks \ {t}, Settled(u), t \notin Feeds(u)
      PROVE  Settled(u)'
  <2>1. \A v \in Feeds(u) : pot'[v] = pot[v]
    BY <1>7, FeedsAreTasks DEF Fed
  <2>2. Inputs(u)' = Inputs(u)
    BY <1>2, <2>1 DEF Inputs
  <2>. QED
    BY <1>4, <1>7, <2>2 DEF Settled
<1>8. TypeOK'
  <2>1. ASSUME NEW u \in Tasks
        PROVE  \/ fed'[u] = [v \in {} |-> 0] /\ pot'[u] = base'[u]
               \/ /\ fed'[u] \in [Feeds(u)' -> Int]
                  /\ Gap(10 * pot'[u], 10 * base'[u] + 3 * SumFunctionOnSet(fed'[u], Feeds(u)')) <= 15
    <3>1. CASE u = t
      <4>1. fed'[t] \in [Feeds(t) -> Int] /\ \A v \in Feeds(t) : fed'[t][v] = pot[v]
        BY <1>4, FeedsAreTasks DEF Inputs, IInv, TypeOK
      <4>2. SumFunctionOnSet(fed'[t], Feeds(t)) = SumFunctionOnSet(pot, Feeds(t))
        BY <4>1, FeedsAreTasks, SumAgree
      <4>3. Gap(10 * pot'[t], 10 * base[t] + 3 * SumFunctionOnSet(fed'[t], Feeds(t))) <= 15
        BY <4>2 DEF Fed, Worth
      <4>. QED
        BY <1>1, <1>2, <3>1, <4>1, <4>3
    <3>2. CASE u # t
      <4>1. fed'[u] = fed[u] /\ pot'[u] = pot[u] /\ base'[u] = base[u] /\ Feeds(u)' = Feeds(u)
        BY <1>1, <1>2, <1>4, <3>2 DEF Fed
      <4>2. \/ fed[u] = [v \in {} |-> 0] /\ pot[u] = base[u]
            \/ /\ fed[u] \in [Feeds(u) -> Int]
               /\ Gap(10 * pot[u], 10 * base[u] + 3 * SumFunctionOnSet(fed[u], Feeds(u))) <= 15
        BY DEF IInv, TypeOK
      <4>. QED
        BY <4>1, <4>2
    <3>. QED
      BY <3>1, <3>2
  <2>2. \A u \in Tasks :
          \/ (fed[u] = [v \in {} |-> 0] /\ pot[u] = base[u])'
          \/ (/\ fed[u] \in [Feeds(u) -> Int]
              /\ Gap(10 * pot[u], 10 * base[u] + 3 * SumFunctionOnSet(fed[u], Feeds(u))) <= 15)'
    BY <2>1 DEF Gap
  <2>3. DOMAIN fed' = Tasks
    BY DEF Fed, IInv, TypeOK
  <2>. QED
    BY <1>1, <2>2, <2>3 DEF Fed, IInv, TypeOK
<1>9. ASSUME NEW u \in Tasks, Rank(u) <= round \/ (Rank(u) <= round + 1 /\ u \notin left')
      PROVE  Settled(u)'
  <2>1. CASE u = t
    BY <1>6, <2>1
  <2>2. CASE u # t
    <3>1. Settled(u)
      BY <1>1, <1>9, <2>2 DEF IInv
    <3>2. t \notin Feeds(u)
      <4>1. round \in Nat /\ Rank(t) \in Nat /\ Rank(u) \in Nat
        BY <1>2, RankType, RoundType DEF IInv
      <4>2. Rank(u) <= Rank(t)
        BY <1>3, <1>9, <4>1
      <4>3. t \in Feeds(u) => Rank(t) < Rank(u)
        BY <1>2, FeedsRankLower
      <4>. QED
        BY <4>1, <4>2, <4>3
    <3>. QED
      BY <1>7, <2>2, <3>1, <3>2
  <2>. QED
    BY <2>1, <2>2
<1>10. ASSUME ~changed', NEW u \in Tasks \ left'
       PROVE  Settled(u)'
  <2>1. CASE u = t
    BY <1>6, <2>1
  <2>2. CASE u # t
    <3>1. ~changed /\ pot' = pot
      BY <1>10 DEF Fed
    <3>2. Settled(u)
      BY <1>1, <1>10, <2>2, <3>1 DEF IInv
    <3>3. Inputs(u)' = Inputs(u)
      BY <1>2, <3>1 DEF Inputs
    <3>. QED
      BY <1>4, <1>10, <2>2, <3>2, <3>3 DEF Settled
  <2>. QED
    BY <2>1, <2>2
<1>11. \A u \in Tasks : Blocks(u)' = {} => pot'[u] = base'[u]
  BY <1>1, <1>2 DEF Fed, IInv
<1>12. \A u \in Tasks :
        Rank(u)' <= round' \/ (Rank(u)' <= round' + 1 /\ u \notin left') =>
          Settled(u)'
  BY <1>1, <1>2, <1>9
<1>13. (changed => \E u \in Tasks : Rank(u) > round)'
  BY <1>1, <1>2, <1>3
<1>14. (~changed => \A u \in Tasks \ left : Settled(u))'
  BY <1>10
<1>. QED
  BY <1>1, <1>2, <1>8, <1>11, <1>12, <1>13, <1>14 DEF IInv

LEMMA NextRoundStep ==
  ASSUME IInv, NextRound
  PROVE  IInv'
<1>1. /\ UNCHANGED << blockedBy, base, reach, pot, fed, pc, score >>
      /\ pc = "rounds" /\ left = {} /\ left' = Tasks
      /\ changed' = FALSE /\ round' = round + 1 /\ round + 1 # MaxRounds
  BY DEF NextRound, Over
<1>2. /\ ReachIsClosure /\ ReachIsClosure'
      /\ \A u : Blocks(u)' = Blocks(u) /\ Feeds(u)' = Feeds(u) /\ Rank(u)' = Rank(u)
  BY <1>1, EdgesKept DEF IInv
<1>3. \A u : Settled(u)' <=> Settled(u)
  BY <1>1, <1>2 DEF Settled, Inputs
<1>4. round' \in 0 .. MaxRounds - 1
  BY <1>1, ScoringAssumption DEF IInv, TypeOK
<1>5. TypeOK'
  BY <1>1, <1>2, <1>4 DEF IInv, TypeOK, Gap
<1>6. \A u \in Tasks :
        Rank(u)' <= round' \/ (Rank(u)' <= round' + 1 /\ u \notin left') =>
          Settled(u)'
  BY <1>1, <1>2, <1>3 DEF IInv
<1>. QED
  BY <1>1, <1>2, <1>5, <1>6 DEF IInv

LEMMA ResultsStep ==
  ASSUME IInv, Results
  PROVE  IInv'
<1>1. /\ UNCHANGED << blockedBy, base, reach, pot, left, round, changed, fed >>
      /\ left = {} /\ Over /\ pc' = "done"
      /\ score' = [t \in Tasks |->
            [ potential |-> pot[t],
              effective |-> IF blockedBy[t] # {} THEN 0 ELSE pot[t] ]]
  BY DEF Results
<1>2. /\ ReachIsClosure /\ ReachIsClosure'
      /\ \A u : Blocks(u)' = Blocks(u) /\ Feeds(u)' = Feeds(u) /\ Rank(u)' = Rank(u)
  BY <1>1, EdgesKept DEF IInv
<1>3. \A u : Settled(u)' <=> Settled(u)
  BY <1>1, <1>2 DEF Settled, Inputs
<1>4. score' \in [Tasks -> [ potential : Int, effective : Int ]]
  BY <1>1 DEF IInv, TypeOK
<1>5. TypeOK'
  BY <1>1, <1>2, <1>4 DEF IInv, TypeOK, Gap
<1>6. Over'
  BY <1>1 DEF Over
<1>. QED
  BY <1>1, <1>2, <1>3, <1>5, <1>6 DEF IInv

LEMMA StutterStep ==
  ASSUME IInv, UNCHANGED vars
  PROVE  IInv'
<1>1. UNCHANGED << blockedBy, base, reach, pot, left, round, changed, fed, pc, score >>
  BY DEF vars
<1>2. /\ ReachIsClosure /\ ReachIsClosure'
      /\ \A u : Blocks(u)' = Blocks(u) /\ Feeds(u)' = Feeds(u) /\ Rank(u)' = Rank(u)
  BY <1>1, EdgesKept DEF IInv
<1>3. \A u : Settled(u)' <=> Settled(u)
  BY <1>1, <1>2 DEF Settled, Inputs
<1>4. TypeOK'
  BY <1>1, <1>2 DEF IInv, TypeOK, Gap
<1>5. Over' <=> Over
  BY <1>1 DEF Over
<1>. QED
  BY <1>1, <1>2, <1>3, <1>4, <1>5 DEF IInv

LEMMA NextIInv ==
  ASSUME IInv, [Next]_vars
  PROVE  IInv'
<1>1. ASSUME NEW t \in Tasks, Visit(t)
      PROVE  IInv'
  <2>1. CASE Blocks(t) = {} \/ fed[t] = Inputs(t)
    <3>1. UNCHANGED << pot, changed, fed >>
      BY <1>1, <2>1 DEF Visit
    <3>. QED
      BY <1>1, <2>1, <3>1, SkipStep
  <2>2. CASE ~(Blocks(t) = {} \/ fed[t] = Inputs(t))
    <3>1. Fed(t)
      BY <1>1, <2>2, VisitFeeds DEF IInv
    <3>. QED
      BY <1>1, <3>1, FedStep
  <2>. QED
    BY <2>1, <2>2
<1>. QED
  BY <1>1, NextRoundStep, ResultsStep, StutterStep DEF Next

\* RecalculateAll: in every state of the rounds the inductive invariant holds.
THEOREM InvariantHolds == Spec => []IInv
BY InitIInv, NextIInv, PTL DEF Spec

\* A potential is always what the values it was last computed from make it, up
\* to the rounding and the threshold of the range loop.
THEOREM TypesHold == Spec => []TypeOK
<1>1. IInv => TypeOK
  BY DEF IInv
<1>. QED
  BY <1>1, InvariantHolds, PTL

LEMMA StopsFromIInv ==
  ASSUME IInv
  PROVE  StopsByItself
<1>. SUFFICES ASSUME pc = "done", \A t \in Tasks : Cardinality(reach[t]) < MaxRounds, changed
              PROVE  FALSE
  BY DEF StopsByItself
<1>1. TypeOK /\ ReachIsClosure /\ round + 1 = MaxRounds
  BY DEF IInv, Over
<1>2. PICK t \in Tasks : Rank(t) > round
  BY DEF IInv
<1>3. Rank(t) \in Nat /\ Rank(t) <= Cardinality(reach[t]) /\ Cardinality(reach[t]) \in Nat
  BY <1>1, RankType
<1>4. round \in Nat
  BY <1>1, RoundType
<1>5. Cardinality(reach[t]) < round + 1
  BY <1>1
<1>. QED
  BY <1>2, <1>3, <1>4, <1>5

\* The cap of ten rounds does not end the loop, whatever the order of the map,
\* unless some task reaches as many others as there are rounds.
THEOREM LoopStopsByItself == Spec => []StopsByItself
BY InvariantHolds, StopsFromIInv, PTL

LEMMA NearFromIInv ==
  ASSUME IInv
  PROVE  NearItsEquation
<1>1. pc = "done" /\ ~changed => \A t \in Tasks : Settled(t)
  BY DEF IInv
<1>. QED
  BY <1>1, SettledNear DEF IInv, NearItsEquation

\* The loop that ends with a round that adopts nothing leaves every potential
\* near the value of its own equation, for any tasks and any order of the map.
THEOREM RoundsReachTheirEquations == Spec => []NearItsEquation
BY InvariantHolds, NearFromIInv, PTL

-----------------------------------------------------------------------------
(* Powers of ten, and the exact values. *)

LEMMA TensSteps ==
  /\ Tens[0] = 1
  /\ \A n \in Nat : Tens[n] \in Nat \ {0} /\ Tens[n + 1] = 10 * Tens[n]
<1>. DEFINE F == [x \in Nat |-> 10 * x]
            Eq(g) == g = [n \in Nat |-> IF n = 0 THEN 1 ELSE 10 * g[n - 1]]
<1>1. PICK g : Iterates(g, 1, F)
  BY IteratesExist
<1>2. \A n \in Nat : g[n] \in Nat
  <2>1. \A x \in Nat : F[x] \in Nat
    OBVIOUS
  <2>. HIDE DEF F
  <2>. QED
    BY <1>1, <2>1, IteratesType
<1>3. Eq(g)
  <2>1. \A n \in Nat : n # 0 => F[g[n - 1]] = 10 * g[n - 1]
    BY <1>2
  <2>. HIDE DEF F
  <2>. QED
    BY <1>1, <2>1 DEF Iterates
<1>4. Eq(Tens)
  BY <1>3 DEF Tens
<1>5. Tens[0] = 1
  BY <1>4
<1>6. ASSUME NEW n \in Nat
      PROVE  Tens[n + 1] = 10 * Tens[n]
  <2>1. n + 1 \in Nat /\ n + 1 # 0 /\ (n + 1) - 1 = n
    OBVIOUS
  <2>. QED
    BY <1>4, <2>1
<1>7. \A n \in Nat : Tens[n] \in Nat \ {0}
  <2>. DEFINE Q == { n \in Nat : Tens[n] \in Nat \ {0} }
  <2>1. 0 \in Q
    BY <1>5
  <2>2. ASSUME NEW n \in Nat, n \in Q
        PROVE  n + 1 \in Q
    BY <2>2, <1>6
  <2>3. Nat \subseteq Q
    <3>. HIDE DEF Q
    <3>. QED
      BY <2>1, <2>2, OnNat
  <2>. QED
    BY <2>3
<1>. QED
  BY <1>5, <1>6, <1>7

\* x is m times a number.
Divides(m, x) == \E q \in Int : x = m * q

LEMMA Associates ==
  ASSUME NEW x \in Int, NEW y \in Int, NEW z \in Int
  PROVE  (x * y) * z = x * (y * z) /\ x * y = y * x
OBVIOUS

LEMMA TensDivide ==
  ASSUME NEW n \in Nat, NEW c \in Int, NEW m \in Nat, m <= n
  PROVE  Divides(Tens[m], Tens[n] * c)
<1>. DEFINE Q == { d \in Nat : \A k \in Nat : Divides(Tens[k], Tens[k + d]) }
<1>1. 0 \in Q
  <2>1. ASSUME NEW k \in Nat
        PROVE  Divides(Tens[k], Tens[k + 0])
    <3>1. k + 0 = k /\ Tens[k] \in Int
      BY TensSteps
    <3>2. Tens[k] = Tens[k] * 1
      BY <3>1
    <3>. QED
      BY <3>1, <3>2 DEF Divides
  <2>. QED
    BY <2>1
<1>2. ASSUME NEW d \in Nat, d \in Q
      PROVE  d + 1 \in Q
  <2>1. ASSUME NEW k \in Nat
        PROVE  Divides(Tens[k], Tens[k + (d + 1)])
    <3>1. PICK q \in Int : Tens[k + d] = Tens[k] * q
      BY <1>2 DEF Divides
    <3>2. k + (d + 1) = (k + d) + 1 /\ k + d \in Nat
      OBVIOUS
    <3>3. Tens[k + (d + 1)] = 10 * (Tens[k] * q) /\ Tens[k] \in Int
      BY <3>1, <3>2, TensSteps
    <3>4. 10 * (Tens[k] * q) = Tens[k] * (10 * q)
      BY <3>3
    <3>5. 10 * q \in Int
      OBVIOUS
    <3>. QED
      BY <3>3, <3>4, <3>5 DEF Divides
  <2>. QED
    BY <2>1
<1>3. Nat \subseteq Q
  <2>. HIDE DEF Q
  <2>. QED
    BY <1>1, <1>2, OnNat
<1>4. n - m \in Nat /\ m + (n - m) = n
  OBVIOUS
<1>5. Divides(Tens[m], Tens[n])
  BY <1>3, <1>4
<1>6. PICK q \in Int : Tens[n] = Tens[m] * q
  BY <1>5 DEF Divides
<1>7. Tens[n] * c = Tens[m] * (q * c) /\ q * c \in Int
  BY <1>6, TensSteps, Associates
<1>. QED
  BY <1>7 DEF Divides

UpTo(own) ==
  CHOOSE upTo : upTo =
    [d \in Nat |->
       IF d = 0 THEN own
       ELSE LET deeper == upTo[d - 1] IN
            [t \in Tasks |-> own[t] + (3 * SumFunctionOnSet(deeper, ForwardOnly(t))) \div 10]]

LEMMA PassedOnIsUpTo ==
  ASSUME NEW own
  PROVE  PassedOn(own) = UpTo(own)[Cardinality(Tasks)]
<1>. DEFINE feeds == [t \in Tasks |-> ForwardOnly(t)]
            Eq(g) == g = [d \in Nat |->
               IF d = 0 THEN own
               ELSE LET deeper == g[d - 1] IN
                    [t \in Tasks |-> own[t] + (3 * SumFunctionOnSet(deeper, feeds[t])) \div 10]]
            Eq2(g) == g = [d \in Nat |->
               IF d = 0 THEN own
               ELSE LET deeper == g[d - 1] IN
                    [t \in Tasks |-> own[t] + (3 * SumFunctionOnSet(deeper, ForwardOnly(t))) \div 10]]
<1>1. \A g : Eq(g) <=> Eq2(g)
  OBVIOUS
<1>2. (CHOOSE g : Eq(g)) = (CHOOSE g : Eq2(g))
  <2>. HIDE DEF Eq, Eq2
  <2>. QED
    BY <1>1
<1>. QED
  BY <1>2 DEF PassedOn, UpTo

LEMMA UpToSteps ==
  ASSUME ReachIsClosure, NEW own \in [Tasks -> Int]
  PROVE  /\ UpTo(own)[0] = own
         /\ \A d \in Nat :
              /\ UpTo(own)[d] \in [Tasks -> Int]
              /\ \A t \in Tasks :
                   /\ SumFunctionOnSet(UpTo(own)[d], Feeds(t)) \in Int
                   /\ UpTo(own)[d + 1][t] =
                        own[t] + (3 * SumFunctionOnSet(UpTo(own)[d], Feeds(t))) \div 10
<1>. DEFINE deeper(p) == [t \in Tasks |-> own[t] + (3 * SumFunctionOnSet(p, ForwardOnly(t))) \div 10]
            F == [p \in [Tasks -> Int] |-> deeper(p)]
            Eq(g) == g = [d \in Nat |-> IF d = 0 THEN own ELSE deeper(g[d - 1])]
            upTo == UpTo(own)
<1>1. ASSUME NEW p \in [Tasks -> Int], NEW t \in Tasks
      PROVE  /\ SumFunctionOnSet(p, ForwardOnly(t)) \in Int
             /\ SumFunctionOnSet(p, ForwardOnly(t)) = SumFunctionOnSet(p, Feeds(t))
  <2>1. ForwardOnly(t) = Feeds(t) /\ IsFiniteSet(Feeds(t)) /\ Feeds(t) \subseteq Tasks
    BY ForwardIsFeeds, FeedsAreTasks
  <2>2. SumFunctionOnSet(p, Feeds(t)) \in Int
    BY <2>1, SumType
  <2>. QED
    BY <2>1, <2>2
<1>2. ASSUME NEW p \in [Tasks -> Int]
      PROVE  deeper(p) \in [Tasks -> Int] /\ F[p] = deeper(p)
  <2>1. \A t \in Tasks : own[t] + (3 * SumFunctionOnSet(p, ForwardOnly(t))) \div 10 \in Int
    BY <1>1
  <2>. QED
    BY <2>1
<1>3. PICK g : Iterates(g, own, F)
  BY IteratesExist
<1>. HIDE DEF F
<1>4. \A d \in Nat : g[d] \in [Tasks -> Int]
  <2>. DEFINE X == [Tasks -> Int]
  <2>1. own \in X /\ \A p \in X : F[p] \in X
    BY <1>2
  <2>. HIDE DEF X
  <2>2. \A d \in Nat : g[d] \in X
    BY <1>3, <2>1, IteratesType
  <2>. QED
    BY <2>2 DEF X
<1>5. Eq(g)
  <2>1. \A d \in Nat : d # 0 => F[g[d - 1]] = deeper(g[d - 1])
    BY <1>2, <1>4
  <2>. HIDE DEF deeper
  <2>. QED
    BY <1>3, <2>1 DEF Iterates
<1>6. Eq(upTo)
  <2>1. upTo = CHOOSE h : Eq(h)
    BY DEF UpTo
  <2>. HIDE DEF Eq, upTo
  <2>. QED
    BY <1>5, <2>1
<1>. HIDE DEF upTo
<1>7. upTo[0] = own
  BY <1>6
<1>8. ASSUME NEW d \in Nat
      PROVE  upTo[d + 1] = deeper(upTo[d])
  <2>1. d + 1 \in Nat /\ d + 1 # 0 /\ (d + 1) - 1 = d
    OBVIOUS
  <2>. HIDE DEF deeper
  <2>. QED
    BY <1>6, <2>1
<1>9. \A d \in Nat : upTo[d] \in [Tasks -> Int]
  <2>. DEFINE Q == { d \in Nat : upTo[d] \in [Tasks -> Int] }
  <2>1. 0 \in Q
    BY <1>7
  <2>2. ASSUME NEW d \in Nat, d \in Q
        PROVE  d + 1 \in Q
    <3>1. deeper(upTo[d]) \in [Tasks -> Int]
      BY <1>2, <2>2
    <3>2. upTo[d + 1] \in [Tasks -> Int]
      BY <1>8, <3>1
    <3>. QED
      BY <3>2
  <2>3. Nat \subseteq Q
    <3>. HIDE DEF Q
    <3>. QED
      BY <2>1, <2>2, OnNat
  <2>. QED
    BY <2>3
<1>10. ASSUME NEW d \in Nat, NEW t \in Tasks
       PROVE  /\ SumFunctionOnSet(upTo[d], Feeds(t)) \in Int
              /\ upTo[d + 1][t] = own[t] + (3 * SumFunctionOnSet(upTo[d], Feeds(t))) \div 10
  <2>1. upTo[d + 1][t] = own[t] + (3 * SumFunctionOnSet(upTo[d], ForwardOnly(t))) \div 10
    BY <1>8
  <2>. QED
    BY <1>1, <1>9, <2>1
<1>. QED
  BY <1>7, <1>9, <1>10 DEF upTo

LEMMA TenTimes ==
  ASSUME NEW x \in Int, NEW y \in Int
  PROVE  (10 * x) * y = 10 * (x * y) /\ x * y \in Int
OBVIOUS

LEMMA Collects ==
  ASSUME NEW x \in Int, NEW r \in Int, NEW q \in Int
  PROVE  x * r + 3 * (x * q) = x * (r + 3 * q) /\ r + 3 * q \in Int
OBVIOUS

LEMMA DividesSum ==
  ASSUME NEW S, IsFiniteSet(S), NEW m \in Int, NEW f, \A x \in S : Divides(m, f[x])
  PROVE  Divides(m, SumFunctionOnSet(f, S))
<1>. DEFINE q == [x \in S |-> CHOOSE k \in Int : f[x] = m * k]
<1>1. \A x \in S : q[x] \in Int /\ f[x] = m * q[x]
  BY DEF Divides
<1>. HIDE DEF q
<1>2. SumFunctionOnSet(f, S) = m * SumFunctionOnSet(q, S) /\ SumFunctionOnSet(q, S) \in Int
  BY <1>1, SumScaled, SumType
<1>. QED
  BY <1>2 DEF Divides

LEMMA TenthOf ==
  ASSUME NEW y \in Int, NEW x, x = 10 * y
  PROVE  (3 * x) \div 10 = 3 * y
<1>1. 3 * x = 10 * (3 * y)
  OBVIOUS
<1>. DEFINE z == 3 * y
<1>2. z \in Int /\ (10 * z) \div 10 = z
  OBVIOUS
<1>. QED
  BY <1>1, <1>2

\* What a task of rank k passes on is complete after k steps, and every step
\* divides it by ten at most once.
LEMMA PassedOnSettles ==
  ASSUME ReachIsClosure, NEW own \in [Tasks -> Int], NEW c \in [Tasks -> Int],
         NEW n \in Nat, \A t \in Tasks : own[t] = Tens[n] * c[t],
         NEW k \in Nat, k <= n, NEW t \in Tasks, Rank(t) <= k
  PROVE  /\ \A d \in Nat : d >= k => UpTo(own)[d][t] = UpTo(own)[k][t]
         /\ Divides(Tens[n - k], UpTo(own)[k][t])
<1>. DEFINE upTo == UpTo(own)
            Complete(j, u) == /\ \A d \in Nat : d >= j => upTo[d][u] = upTo[j][u]
                              /\ Divides(Tens[n - j], upTo[j][u])
            Q == { j \in Nat : j <= n => \A u \in Tasks : Rank(u) <= j => Complete(j, u) }
<1>. HIDE DEF upTo
<1>1. /\ upTo[0] = own
      /\ \A d \in Nat : /\ upTo[d] \in [Tasks -> Int]
                        /\ \A u \in Tasks :
                             /\ SumFunctionOnSet(upTo[d], Feeds(u)) \in Int
                             /\ upTo[d + 1][u] = own[u] + (3 * SumFunctionOnSet(upTo[d], Feeds(u))) \div 10
  BY UpToSteps DEF upTo
<1>2. ASSUME NEW d \in Nat, d # 0, NEW u \in Tasks
      PROVE  upTo[d][u] = own[u] + (3 * SumFunctionOnSet(upTo[d - 1], Feeds(u))) \div 10
  <2>1. d - 1 \in Nat /\ (d - 1) + 1 = d
    BY <1>2
  <2>. QED
    BY <1>1, <2>1
<1>3. 0 \in Q
  <2>1. ASSUME NEW u \in Tasks, Rank(u) <= 0
        PROVE  Complete(0, u)
    <3>1. Feeds(u) = {}
      <4>1. ASSUME NEW v \in Feeds(u)
            PROVE  FALSE
        <5>1. v \in Tasks /\ Rank(v) < Rank(u)
          BY FeedsRankLower
        <5>2. Rank(v) \in Nat /\ Rank(u) \in Nat
          BY <5>1, RankType
        <5>. QED
          BY <2>1, <5>1, <5>2
      <4>. QED
        BY <4>1
    <3>2. ASSUME NEW d \in Nat, d # 0
          PROVE  upTo[d][u] = own[u]
      <4>1. SumFunctionOnSet(upTo[d - 1], Feeds(u)) = 0
        BY <3>1, SumEmpty
      <4>2. (3 * 0) \div 10 = 0 /\ own[u] \in Int
        OBVIOUS
      <4>. QED
        BY <1>2, <3>2, <4>1, <4>2
    <3>3. Divides(Tens[n - 0], upTo[0][u])
      <4>1. own[u] = Tens[n] * c[u] /\ n - 0 = n /\ c[u] \in Int
        OBVIOUS
      <4>. QED
        BY <1>1, <4>1 DEF Divides
    <3>. QED
      BY <1>1, <3>2, <3>3
  <2>. QED
    BY <2>1
<1>4. ASSUME NEW j \in Nat, j \in Q
      PROVE  j + 1 \in Q
  <2>1. ASSUME j + 1 <= n, NEW u \in Tasks, Rank(u) <= j + 1
        PROVE  Complete(j + 1, u)
    <3>. DEFINE S == Feeds(u)
                m == n - (j + 1)
    <3>1. /\ m \in Nat /\ n - j = m + 1 /\ Tens[n - j] = 10 * Tens[m] /\ Tens[m] \in Int
          /\ Tens[n - j] \in Int
      <4>1. m \in Nat /\ n - j = m + 1
        BY <2>1
      <4>. QED
        BY <4>1, TensSteps
    <3>2. IsFiniteSet(S) /\ \A v \in S : v \in Tasks /\ Complete(j, v)
      <4>1. IsFiniteSet(S)
        BY FeedsAreTasks
      <4>2. ASSUME NEW v \in S
            PROVE  v \in Tasks /\ Complete(j, v)
        <5>1. v \in Tasks /\ Rank(v) < Rank(u)
          BY FeedsRankLower
        <5>2. Rank(v) \in Nat /\ Rank(u) \in Nat
          BY <5>1, RankType
        <5>3. Rank(v) <= j /\ j <= n
          BY <2>1, <5>1, <5>2
        <5>. HIDE DEF Complete
        <5>. QED
          BY <1>4, <5>1, <5>3
      <4>. QED
        BY <4>1, <4>2
    <3>3. ASSUME NEW d \in Nat, d >= j
          PROVE  SumFunctionOnSet(upTo[d], S) = SumFunctionOnSet(upTo[j], S)
      BY <3>2, <3>3, SumAgree
    <3>4. ASSUME NEW d \in Nat, d >= j + 1
          PROVE  upTo[d][u] = upTo[j + 1][u]
      <4>1. d # 0 /\ d - 1 \in Nat /\ d - 1 >= j
        BY <3>4
      <4>2. upTo[d][u] = own[u] + (3 * SumFunctionOnSet(upTo[d - 1], S)) \div 10
        BY <1>2, <4>1
      <4>3. SumFunctionOnSet(upTo[d - 1], S) = SumFunctionOnSet(upTo[j], S)
        BY <3>3, <4>1
      <4>. QED
        BY <1>1, <4>2, <4>3
    <3>5. Divides(Tens[n - (j + 1)], upTo[j + 1][u])
      <4>1. Divides(Tens[n - j], SumFunctionOnSet(upTo[j], S))
        BY <3>1, <3>2, DividesSum
      <4>2. PICK q \in Int : SumFunctionOnSet(upTo[j], S) = Tens[n - j] * q
        BY <4>1 DEF Divides
      <4>3. Tens[n - j] * q = 10 * (Tens[m] * q) /\ Tens[m] * q \in Int
        BY <3>1, TenTimes
      <4>4. (3 * SumFunctionOnSet(upTo[j], S)) \div 10 = 3 * (Tens[m] * q)
        BY <4>2, <4>3, TenthOf
      <4>5. Divides(Tens[m], own[u])
        BY <3>1, m <= n, TensDivide
      <4>6. PICK r \in Int : own[u] = Tens[m] * r
        BY <4>5 DEF Divides
      <4>7. upTo[j + 1][u] = Tens[m] * r + 3 * (Tens[m] * q)
        BY <1>1, <4>4, <4>6
      <4>8. Tens[m] * r + 3 * (Tens[m] * q) = Tens[m] * (r + 3 * q) /\ r + 3 * q \in Int
        BY <3>1, Collects
      <4>. QED
        BY <4>7, <4>8 DEF Divides
    <3>. QED
      BY <3>4, <3>5
  <2>. QED
    BY <2>1
<1>5. Nat \subseteq Q
  <2>. HIDE DEF Q
  <2>. QED
    BY <1>3, <1>4, OnNat
<1>6. Complete(k, t)
  <2>. HIDE DEF Complete
  <2>. QED
    BY <1>5
<1>. QED
  BY <1>6 DEF upTo

\* One step below the depth of any task every value is complete and a multiple of
\* ten, so the division by ten leaves no remainder.
LEMMA PassedOnEquation ==
  ASSUME ReachIsClosure, NEW own \in [Tasks -> Int], NEW c \in [Tasks -> Int],
         NEW n \in Nat, n + 1 = Cardinality(Tasks),
         \A t \in Tasks : own[t] = Tens[n] * c[t],
         NEW t \in Tasks
  PROVE  /\ PassedOn(own) \in [Tasks -> Int]
         /\ 10 * PassedOn(own)[t] = 10 * own[t] + 3 * SumFunctionOnSet(PassedOn(own), Feeds(t))
<1>. DEFINE upTo == UpTo(own)
            P == PassedOn(own)
            S == Feeds(t)
<1>1. P = upTo[n + 1]
  BY PassedOnIsUpTo
<1>. HIDE DEF upTo, P
<1>2. /\ P \in [Tasks -> Int]
      /\ SumFunctionOnSet(upTo[n], S) \in Int
      /\ P[t] = own[t] + (3 * SumFunctionOnSet(upTo[n], S)) \div 10
  BY <1>1, UpToSteps, n + 1 \in Nat DEF upTo
<1>3. IsFiniteSet(S) /\ S \subseteq Tasks
  BY FeedsAreTasks
<1>4. ASSUME NEW u \in Tasks
      PROVE  P[u] = upTo[n][u]
  <2>1. Rank(u) \in Nat /\ Rank(u) < Cardinality(Tasks)
    BY RankType
  <2>2. Rank(u) <= n
    BY <2>1
  <2>3. upTo[n + 1][u] = upTo[n][u]
    BY <2>2, PassedOnSettles, n + 1 \in Nat, n + 1 >= n DEF upTo
  <2>. QED
    BY <1>1, <2>3
<1>5. SumFunctionOnSet(upTo[n], S) = SumFunctionOnSet(P, S)
  BY <1>3, <1>4, SumAgree
<1>6. Divides(10, SumFunctionOnSet(P, S))
  <2>1. ASSUME NEW u \in S
        PROVE  Divides(10, P[u])
    <3>1. u \in Tasks /\ Rank(u) < Rank(t)
      BY FeedsRankLower
    <3>2. Rank(u) \in Nat /\ Rank(t) \in Nat /\ Rank(t) < Cardinality(Tasks)
      BY <3>1, RankType
    <3>3. n - 1 \in Nat /\ Rank(u) <= n - 1 /\ n - 1 <= n /\ n - (n - 1) = 1
      BY <3>1, <3>2
    <3>4. upTo[n][u] = upTo[n - 1][u] /\ Divides(Tens[n - (n - 1)], upTo[n - 1][u])
      BY <3>1, <3>3, PassedOnSettles DEF upTo
    <3>5. Tens[1] = 10
      BY TensSteps, 0 + 1 = 1
    <3>. QED
      BY <1>4, <3>1, <3>3, <3>4, <3>5
  <2>2. 10 \in Int
    OBVIOUS
  <2>. HIDE DEF S
  <2>. QED
    BY <1>3, <2>1, <2>2, DividesSum
<1>7. PICK y \in Int : SumFunctionOnSet(P, S) = 10 * y
  BY <1>6 DEF Divides
<1>8. P[t] = own[t] + 3 * y
  BY <1>2, <1>5, <1>7, TenthOf
<1>9. own[t] \in Int
  OBVIOUS
<1>. QED
  BY <1>2, <1>7, <1>8, <1>9 DEF P

LEMMA TimesBound ==
  ASSUME NEW s \in Nat, NEW d \in Int, d <= 15, -15 <= d
  PROVE  s * d <= 15 * s /\ -(15 * s) <= s * d
<1>1. s * (15 - d) >= 0 /\ s * (15 + d) >= 0
  <2>. DEFINE a == 15 - d
              b == 15 + d
  <2>1. a \in Nat /\ b \in Nat
    OBVIOUS
  <2>. HIDE DEF a, b
  <2>2. s * a >= 0 /\ s * b >= 0
    BY <2>1
  <2>. QED
    BY <2>2 DEF a, b
<1>2. s * (15 - d) = 15 * s - s * d /\ s * (15 + d) = 15 * s + s * d
  OBVIOUS
<1>3. s * d \in Int
  OBVIOUS
<1>. QED
  BY <1>1, <1>2, <1>3

LEMMA ScaledGap ==
  ASSUME NEW s \in Nat, NEW p \in Int, NEW b \in Int, NEW sum \in Int,
         Gap(10 * p, 10 * b + 3 * sum) <= 15
  PROVE  /\ s * p \in Int /\ s * b \in Int /\ s * sum \in Int
         /\ Gap(10 * (s * p), 10 * (s * b) + 3 * (s * sum)) <= 15 * s
<1>. DEFINE d == 10 * p - 10 * b - 3 * sum
<1>1. d \in Int /\ d <= 15 /\ -15 <= d
  BY DEF Gap
<1>2. s * d <= 15 * s /\ -(15 * s) <= s * d
  <2>. HIDE DEF d
  <2>. QED
    BY <1>1, TimesBound
<1>3. s * d = 10 * (s * p) - 10 * (s * b) - 3 * (s * sum)
  OBVIOUS
<1>4. s * p \in Int /\ s * b \in Int /\ s * sum \in Int
  OBVIOUS
<1>. QED
  BY <1>2, <1>3, <1>4 DEF Gap

LEMMA ScaleIsTens ==
  ASSUME Tasks # {}
  PROVE  \E n \in Nat : /\ n + 1 = Cardinality(Tasks)
                        /\ Tens[n] \in Nat /\ Scale = 10 * Tens[n] /\ Scale \in Nat
<1>1. Cardinality(Tasks) \in Nat /\ Cardinality(Tasks) # 0
  BY ScoringAssumption, FS_CardinalityType, FS_EmptySet
<1>. DEFINE n == Cardinality(Tasks) - 1
<1>2. n \in Nat /\ n + 1 = Cardinality(Tasks)
  BY <1>1
<1>3. Tens[n] \in Nat /\ Scale = 10 * Tens[n] /\ Scale \in Nat
  BY <1>2, TensSteps DEF Scale
<1>. QED
  BY <1>2, <1>3

LEMMA ExactEquation ==
  ASSUME TypeOK, ReachIsClosure, Tasks # {}
  PROVE  /\ Exact \in [Tasks -> Int]
         /\ \A t \in Tasks :
              /\ Scale * base[t] \in Int
              /\ 10 * Exact[t] = 10 * (Scale * base[t]) + 3 * SumFunctionOnSet(Exact, Feeds(t))
<1>1. PICK n \in Nat : /\ n + 1 = Cardinality(Tasks) /\ Tens[n] \in Nat
                         /\ Scale = 10 * Tens[n] /\ Scale \in Nat
  BY ScaleIsTens
<1>. DEFINE ten == Tens[n]
<1>2. ten \in Nat /\ Scale = 10 * ten /\ Scale \in Nat
  BY <1>1
<1>3. \A u \in Tasks : base[u] \in Int
  BY WorthType
<1>. DEFINE ownE == [t \in Tasks |-> Scale * base[t]]
<1>. DEFINE c == [t \in Tasks |-> 10 * base[t]]
<1>4. ASSUME NEW t \in Tasks
      PROVE  Scale * base[t] \in Int /\ Scale * base[t] = ten * (10 * base[t])
  <2>1. base[t] \in Int
    BY <1>3
  <2>. HIDE DEF ten
  <2>2. (10 * ten) * base[t] = ten * (10 * base[t]) /\ (10 * ten) * base[t] \in Int
    BY <1>2, <2>1
  <2>. QED
    BY <1>2, <2>2
<1>5. ownE \in [Tasks -> Int] /\ c \in [Tasks -> Int] /\ \A t \in Tasks : ownE[t] = ten * c[t]
  BY <1>3, <1>4
<1>6. \A t \in Tasks : ownE[t] = Scale * base[t]
  OBVIOUS
<1>7. Exact = PassedOn(ownE)
  BY DEF Exact
<1>. HIDE DEF ownE, c
<1>8. ASSUME NEW t \in Tasks
      PROVE  /\ PassedOn(ownE) \in [Tasks -> Int]
             /\ 10 * PassedOn(ownE)[t] = 10 * ownE[t] + 3 * SumFunctionOnSet(PassedOn(ownE), Feeds(t))
  BY <1>1, <1>5, PassedOnEquation
<1>. QED
  BY <1>4, <1>6, <1>7, <1>8

LEMMA ToleranceEquation ==
  ASSUME TypeOK, ReachIsClosure, Tasks # {}
  PROVE  /\ Tolerance \in [Tasks -> Int]
         /\ \A t \in Tasks :
              10 * Tolerance[t] = (IF Blocks(t) = {} THEN 0 ELSE 15 * Scale)
                                    + 3 * SumFunctionOnSet(Tolerance, Feeds(t))
<1>1. PICK n \in Nat : /\ n + 1 = Cardinality(Tasks) /\ Tens[n] \in Nat
                         /\ Scale = 10 * Tens[n] /\ Scale \in Nat
  BY ScaleIsTens
<1>. DEFINE ten == Tens[n]
<1>2. ten \in Nat /\ Scale = 10 * ten /\ Scale \in Nat
  BY <1>1
<1>3. \A u \in Tasks : base[u] \in Int
  BY WorthType
<1>. DEFINE ownT == [t \in Tasks |-> IF Blocks(t) = {} THEN 0 ELSE (3 * Scale) \div 2]
<1>. DEFINE c == [t \in Tasks |-> IF Blocks(t) = {} THEN 0 ELSE 15]
<1>4. (3 * Scale) \div 2 = 15 * ten /\ 15 * ten = ten * 15 /\ ten * 0 = 0
  <2>. HIDE DEF ten
  <2>1. 3 * Scale = 2 * (15 * ten)
    BY <1>2
  <2>2. \A z \in Int : (2 * z) \div 2 = z
    OBVIOUS
  <2>3. 15 * ten \in Int
    BY <1>2
  <2>. QED
    BY <1>2, <2>1, <2>2, <2>3
<1>5. ownT \in [Tasks -> Int] /\ c \in [Tasks -> Int] /\ \A t \in Tasks : ownT[t] = ten * c[t]
  <2>. HIDE DEF ten
  <2>1. ownT = [t \in Tasks |-> IF Blocks(t) = {} THEN 0 ELSE 15 * ten]
    BY <1>4
  <2>. HIDE DEF ownT
  <2>2. 15 * ten \in Int
    BY <1>2
  <2>. QED
    BY <1>4, <2>1, <2>2
<1>6. \A t \in Tasks : 10 * ownT[t] = IF Blocks(t) = {} THEN 0 ELSE 15 * Scale
  BY <1>2, <1>4
<1>7. Tolerance = PassedOn(ownT)
  BY DEF Tolerance
<1>. HIDE DEF ownT, c
<1>8. ASSUME NEW t \in Tasks
      PROVE  /\ PassedOn(ownT) \in [Tasks -> Int]
             /\ 10 * PassedOn(ownT)[t] = 10 * ownT[t] + 3 * SumFunctionOnSet(PassedOn(ownT), Feeds(t))
  BY <1>1, <1>5, PassedOnEquation
<1>. QED
  BY <1>6, <1>7, <1>8

\* By least rank: a task whose inputs are close to the exact ones is close itself.
LEMMA ExactFromIInv ==
  ASSUME IInv
  PROVE  ScoresAreExact
<1>. SUFFICES ASSUME pc = "done", ~changed, NEW t0 \in Tasks
              PROVE  Gap(Scale * score[t0].potential, Exact[t0]) <= Tolerance[t0]
  BY DEF ScoresAreExact
<1>1. TypeOK /\ ReachIsClosure /\ \A t \in Tasks : Settled(t) /\ score[t].potential = pot[t]
  BY DEF IInv
<1>3. Scale \in Nat
  BY ScaleIsTens
<1>4. \A t \in Tasks : base[t] \in Int /\ pot[t] \in Int
  BY <1>1, WorthType
<1>5. /\ Exact \in [Tasks -> Int]
      /\ \A t \in Tasks :
           /\ Scale * base[t] \in Int
           /\ 10 * Exact[t] = 10 * (Scale * base[t]) + 3 * SumFunctionOnSet(Exact, Feeds(t))
  BY <1>1, ExactEquation
<1>6. /\ Tolerance \in [Tasks -> Int]
      /\ \A t \in Tasks :
           10 * Tolerance[t] = (IF Blocks(t) = {} THEN 0 ELSE 15 * Scale)
                                 + 3 * SumFunctionOnSet(Tolerance, Feeds(t))
  BY <1>1, ToleranceEquation
<1>. DEFINE Close(t) == Gap(Scale * pot[t], Exact[t]) <= Tolerance[t]
<1>7. ASSUME NEW t \in Tasks, \A u \in Feeds(t) : Close(u)
      PROVE  Close(t)
  <2>. DEFINE F == Feeds(t)
              potSum == SumFunctionOnSet(pot, F)
              exactSum == SumFunctionOnSet(Exact, F)
              tolSum == SumFunctionOnSet(Tolerance, F)
              scaled == [u \in Tasks |-> Scale * pot[u]]
  <2>1. F \subseteq Tasks /\ IsFiniteSet(F) /\ (Blocks(t) = {} => F = {})
    BY FeedsAreTasks
  <2>2. potSum \in Int /\ exactSum \in Int /\ tolSum \in Int
    BY <1>4, <1>5, <1>6, <2>1, SumType
  <2>3. \A u \in Tasks : scaled[u] = Scale * pot[u] /\ scaled[u] \in Int
    BY <1>3, <1>4
  <2>4. SumFunctionOnSet(scaled, F) = Scale * potSum
    <3>. HIDE DEF scaled, F
    <3>. QED
      BY <1>3, <1>4, <2>1, <2>3, SumScaled
  <2>5. Gap(SumFunctionOnSet(scaled, F), exactSum) <= tolSum
    <3>1. \A u \in F : /\ scaled[u] \in Int /\ Exact[u] \in Int /\ Tolerance[u] \in Int
                       /\ Gap(scaled[u], Exact[u]) <= Tolerance[u]
      BY <1>5, <1>6, <1>7, <2>1, <2>3
    <3>. HIDE DEF scaled, F
    <3>. QED
      BY <2>1, <3>1, SumIsClose
  <2>6. Exact[t] \in Int /\ Tolerance[t] \in Int /\ base[t] \in Int /\ pot[t] \in Int
    BY <1>4, <1>5, <1>6
  <2>7. CASE Blocks(t) = {}
    <3>1. pot[t] = base[t]
      BY <2>7 DEF IInv
    <3>2. exactSum = 0 /\ tolSum = 0
      BY <2>1, <2>7, SumEmpty
    <3>. DEFINE sb == Scale * base[t]
    <3>3. /\ sb \in Int /\ 10 * Exact[t] = 10 * sb + 3 * exactSum
          /\ 10 * Tolerance[t] = 0 + 3 * tolSum
      BY <1>5, <1>6, <2>7
    <3>4. Exact[t] = sb /\ Tolerance[t] = 0
      <4>. HIDE DEF sb, exactSum, tolSum
      <4>. QED
        BY <2>6, <3>2, <3>3
    <3>. QED
      BY <3>1, <3>3, <3>4 DEF Gap
  <2>8. CASE Blocks(t) # {}
    <3>1. Gap(10 * pot[t], 10 * base[t] + 3 * potSum) <= 15
      BY <1>1, SettledNear DEF Worth
    <3>2. /\ Scale * pot[t] \in Int /\ Scale * base[t] \in Int /\ Scale * potSum \in Int
          /\ Gap(10 * (Scale * pot[t]), 10 * (Scale * base[t]) + 3 * (Scale * potSum)) <= 15 * Scale
      <4>. HIDE DEF potSum
      <4>. QED
        BY <1>3, <2>2, <2>6, <3>1, ScaledGap
    <3>3. /\ 10 * Exact[t] = 10 * (Scale * base[t]) + 3 * exactSum
          /\ 10 * Tolerance[t] = 15 * Scale + 3 * tolSum
      BY <1>5, <1>6, <2>8
    <3>4. Gap(Scale * potSum, exactSum) <= tolSum
      BY <2>4, <2>5
    <3>. DEFINE sp == Scale * pot[t]
                sb == Scale * base[t]
                ss == Scale * potSum
    <3>. HIDE DEF sp, sb, ss, potSum, exactSum, tolSum
    <3>5. /\ sp \in Int /\ sb \in Int /\ ss \in Int
          /\ Gap(10 * sp, 10 * sb + 3 * ss) <= 15 * Scale
          /\ Gap(ss, exactSum) <= tolSum
          /\ 10 * Exact[t] = 10 * sb + 3 * exactSum
      BY <3>2, <3>3, <3>4 DEF sp, sb, ss
    <3>6. Gap(sp, Exact[t]) <= Tolerance[t]
      BY <1>3, <2>2, <2>6, <3>3, <3>5 DEF Gap
    <3>. QED
      BY <3>6 DEF sp
  <2>. QED
    BY <2>7, <2>8
<1>8. \A t \in Tasks : Close(t)
  <2>. SUFFICES ASSUME NEW t \in Tasks, ~Close(t)
                PROVE  FALSE
    OBVIOUS
  <2>. DEFINE far == { Rank(u) : u \in { v \in Tasks : ~Close(v) } }
  <2>1. far \subseteq Nat /\ far # {}
    BY <1>1, RankType
  <2>2. PICK u \in Tasks : ~Close(u) /\ \A k \in far : Rank(u) <= k
    BY <2>1, Least
  <2>3. PICK v \in Feeds(u) : ~Close(v)
    BY <1>7, <2>2
  <2>4. v \in Tasks /\ Rank(v) < Rank(u)
    BY <1>1, FeedsRankLower
  <2>5. Rank(u) <= Rank(v) /\ Rank(u) \in Nat /\ Rank(v) \in Nat
    BY <1>1, <2>2, <2>3, <2>4, RankType
  <2>. QED
    BY <2>4, <2>5
<1>. QED
  BY <1>1, <1>8

\* The scores that RecalculateAll returns are the exact sums without the edges
\* on cycles, up to what rounding and threshold add up to along the edges.
THEOREM StoredScoresAreExact == Spec => []ScoresAreExact
BY InvariantHolds, ExactFromIInv, PTL

\* The same without a word about how the loop has ended: unless a task reaches as
\* many others as there are rounds, every order of the map gives exact scores.
THEOREM ShallowScoresAreExact ==
  Spec => [](pc = "done" /\ (\A t \in Tasks : Cardinality(reach[t]) < MaxRounds) =>
               \A t \in Tasks : Gap(Scale * score[t].potential, Exact[t]) <= Tolerance[t])
<1>1. ASSUME IInv, pc = "done", \A t \in Tasks : Cardinality(reach[t]) < MaxRounds
      PROVE  \A t \in Tasks : Gap(Scale * score[t].potential, Exact[t]) <= Tolerance[t]
  BY <1>1, StopsFromIInv, ExactFromIInv DEF StopsByItself, ScoresAreExact
<1>. QED
  BY <1>1, InvariantHolds, PTL

\* The reference is what it is meant to be: the integer divisions of PassedOn
\* leave no remainder, so Exact solves the equations of the scores as they are.
THEOREM ReferenceIsExact ==
  Spec => [](\A t \in Tasks :
               10 * Exact[t] = 10 * (Scale * base[t]) + 3 * SumFunctionOnSet(Exact, Feeds(t)))
<1>1. ASSUME IInv, NEW t \in Tasks
      PROVE  10 * Exact[t] = 10 * (Scale * base[t]) + 3 * SumFunctionOnSet(Exact, Feeds(t))
  BY <1>1, ExactEquation DEF IInv
<1>2. IInv => \A t \in Tasks :
               10 * Exact[t] = 10 * (Scale * base[t]) + 3 * SumFunctionOnSet(Exact, Feeds(t))
  BY <1>1
<1>. QED
  BY <1>2, InvariantHolds, PTL

-----------------------------------------------------------------------------
(* NextRanking. *)

Entries(mine, ranks) == { [ id |-> t, rank |-> ranks[t] ] : t \in Eligible(mine) }

PlanType == plan \in [All -> SUBSET Fields]

LEMMA AllIsFinite == IsFiniteSet(All)
<1>1. IsFiniteSet(Tasks \cup DOMAIN Past)
  BY ScoringAssumption, RankingAssumption, FS_Union
<1>. QED
  BY <1>1, RankingAssumption, FS_Union DEF All

LEMMA ValueType ==
  ASSUME TypeOK, PlanType, NEW t \in All
  PROVE  Value(t) \in Int
<1>1. SumFunctionOnSet(Weight, plan[t]) \in Int
  <2>1. plan[t] \subseteq { "task_plan", "done_when", "spec", "refs" }
    BY DEF PlanType, Fields
  <2>2. IsFiniteSet({ "task_plan", "done_when", "spec", "refs" })
    <3>1. IsFiniteSet({ "task_plan" } \cup { "done_when" } \cup { "spec" } \cup { "refs" })
      BY FS_Singleton, FS_Union
    <3>2. { "task_plan" } \cup { "done_when" } \cup { "spec" } \cup { "refs" }
            = { "task_plan", "done_when", "spec", "refs" }
      OBVIOUS
    <3>. QED
      BY <3>1, <3>2
  <2>3. IsFiniteSet(plan[t])
    BY <2>1, <2>2, FS_Subset
  <2>4. \A p \in plan[t] : Weight[p] \in Int
    BY <2>1 DEF Weight
  <2>. QED
    BY <2>3, <2>4, SumType
<1>2. StatusWeight(status[t]) \in Int
  BY DEF StatusWeight
<1>3. Cardinality({ u \in All : t \in waits[u] }) \in Int
  <2>1. IsFiniteSet({ u \in All : t \in waits[u] })
    BY AllIsFinite, FS_Subset
  <2>. QED
    BY <2>1, FS_CardinalityType
<1>4. computeReadiness(t) \in Int
  BY <1>1, <1>2 DEF computeReadiness, Smaller
<1>5. Readiness(t) \in Int
  BY <1>3, <1>4 DEF Readiness, Smaller
<1>6. Effective(t) \in Int
  BY RankingAssumption DEF TypeOK, Effective
<1>. QED
  BY <1>5, <1>6 DEF Value

\* What round1 makes of a number of hundredths: never more than half a tenth too
\* little, and more than half a tenth too much only where that number is negative.
LEMMA Round1IsNear ==
  ASSUME NEW n \in Int, NEW v \in round1(n)
  PROVE  v \in Int /\ n - 5 <= 10 * v /\ 10 * v <= n + (IF n < 0 THEN 15 ELSE 5)
<1>1. CASE n > -5
  <2>1. v \in Rounded(n)
    BY <1>1 DEF round1
  <2>2. v \in Int /\ Gap(10 * v, n) <= 5
    BY <2>1, RoundedIsNear
  <2>. QED
    BY <2>2 DEF Gap
<1>2. CASE ~(n > -5)
  <2>. DEFINE q == (n + 5) \div 10
              r == (n + 5) % 10
  <2>1. q \in Int /\ r \in 0 .. 9 /\ n + 5 = 10 * q + r
    OBVIOUS
  <2>2. v \in { q, q + 1 } /\ (v = q + 1 \/ r = 0)
    BY <1>2 DEF round1
  <2>. HIDE DEF q, r
  <2>. QED
    BY <1>2, <2>1, <2>2
<1>. QED
  BY <1>1, <1>2

\* SetToSeqs orders all elements of a set.
LEMMA ListsEverything ==
  ASSUME NEW S, IsFiniteSet(S), NEW q \in SetToSeqs(S)
  PROVE  /\ Cardinality(S) \in Nat /\ q \in [1 .. Cardinality(S) -> S]
         /\ q \in Seq(S) /\ Len(q) = Cardinality(S)
         /\ \A i, j \in 1 .. Cardinality(S) : i # j => q[i] # q[j]
         /\ \A x \in S : \E i \in 1 .. Cardinality(S) : q[i] = x
<1>. DEFINE n == Cardinality(S)
<1>1. n \in Nat
  BY FS_CardinalityType
<1>2. q \in [1 .. n -> S] /\ \A i, j \in 1 .. n : i # j => q[i] # q[j]
  BY DEF SetToSeqs
<1>. HIDE DEF n
<1>3. q \in Seq(S) /\ Len(q) = n
  BY <1>1, <1>2
<1>4. q \in Injection(1 .. n, S)
  BY <1>2 DEF Injection, IsInjective
<1>5. IsFiniteSet(1 .. n) /\ Cardinality(1 .. n) = n
  BY <1>1, FS_Interval
<1>6. q \in Surjection(1 .. n, S)
  BY <1>4, <1>5, FS_Injection DEF n
<1>7. \A x \in S : \E i \in 1 .. n : q[i] = x
  BY <1>6 DEF Surjection
<1>. QED
  BY <1>1, <1>2, <1>3, <1>7 DEF n

Ids(shown) == { shown[i].id : i \in DOMAIN shown }

\* What computeNextForAgent picks, for any ranks near the values.
Answer(mine, limit, ranks, q, shown) ==
  /\ mine \in Owned /\ limit \in Limits
  /\ \A t \in Eligible(mine) : ranks[t] \in round1(Value(t))
  /\ q \in SetToSeqs(Entries(mine, ranks))
  /\ \A i, j \in 1 .. Len(q) : i < j => q[i].rank >= q[j].rank
  /\ shown = SubSeq(q, 1, Smaller(limit, Len(q)))

\* How much more than a task shown with value v one that is cut off may be worth.
Slack(v) == IF v < 0 THEN 20 ELSE 10

\* What is cut off ranks behind what is shown.
LEMMA AnswerIsSorted ==
  ASSUME TypeOK, PlanType, NEW mine, NEW limit, NEW ranks, NEW q, NEW shown,
         Answer(mine, limit, ranks, q, shown)
  PROVE  /\ Ids(shown) \subseteq Eligible(mine)
         /\ Cardinality(Ids(shown)) = Len(shown)
         /\ \A t \in Eligible(mine) \ Ids(shown) :
              /\ Len(shown) = limit
              /\ \A u \in Ids(shown) : Value(t) <= Value(u) + Slack(Value(u))
<1>. DEFINE E == Eligible(mine)
            S == Entries(mine, ranks)
            n == Cardinality(S)
            k == Smaller(limit, n)
            ids == Ids(shown)
<1>1. E \subseteq All /\ limit \in Nat \ {0}
  BY RankingAssumption DEF Answer, Eligible
<1>2. IsFiniteSet(E)
  BY <1>1, AllIsFinite, FS_Subset
<1>3. IsFiniteSet(S)
  <2>. DEFINE entry == [t \in E |-> [ id |-> t, rank |-> ranks[t] ]]
  <2>1. entry \in Surjection(E, S)
    BY DEF Surjection, Entries
  <2>. QED
    BY <1>2, <2>1, FS_Surjection
<1>4. /\ n \in Nat /\ q \in [1 .. n -> S] /\ q \in Seq(S) /\ Len(q) = n
      /\ \A i, j \in 1 .. n : i # j => q[i] # q[j]
      /\ \A x \in S : \E i \in 1 .. n : q[i] = x
  BY <1>3, ListsEverything DEF Answer
<1>. HIDE DEF n
<1>5. \A i \in 1 .. n : q[i].id \in E /\ q[i] = [ id |-> q[i].id, rank |-> ranks[q[i].id] ]
  BY <1>4 DEF Entries
<1>. HIDE DEF S, E
<1>6. k \in Nat /\ k <= n /\ k <= limit /\ (k = limit \/ k = n)
  BY <1>1, <1>4 DEF Smaller
<1>. HIDE DEF k
<1>7. shown = SubSeq(q, 1, k)
  BY <1>4 DEF Answer, k
<1>8. Len(shown) = k /\ DOMAIN shown = 1 .. k /\ \A i \in 1 .. k : shown[i] = q[i]
  BY <1>4, <1>6, <1>7
<1>9. ids = { q[i].id : i \in 1 .. k }
  BY <1>8 DEF Ids
<1>. HIDE DEF ids
<1>10. ids \subseteq E
  <2>1. ASSUME NEW i \in 1 .. k
        PROVE  q[i].id \in E
    <3>1. i \in 1 .. n
      BY <1>4, <1>6
    <3>. QED
      BY <1>5, <3>1
  <2>. QED
    BY <1>9, <2>1
<1>11. Cardinality(ids) = k
  <2>. DEFINE f == [i \in 1 .. k |-> q[i].id]
  <2>1. ASSUME NEW i \in 1 .. k, NEW j \in 1 .. k, q[i].id = q[j].id
        PROVE  i = j
    <3>1. i \in 1 .. n /\ j \in 1 .. n
      BY <1>4, <1>6
    <3>2. q[i] = q[j]
      BY <1>5, <2>1, <3>1
    <3>. QED
      BY <1>4, <3>1, <3>2
  <2>2. f \in Bijection(1 .. k, ids)
    <3>1. f \in [1 .. k -> ids]
      BY <1>9
    <3>2. \A i, j \in 1 .. k : f[i] = f[j] => i = j
      BY <2>1
    <3>3. \A x \in ids : \E i \in 1 .. k : f[i] = x
      BY <1>9
    <3>. HIDE DEF f
    <3>. QED
      BY <3>1, <3>2, <3>3 DEF Bijection, Injection, Surjection, IsInjective
  <2>3. ExistsBijection(1 .. k, ids)
    BY <2>2 DEF ExistsBijection
  <2>. QED
    BY <1>6, <2>3, FS_CountingElements
<1>12. ASSUME NEW t \in E, t \notin ids
       PROVE  Len(shown) = limit /\ \A u \in ids : Value(t) <= Value(u) + Slack(Value(u))
  <2>1. [ id |-> t, rank |-> ranks[t] ] \in S
    BY DEF S, E, Entries
  <2>2. PICK j \in 1 .. n : q[j] = [ id |-> t, rank |-> ranks[t] ]
    BY <1>4, <2>1
  <2>3. q[j].id = t /\ q[j].rank = ranks[t]
    BY <2>2
  <2>4. ~(j <= k)
    BY <1>9, <1>12, <2>3
  <2>5. k < n /\ k = limit
    BY <1>4, <1>6, <2>4
  <2>6. ASSUME NEW u \in ids
        PROVE  Value(t) <= Value(u) + Slack(Value(u))
    <3>1. PICK i \in 1 .. k : q[i].id = u
      BY <1>9
    <3>2. i \in 1 .. n /\ i < j
      BY <1>4, <1>6, <2>4, <3>1
    <3>3. q[i].rank >= q[j].rank
      BY <1>4, <3>2 DEF Answer
    <3>4. q[i].rank = ranks[u] /\ u \in E
      <4>1. q[i].id \in E /\ q[i] = [ id |-> q[i].id, rank |-> ranks[q[i].id] ]
        BY <1>5, <3>2
      <4>2. q[i] = [ id |-> u, rank |-> ranks[u] ]
        BY <3>1, <4>1
      <4>. QED
        BY <3>1, <4>1, <4>2
    <3>5. ranks[u] \in round1(Value(u)) /\ ranks[t] \in round1(Value(t))
      BY <3>4 DEF Answer, E
    <3>6. Value(u) \in Int /\ Value(t) \in Int
      BY <1>1, <3>4, ValueType DEF E
    <3>7. /\ ranks[u] \in Int
          /\ 10 * ranks[u] <= Value(u) + (IF Value(u) < 0 THEN 15 ELSE 5)
          /\ ranks[t] \in Int /\ Value(t) - 5 <= 10 * ranks[t]
      BY <3>5, <3>6, Round1IsNear
    <3>8. ranks[u] >= ranks[t]
      BY <2>3, <3>3, <3>4
    <3>. QED
      BY <3>6, <3>7, <3>8 DEF Slack
  <2>. QED
    BY <1>8, <2>5, <2>6
<1>. QED
  BY <1>8, <1>10, <1>11, <1>12 DEF ids, E

RankIInv ==
  /\ IInv /\ PlanType
  /\ next = NotAsked \/ (pc = "done" /\ NobodyForgotten)

LEMMA NextIsOver ==
  ASSUME pc = "done"
  PROVE  ~Next
BY DEF Next, Visit, NextRound, Results

LEMMA AskStep ==
  ASSUME IInv, PlanType, NEW mine \in Owned, NEW limit \in Limits,
         computeNextForAgent(mine, limit)
  PROVE  RankIInv'
<1>1. pc = "done" /\ UNCHANGED << vars, status, waits, plan >>
  BY DEF computeNextForAgent
<1>2. UNCHANGED << blockedBy, base, reach, pot, left, round, changed, fed, pc, score,
                   status, waits, plan >>
  BY <1>1 DEF vars
<1>3. IInv' /\ PlanType'
  BY <1>1, <1>2, StutterStep DEF PlanType
<1>4. PICK ranks, shown :
        /\ \A t \in Eligible(mine) : ranks[t] \in round1(Value(t))
        /\ shown \in SortedAndCut(Entries(mine, ranks), limit)
        /\ next' = [ asked |-> TRUE, mine |-> mine, limit |-> limit, candidates |-> shown,
                     blocked |-> { t \in mine : status[t] \in Active /\ ActiveBlockers(t) # {} } ]
  BY DEF computeNextForAgent, Entries
<1>5. PICK q : Answer(mine, limit, ranks, q, shown)
  BY <1>4 DEF SortedAndCut, Answer
<1>. DEFINE ids == Ids(shown)
            blocked == { t \in mine : status[t] \in Active /\ ActiveBlockers(t) # {} }
<1>6. /\ ids \subseteq Eligible(mine) /\ Cardinality(ids) = Len(shown)
      /\ \A t \in Eligible(mine) \ ids :
           /\ Len(shown) = limit
           /\ \A u \in ids : Value(t) <= Value(u) + Slack(Value(u))
  <2>1. TypeOK
    BY DEF IInv
  <2>. QED
    BY <1>5, <2>1, AnswerIsSorted
<1>7. /\ next'.candidates = shown /\ next'.mine = mine /\ next'.limit = limit
      /\ next'.blocked = blocked /\ Shown' = ids
  BY <1>4 DEF Shown, Ids
<1>8. \A t : Value(t)' = Value(t)
  BY <1>2 DEF Value, Effective, Readiness, computeReadiness
<1>9. NobodyForgotten'
  <2>1. ids \cap blocked = {} /\ ids \cup blocked \subseteq mine
    BY <1>6 DEF Eligible
  <2>2. ASSUME NEW t \in mine \ (ids \cup blocked), status[t] \in Active
        PROVE  Len(shown) = limit /\ \A u \in ids : Value(t) <= Value(u) + Slack(Value(u))
    <3>1. t \in Eligible(mine) \ ids
      BY <2>2 DEF Eligible
    <3>. QED
      BY <1>6, <3>1
  <2>3. \A t \in mine \ (ids \cup blocked) :
          status'[t] \in Active =>
            /\ Len(shown) = limit
            /\ \A u \in ids : Value(t)' <= Value(u)' + (IF Value(u)' < 0 THEN 20 ELSE 10)
    BY <1>2, <1>8, <2>2 DEF Slack
  <2>. HIDE DEF ids, blocked
  <2>. QED
    BY <1>6, <1>7, <2>1, <2>3 DEF NobodyForgotten
<1>. QED
  BY <1>1, <1>2, <1>3, <1>9 DEF RankIInv

\* A command that does not rescore leaves the scores alone and asks nothing.
LEMMA CommandStep ==
  ASSUME RankIInv, Command, PlanType'
  PROVE  RankIInv'
<1>1. IInv'
  BY StutterStep DEF Command, RankIInv
<1>2. next' = NotAsked
  BY DEF Command
<1>. QED
  BY <1>1, <1>2 DEF RankIInv, NotAsked

LEMMA RankStep ==
  ASSUME RankIInv, [RankNext]_rankVars
  PROVE  RankIInv'
<1>1. CASE Next /\ UNCHANGED << status, waits, plan, moves, next >>
  <2>1. IInv'
    BY <1>1, NextIInv DEF RankIInv
  <2>2. next = NotAsked
    BY <1>1, NextIsOver DEF RankIInv
  <2>3. PlanType'
    BY <1>1 DEF RankIInv, PlanType
  <2>. QED
    BY <1>1, <2>1, <2>2, <2>3 DEF RankIInv, NotAsked
<1>2. ASSUME NEW t \in All, Move(t)
      PROVE  RankIInv'
  <2>1. Command /\ PlanType'
    BY <1>2 DEF Move, RankIInv, PlanType
  <2>. QED
    BY <2>1, CommandStep
<1>3. ASSUME NEW t \in All, Edit(t)
      PROVE  RankIInv'
  <2>1. Command
    BY <1>3 DEF Edit
  <2>2. PICK f \in { "task_plan", "spec" } :
          plan' = [plan EXCEPT ![t] = IF f \in @ THEN @ \ {f} ELSE @ \cup {f}]
    BY <1>3 DEF Edit
  <2>3. PlanType'
    BY <2>2 DEF RankIInv, PlanType, Fields
  <2>. QED
    BY <2>1, <2>3, CommandStep
<1>4. ASSUME NEW t \in All, CreateTask(t)
      PROVE  RankIInv'
  <2>1. Command
    BY <1>4 DEF CreateTask
  <2>2. PICK fields \in SUBSET { "refs" } : plan' = [plan EXCEPT ![t] = fields]
    BY <1>4 DEF CreateTask
  <2>3. PlanType'
    BY <2>2 DEF RankIInv, PlanType, Fields
  <2>. QED
    BY <2>1, <2>3, CommandStep
<1>5. ASSUME NEW a \in All, NEW b \in All, MergeTasks(a, b)
      PROVE  RankIInv'
  <2>1. Command /\ plan' = [plan EXCEPT ![a] = @ \cup (plan[b] \cap { "done_when", "refs" })]
    BY <1>5 DEF MergeTasks
  <2>2. PlanType'
    BY <2>1 DEF RankIInv, PlanType, Fields
  <2>. QED
    BY <2>1, <2>2, CommandStep
<1>6. ASSUME NEW mine \in Owned, NEW limit \in Limits, computeNextForAgent(mine, limit)
      PROVE  RankIInv'
  BY <1>6, AskStep DEF RankIInv
<1>7. CASE UNCHANGED rankVars
  <2>1. UNCHANGED << vars, status, waits, plan, next >>
    BY <1>7 DEF rankVars
  <2>2. UNCHANGED << blockedBy, score, pc >>
    BY <2>1 DEF vars
  <2>3. IInv' /\ PlanType'
    BY <2>1, StutterStep DEF RankIInv, PlanType
  <2>4. \A t : Value(t)' = Value(t)
    BY <2>1, <2>2 DEF Value, Effective, Readiness, computeReadiness
  <2>5. NobodyForgotten => NobodyForgotten'
    BY <2>1, <2>4 DEF NobodyForgotten, Shown
  <2>. QED
    BY <2>1, <2>2, <2>3, <2>5 DEF RankIInv, NotAsked
<1>. QED
  BY <1>1, <1>2, <1>3, <1>4, <1>5, <1>6, <1>7 DEF RankNext

\* Scores, the commands after the rescoring and requests of /next/{agent}: the
\* inductive invariant of the scores and of the answer holds in every state.
THEOREM RankInvariantHolds == RankSpec => []RankIInv
<1>1. RankInit => RankIInv
  BY InitIInv, RankingAssumption DEF RankInit, RankIInv, PlanType, Fields
<1>. QED
  BY <1>1, RankStep, PTL DEF RankSpec

LEMMA AnswerFromRankIInv ==
  ASSUME RankIInv
  PROVE  NobodyForgotten
<1>1. CASE next = NotAsked
  <2>1. ~next.asked
    BY <1>1 DEF NotAsked
  <2>. QED
    BY <2>1 DEF NobodyForgotten
<1>. QED
  BY <1>1 DEF RankIInv

\* The answer of computeNextForAgent, whatever commands have come since the scores
\* were stored: what is neither shown nor listed as blocked is cut off by the limit
\* behind tasks that are worth as much up to the rounding.
THEOREM NobodyIsForgotten == RankSpec => []NobodyForgotten
BY RankInvariantHolds, AnswerFromRankIInv, PTL

\* Commands and requests leave the stored scores alone: the system with them
\* implements the scoring alone, so that whatever is proved of that holds of it too.
THEOREM RankingImplementsScoring == RankSpec => Spec
<1>1. RankInit => Init
  BY DEF RankInit
<1>2. [RankNext]_rankVars => [Next]_vars
  BY DEF RankNext, rankVars, Command, Move, Edit, CreateTask, MergeTasks,
         computeNextForAgent
<1>. QED
  BY <1>1, <1>2, PTL DEF RankSpec, Spec
=============================================================================
