--------------------------- MODULE DataInduction ---------------------------
(***************************************************************************)
(* Induction for the proofs about data.  The induction theorems of the     *)
(* library take a predicate as a parameter; here the same is said of sets: *)
(* a set of numbers has a least element, so that a set that contains 0 and *)
(* every successor contains all.  A recursive function is what satisfies   *)
(* its equation: the lemmas about MapThenSumSet give a solution, and show  *)
(* that there is no other.                                                 *)
(***************************************************************************)
EXTENDS Integers, FiniteSetsExt, FiniteSetTheorems, WellFoundedInduction, TLAPS

LEMMA Least ==
    ASSUME NEW S \in SUBSET Nat, S # {}
    PROVE  \E n \in S : \A k \in S : n <= k
  <1> DEFINE R == OpToRel(<, Nat)
  <1>1. IsWellFoundedOn(R, Nat)
    BY NatLessThanWellFounded
  <1>2. \A i, j \in Nat : <<i, j>> \in R <=> i < j
    BY DEF OpToRel
  <1> HIDE DEF R
  <1>3. PICK n \in S : \A k \in S : ~ (<<k, n>> \in R)
    BY <1>1, WFMin
  <1>4. ASSUME NEW k \in S
        PROVE  n <= k
    <2>1. ~ (<<k, n>> \in R) /\ n \in Nat /\ k \in Nat
      BY <1>3
    <2>2. ~ (k < n)
      BY <1>2, <2>1
    <2> QED
      BY <2>1, <2>2
  <1> QED
    BY <1>4

LEMMA Inductive ==
    ASSUME NEW S \in SUBSET Nat, 0 \in S, \A n \in S : n + 1 \in S
    PROVE  \A n \in Nat : n \in S
  <1> DEFINE T == Nat \ S
  <1> SUFFICES ASSUME T # {}
               PROVE  FALSE
    OBVIOUS
  <1>1. PICK n \in T : \A k \in T : n <= k
    BY Least
  <1>2. n # 0 /\ n - 1 \in Nat /\ n - 1 \notin T
    BY <1>1
  <1>3. n - 1 \in S /\ (n - 1) + 1 = n
    BY <1>1, <1>2
  <1> QED
    BY <1>1, <1>3

(* Two functions that begin alike and go on alike. *)
Alike(f, h, n) == \A k \in 1..n : (k = 1 \/ f[k - 1] = h[k - 1]) => f[k] = h[k]

LEMMA StepByStep ==
    ASSUME NEW n \in Nat, NEW f, NEW h, Alike(f, h, n)
    PROVE  \A k \in 1..n : f[k] = h[k]
  <1> DEFINE N == {i \in Nat : i \in 1..n => f[i] = h[i]}
  <1>1. 0 \in N
    OBVIOUS
  <1>2. ASSUME NEW i \in N
        PROVE  i + 1 \in N
    <2> SUFFICES ASSUME i + 1 \in 1..n
                 PROVE  f[i + 1] = h[i + 1]
      OBVIOUS
    <2>1. i + 1 = 1 \/ (i \in 1..n /\ (i + 1) - 1 = i)
      OBVIOUS
    <2> QED
      BY <2>1 DEF Alike
  <1> HIDE DEF N
  <1>3. \A i \in Nat : i \in N
    BY <1>1, <1>2, Inductive DEF N
  <1> QED
    BY <1>3 DEF N

-----------------------------------------------------------------------------
(* The sum of g over s: the elements of boxes as high as g says. *)
Box(g, x) == {x} \X (1..g[x])
Boxes(g, s) == UNION {Box(g, x) : x \in s}
Total(g, s) == Cardinality(Boxes(g, s))

LEMMA BoxFacts ==
    ASSUME NEW g, NEW x, g[x] \in Nat
    PROVE  IsFiniteSet(Box(g, x)) /\ Cardinality(Box(g, x)) = g[x]
  <1>1. g[x] \in Nat
    OBVIOUS
  <1>2. IsFiniteSet(1..g[x]) /\ Cardinality(1..g[x]) = g[x]
    <2> DEFINE n == g[x]
    <2>1. n \in Int /\ 1 \in Int /\ n >= 0
      BY <1>1
    <2> HIDE DEF n
    <2> DEFINE size == Cardinality(1..n)
    <2>2. IsFiniteSet(1..n) /\ size = IF 1 > n THEN 0 ELSE n - 1 + 1
      BY <2>1, FS_Interval, Zenon
    <2> HIDE DEF size
    <2>3. size = n
      BY <2>1, <2>2
    <2> QED
      BY <2>2, <2>3, Zenon DEF n, size
  <1>3. IsFiniteSet({x}) /\ Cardinality({x}) = 1
    BY FS_Singleton
  <1>4. /\ IsFiniteSet({x} \X (1..g[x]))
        /\ Cardinality({x} \X (1..g[x])) = Cardinality({x}) * Cardinality(1..g[x])
    BY <1>2, <1>3, FS_Product, Zenon
  <1> QED
    BY <1>1, <1>2, <1>3, <1>4 DEF Box

(* One element more. *)
LEMMA TotalAdds ==
    ASSUME NEW S, IsFiniteSet(S), NEW g, \A x \in S : g[x] \in Nat
    PROVE  /\ Total(g, {}) = 0
           /\ \A s \in SUBSET S : Total(g, s) \in Nat
           /\ \A s \in SUBSET S, x \in S : x \notin s => Total(g, s \cup {x}) = Total(g, s) + g[x]
  <1>1. Total(g, {}) = 0
    <2>1. Boxes(g, {}) = {}
      BY DEF Boxes
    <2> QED
      BY <2>1, FS_EmptySet DEF Total
  <1>2. ASSUME NEW s \in SUBSET S
        PROVE  IsFiniteSet(Boxes(g, s))
    <2>1. IsFiniteSet(s)
      BY FS_Subset
    <2> DEFINE T == {Box(g, x) : x \in s}
               f == [x \in s |-> Box(g, x)]
    <2>4. f \in Surjection(s, T)
      BY DEF Surjection
    <2> HIDE DEF f, T
    <2>2. IsFiniteSet(T)
      BY <2>1, <2>4, FS_Surjection
    <2> USE DEF T
    <2>3. \A b \in {Box(g, x) : x \in s} : IsFiniteSet(b)
      BY BoxFacts
    <2> QED
      BY <2>2, <2>3, FS_UNION DEF Boxes
  <1>3. ASSUME NEW s \in SUBSET S, NEW x \in S, x \notin s
        PROVE  Total(g, s \cup {x}) = Total(g, s) + g[x]
    <2>1. Boxes(g, s \cup {x}) = Boxes(g, s) \cup Box(g, x)
      BY DEF Boxes
    <2>2. Boxes(g, s) \cap Box(g, x) = {}
      BY <1>3 DEF Boxes, Box
    <2>3. IsFiniteSet(Box(g, x)) /\ Cardinality(Box(g, x)) = g[x]
      BY BoxFacts
    <2> DEFINE A == Boxes(g, s)
               B == Box(g, x)
    <2>4. IsFiniteSet(A) /\ IsFiniteSet(B) /\ A \cap B = {}
      BY <1>2, <2>2, <2>3
    <2> HIDE DEF A, B
    <2>5. /\ Cardinality(A \cup B) = Cardinality(A) + Cardinality(B) - Cardinality(A \cap B)
          /\ Cardinality(A \cap B) = 0 /\ Cardinality(A) \in Nat /\ Cardinality(B) \in Nat
      BY <2>4, FS_Union, FS_EmptySet, FS_CardinalityType
    <2>6. Cardinality(A \cup B) = Cardinality(A) + Cardinality(B)
      BY <2>5
    <2> QED
      BY <2>1, <2>3, <2>6 DEF A, B, Total
  <1>4. \A s \in SUBSET S : Total(g, s) \in Nat
    BY <1>2, FS_CardinalityType DEF Total
  <1> QED
    BY <1>1, <1>3, <1>4

(* What MapThenSumSet computes on the way to the sum over S: it adds up the *)
(* elements in any order.                                                   *)
AnyOf(s) == CHOOSE x \in s : TRUE
AddsUp(F, g, S) ==
    F = [s \in SUBSET S |-> IF s = {} THEN 0 ELSE g[AnyOf(s)] + F[s \ {AnyOf(s)}]]

LEMMA OneByOne ==
    ASSUME NEW S, IsFiniteSet(S), NEW g, \A x \in S : g[x] \in Nat, NEW s \in SUBSET S, s # {}
    PROVE  /\ AnyOf(s) \in s /\ s \ {AnyOf(s)} \in SUBSET S
           /\ Total(g, s) = g[AnyOf(s)] + Total(g, s \ {AnyOf(s)})
  <1> DEFINE x == AnyOf(s)
             r == s \ {x}
  <1>1. x \in s
    BY DEF AnyOf
  <1> HIDE DEF x
  <1>2. r \in SUBSET S /\ x \in S /\ x \notin r /\ r \cup {x} = s
    BY <1>1
  <1> HIDE DEF r
  <1>3. Total(g, r \cup {x}) = Total(g, r) + g[x] /\ Total(g, r) \in Nat
    BY <1>2, TotalAdds
  <1>4. g[x] \in Nat
    BY <1>2
  <1>5. Total(g, s) = g[x] + Total(g, r)
    <2>1. Total(g, s) = Total(g, r) + g[x]
      BY <1>2, <1>3, Zenon
    <2> QED
      BY <1>3, <1>4, <2>1
  <1> QED
    BY <1>1, <1>2, <1>5 DEF x, r

LEMMA TotalExists ==
    ASSUME NEW S, IsFiniteSet(S), NEW g, \A x \in S : g[x] \in Nat
    PROVE  \E F : AddsUp(F, g, S)
  <1> DEFINE F == [s \in SUBSET S |-> Total(g, s)]
  <1>1. ASSUME NEW s \in SUBSET S
        PROVE  F[s] = IF s = {} THEN 0 ELSE g[AnyOf(s)] + F[s \ {AnyOf(s)}]
    <2>1. CASE s = {}
      <3>1. Total(g, {}) = 0
        BY TotalAdds
      <3> QED
        BY <2>1, <3>1
    <2>2. CASE s # {}
      <3>1. s \ {AnyOf(s)} \in SUBSET S /\ Total(g, s) = g[AnyOf(s)] + Total(g, s \ {AnyOf(s)})
        BY <2>2, OneByOne
      <3> QED
        BY <2>2, <3>1
    <2> QED
      BY <2>1, <2>2
  <1>2. DOMAIN F = SUBSET S /\ F = [s \in SUBSET S |-> F[s]]
    OBVIOUS
  <1> HIDE DEF F
  <1>3. AddsUp(F, g, S)
    BY <1>1, <1>2 DEF AddsUp
  <1> QED
    BY <1>3

LEMMA TotalUnique ==
    ASSUME NEW S, IsFiniteSet(S), NEW g, \A x \in S : g[x] \in Nat, NEW F, AddsUp(F, g, S)
    PROVE  F[S] = Total(g, S)
  <1> DEFINE N == {n \in Nat : \A s \in SUBSET S : Cardinality(s) = n => F[s] = Total(g, s)}
  <1>1. \A s \in SUBSET S : IsFiniteSet(s) /\ Cardinality(s) \in Nat
    BY FS_Subset, FS_CardinalityType
  <1>2. \A s \in SUBSET S : F[s] = IF s = {} THEN 0 ELSE g[AnyOf(s)] + F[s \ {AnyOf(s)}]
    BY DEF AddsUp
  <1>3. \A s \in SUBSET S : s # {} =>
          /\ AnyOf(s) \in s /\ s \ {AnyOf(s)} \in SUBSET S
          /\ Total(g, s) = g[AnyOf(s)] + Total(g, s \ {AnyOf(s)})
    BY OneByOne
  <1>4. 0 \in N
    <2> SUFFICES ASSUME NEW s \in SUBSET S, Cardinality(s) = 0
                 PROVE  F[s] = Total(g, s)
      OBVIOUS
    <2>1. s = {}
      BY <1>1, FS_EmptySet
    <2> QED
      BY <1>2, <2>1, TotalAdds
  <1>5. ASSUME NEW n \in N
        PROVE  n + 1 \in N
    <2> SUFFICES ASSUME NEW s \in SUBSET S, Cardinality(s) = n + 1
                 PROVE  F[s] = Total(g, s)
      OBVIOUS
    <2>1. s # {}
      BY FS_EmptySet
    <2>2. /\ AnyOf(s) \in s /\ s \ {AnyOf(s)} \in SUBSET S
          /\ Total(g, s) = g[AnyOf(s)] + Total(g, s \ {AnyOf(s)})
      BY <1>3, <2>1
    <2>3. Cardinality(s \ {AnyOf(s)}) = n
      <3>1. IsFiniteSet(s)
        BY <1>1
      <3>2. Cardinality(s \ {AnyOf(s)}) = Cardinality(s) - 1
        BY <2>2, <3>1, FS_RemoveElement
      <3> QED
        BY <3>2
    <2>4. F[s \ {AnyOf(s)}] = Total(g, s \ {AnyOf(s)})
      BY <2>2, <2>3
    <2> QED
      BY <1>2, <2>1, <2>2, <2>4
  <1> HIDE DEF N
  <1>6. \A n \in Nat : n \in N
    BY <1>4, <1>5, Inductive DEF N
  <1>7. Cardinality(S) \in N
    BY <1>1, <1>6
  <1> QED
    BY <1>7 DEF N

(* The function that MapThenSumSet evaluates, of a g given in any way.      *)
LEMMA TotalOf ==
    ASSUME NEW S, IsFiniteSet(S), NEW g, \A x \in S : g[x] \in Nat
    PROVE  MapThenSumSet(LAMBDA x : g[x], S) = Total(g, S)
  <1>1. MapThenSumSet(LAMBDA x : g[x], S) = (CHOOSE F : AddsUp(F, g, S))[S]
    BY DEF MapThenSumSet, MapThenFoldSet, AddsUp, AnyOf
  <1>2. AddsUp(CHOOSE F : AddsUp(F, g, S), g, S)
    BY TotalExists
  <1> QED
    BY <1>1, <1>2, TotalUnique

-----------------------------------------------------------------------------
(* A fold over the subsets of a finite set: step by step, each adding the   *)
(* element that is picked, there is a function that satisfies the equation. *)
Folds(F, S, base, pick, step) ==
    \A s \in SUBSET S : F[s] = IF s = {} THEN base
                               ELSE step[<<pick[s], F[s \ {pick[s]}]>>]

(* What is picked is in the set. *)
Picks(pick, S) == \A s \in SUBSET S : s # {} => pick[s] \in s

LEMMA FoldExists ==
    ASSUME NEW S, IsFiniteSet(S), NEW V, NEW base \in V, NEW pick, Picks(pick, S),
           NEW step \in [S \X V -> V]
    PROVE  \E F \in [SUBSET S -> V] : Folds(F, S, base, pick, step)
  <1> DEFINE Small(n) == {s \in SUBSET S : Cardinality(s) <= n}
             Before(s) == s \ {pick[s]}
             Good(F, n) == /\ F \in [Small(n) -> V]
                           /\ \A s \in Small(n) :
                                F[s] = IF s = {} THEN base ELSE step[<<pick[s], F[Before(s)]>>]
             N == {n \in Nat : \E F : Good(F, n)}
  <1>1. ASSUME NEW s \in SUBSET S
        PROVE  /\ IsFiniteSet(s) /\ Cardinality(s) \in Nat
               /\ Cardinality(s) = 0 <=> s = {}
               /\ Cardinality(s) <= Cardinality(S)
               /\ s # {} => /\ pick[s] \in S /\ Before(s) \in SUBSET S
                            /\ Cardinality(Before(s)) = Cardinality(s) - 1
    BY FS_Subset, FS_CardinalityType, FS_EmptySet, FS_RemoveElement DEF Picks
  <1> HIDE DEF Before
  <1>2. 0 \in N
    <2> DEFINE F == [s \in Small(0) |-> base]
    <2>1. \A s \in Small(0) : s = {}
      BY <1>1
    <2>2. Good(F, 0)
      BY <2>1
    <2> QED
      BY <2>2
  <1>3. ASSUME NEW n \in N
        PROVE  n + 1 \in N
    <2>1. PICK F : Good(F, n)
      OBVIOUS
    <2> DEFINE G == [s \in Small(n + 1) |-> IF s = {} THEN base
                                            ELSE step[<<pick[s], F[Before(s)]>>]]
    <2>2. ASSUME NEW s \in Small(n + 1), s # {}
          PROVE  Before(s) \in Small(n) /\ pick[s] \in S
      BY <1>1, <2>2
    <2>3. \A s \in Small(n) : s \in Small(n + 1)
      BY <1>1
    <2>4. \A s \in Small(n) : G[s] = F[s]
      BY <2>1, <2>3
    <2>5. G \in [Small(n + 1) -> V]
      <3>1. ASSUME NEW s \in Small(n + 1), s # {}
            PROVE  step[<<pick[s], F[Before(s)]>>] \in V
        <4>1. F[Before(s)] \in V /\ pick[s] \in S
          BY <2>1, <2>2, <3>1
        <4> QED
          BY <4>1
      <3> QED
        BY <3>1
    <2>6. ASSUME NEW s \in Small(n + 1)
          PROVE  G[s] = IF s = {} THEN base ELSE step[<<pick[s], G[Before(s)]>>]
      <3>1. G[s] = IF s = {} THEN base ELSE step[<<pick[s], F[Before(s)]>>]
        OBVIOUS
      <3>2. s # {} => G[Before(s)] = F[Before(s)]
        BY <2>2, <2>4
      <3> HIDE DEF G
      <3> QED
        BY <3>1, <3>2
    <2> HIDE DEF G
    <2>7. Good(G, n + 1)
      BY <2>5, <2>6
    <2> HIDE DEF Good
    <2>8. (\E H : Good(H, n + 1)) /\ n + 1 \in Nat
      BY <2>7
    <2> QED
      BY <2>8
  <1> HIDE DEF N
  <1>4. Cardinality(S) \in N
    <2>1. Cardinality(S) \in Nat
      BY FS_CardinalityType
    <2>2. N \in SUBSET Nat
      BY DEF N
    <2> QED
      BY <1>2, <1>3, <2>1, <2>2, Inductive
  <1>5. PICK F : Good(F, Cardinality(S))
    BY <1>4 DEF N
  <1>6. Small(Cardinality(S)) = SUBSET S
    BY <1>1
  <1> QED
    BY <1>5, <1>6 DEF Folds, Before

(* What every step keeps holds at the end. *)
Keeps(F, S, G, pick) ==
    \A s \in SUBSET S : s # {} /\ F[s \ {pick[s]}] \in G => F[s] \in G

LEMMA FoldKeeps ==
    ASSUME NEW S, IsFiniteSet(S), NEW F, NEW G, NEW pick, Picks(pick, S),
           F[{}] \in G, Keeps(F, S, G, pick)
    PROVE  F[S] \in G
  <1> DEFINE N == {n \in Nat : \A s \in SUBSET S : Cardinality(s) = n => F[s] \in G}
             Before(s) == s \ {pick[s]}
  <1>1. ASSUME NEW s \in SUBSET S
        PROVE  /\ Cardinality(s) \in Nat
               /\ Cardinality(s) = 0 <=> s = {}
               /\ s # {} => /\ Before(s) \in SUBSET S
                            /\ Cardinality(Before(s)) = Cardinality(s) - 1
    BY FS_Subset, FS_CardinalityType, FS_EmptySet, FS_RemoveElement DEF Picks
  <1>2. \A s \in SUBSET S : s # {} /\ F[Before(s)] \in G => F[s] \in G
    BY DEF Keeps
  <1> HIDE DEF Before
  <1>3. 0 \in N
    BY <1>1
  <1>4. ASSUME NEW n \in N
        PROVE  n + 1 \in N
    <2>1. ASSUME NEW s \in SUBSET S, Cardinality(s) = n + 1
          PROVE  F[s] \in G
      <3>1. s # {} /\ Before(s) \in SUBSET S /\ Cardinality(Before(s)) = n
        BY <1>1, <2>1
      <3>2. F[Before(s)] \in G
        BY <3>1
      <3> QED
        BY <1>2, <3>1, <3>2
    <2> QED
      BY <2>1
  <1>5. Cardinality(S) \in Nat
    BY FS_CardinalityType
  <1> HIDE DEF N
  <1>6. Cardinality(S) \in N
    <2>1. N \in SUBSET Nat
      BY DEF N
    <2> QED
      BY <1>3, <1>4, <1>5, <2>1, Inductive
  <1> QED
    BY <1>6 DEF N
=============================================================================
