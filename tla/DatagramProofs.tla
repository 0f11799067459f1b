--------------------------- MODULE DatagramProofs ---------------------------
(***************************************************************************)
(* Proofs about DatagramTransport for any number of endpoints, datagrams   *)
(* and submissions, on both drivers and with completions that fail: the    *)
(* write queue, what the ring's submissions point to, and what reaches the *)
(* wire and the applications.                                              *)
(***************************************************************************)
EXTENDS DatagramTransport, DataInduction, SequenceTheorems, TLAPS

-----------------------------------------------------------------------------
(* Counting: the position of a number in a finite set of them.              *)
Rank(S, k) == Cardinality({j \in S : j <= k})

LEMMA RankFacts ==
  ASSUME NEW S \in SUBSET Nat, IsFiniteSet(S)
  PROVE  /\ Cardinality(S) \in Nat
         /\ \A k \in Nat : Rank(S, k) \in Nat /\ Rank(S, k) <= Cardinality(S)
         /\ \A k \in S : Rank(S, k) > 0
         /\ \A j, k \in S : j < k => Rank(S, j) < Rank(S, k)
<1> DEFINE below(k) == {j \in S : j <= k}
<1>1. Cardinality(S) \in Nat
  BY FS_CardinalityType
<1>2. ASSUME NEW k \in Nat
      PROVE  IsFiniteSet(below(k)) /\ Rank(S, k) \in Nat /\ Rank(S, k) <= Cardinality(S)
  <2>1. below(k) \subseteq S
    OBVIOUS
  <2> HIDE DEF below
  <2>2. IsFiniteSet(below(k)) /\ Cardinality(below(k)) <= Cardinality(S)
    BY <2>1, FS_Subset
  <2>3. Cardinality(below(k)) \in Nat
    BY <2>2, FS_CardinalityType
  <2> QED
    BY <2>2, <2>3 DEF Rank, below
<1>3. ASSUME NEW k \in S
      PROVE  Rank(S, k) > 0
  <2>1. k \in below(k)
    OBVIOUS
  <2>2. IsFiniteSet(below(k)) /\ Cardinality(below(k)) = Rank(S, k) /\ Rank(S, k) \in Nat
    BY <1>2 DEF Rank
  <2> HIDE DEF below
  <2>3. Cardinality(below(k)) # 0
    BY <2>1, <2>2, FS_EmptySet
  <2> QED
    BY <2>2, <2>3
<1>4. ASSUME NEW j \in S, NEW k \in S, j < k
      PROVE  Rank(S, j) < Rank(S, k)
  <2>1. below(j) \subseteq below(k) /\ k \in below(k) /\ k \notin below(j)
    <3>1. \A x \in S : x \in Nat
      OBVIOUS
    <3>2. \A x \in S : x <= j => x <= k
      BY <1>4, <3>1
    <3>3. k <= k /\ ~(k <= j)
      BY <1>4, <3>1
    <3> QED
      BY <3>2, <3>3
  <2>2. /\ IsFiniteSet(below(j)) /\ Cardinality(below(j)) = Rank(S, j) /\ Rank(S, j) \in Nat
        /\ IsFiniteSet(below(k)) /\ Cardinality(below(k)) = Rank(S, k) /\ Rank(S, k) \in Nat
    BY <1>2 DEF Rank
  <2> HIDE DEF below
  <2>3. Cardinality(below(j)) < Cardinality(below(k))
    BY <2>1, <2>2, FS_Subset
  <2> QED
    BY <2>2, <2>3
<1> QED
  BY <1>1, <1>2, <1>3, <1>4

(* Every position is taken. *)
LEMMA RankTaken ==
  ASSUME NEW S \in SUBSET (Nat \ {0}), IsFiniteSet(S), NEW L \in Nat, \A k \in S : k <= L,
         NEW i \in 1..Cardinality(S)
  PROVE  \E k \in S : Rank(S, k) = i
<1>1. /\ Cardinality(S) \in Nat /\ i \in Nat /\ S \in SUBSET Nat
      /\ \A k \in Nat : Rank(S, k) \in Nat
  BY RankFacts
<1> DEFINE N == {n \in Nat : i <= Rank(S, n)}
<1>2. L \in N
  <2>1. {j \in S : j <= L} = S
    OBVIOUS
  <2>2. Rank(S, L) = Cardinality(S)
    BY <2>1 DEF Rank
  <2> QED
    BY <1>1, <2>2
<1>3. PICK n \in N : \A k \in N : n <= k
  BY <1>2, Least
<1>4. n \in Nat /\ i <= Rank(S, n) /\ \A k \in Nat : i <= Rank(S, k) => n <= k
  BY <1>3
<1> HIDE DEF N
<1>5. n # 0
  <2>1. {j \in S : j <= 0} = {}
    <3>1. \A j \in S : j \in Nat \ {0}
      OBVIOUS
    <3>2. \A j \in S : ~(j <= 0)
      BY <3>1
    <3> QED
      BY <3>2
  <2>2. Rank(S, 0) = 0
    BY <2>1, FS_EmptySet DEF Rank
  <2> QED
    BY <1>1, <1>4, <2>2
<1>6. n - 1 \in Nat /\ Rank(S, n - 1) < i
  <2>1. n - 1 \in Nat /\ ~(n <= n - 1)
    BY <1>4, <1>5
  <2>2. ~(i <= Rank(S, n - 1))
    BY <1>4, <2>1
  <2> QED
    BY <1>1, <2>1, <2>2
<1> DEFINE A == {j \in S : j <= n - 1}
           B == {j \in S : j <= n}
<1>7. Rank(S, n - 1) = Cardinality(A) /\ Rank(S, n) = Cardinality(B)
  BY DEF Rank
<1>8. n \in S /\ B = A \cup {n} /\ n \notin A
  <2>1. \A j \in S : j \in Nat
    OBVIOUS
  <2>2. \A j \in S : (j <= n <=> (j <= n - 1 \/ j = n)) /\ ~(n <= n - 1)
    BY <1>4, <2>1
  <2>3. n \in S
    <3>1. CASE n \notin S
      <4>1. \A j \in S : j <= n <=> j <= n - 1
        BY <2>2, <3>1
      <4>2. A = B
        BY <4>1
      <4> HIDE DEF A, B
      <4>3. Rank(S, n) = Rank(S, n - 1)
        BY <1>7, <4>2
      <4> QED
        BY <1>1, <1>4, <1>6, <4>3
    <3> QED
      BY <3>1
  <2>4. n <= n /\ ~(n <= n - 1)
    BY <1>4
  <2> QED
    BY <2>2, <2>3, <2>4
<1>9. IsFiniteSet(A)
  <2>1. A \subseteq S
    OBVIOUS
  <2> QED
    BY <2>1, FS_Subset
<1> HIDE DEF A, B
<1>10. Cardinality(B) = Cardinality(A) + 1
  BY <1>8, <1>9, FS_AddElement
<1>11. Rank(S, n) = i
  BY <1>1, <1>4, <1>6, <1>7, <1>10
<1> QED
  BY <1>8, <1>11

-----------------------------------------------------------------------------
(* Adding up.                                                               *)

LEMMA TotalAgrees ==
  ASSUME NEW S, NEW g, NEW h, \A x \in S : g[x] = h[x]
  PROVE  Total(g, S) = Total(h, S)
<1>1. \A x \in S : Box(g, x) = Box(h, x)
  BY DEF Box
<1>2. Boxes(g, S) = Boxes(h, S)
  BY <1>1 DEF Boxes
<1> QED
  BY <1>2 DEF Total

(* The elements m of a window that starts after b are those of h. *)
LEMMA TotalAppends ==
  ASSUME NEW a \in Nat, NEW b \in Nat, a <= b + 1, NEW L \in Nat, NEW g, NEW h,
         \A x \in a..(b + L) : g[x] \in Nat,
         \A i \in 1..L : h[i] = g[b + i]
  PROVE  Total(g, a..(b + L)) = Total(g, a..b) + Total(h, 1..L)
<1> DEFINE S == a..(b + L)
           N == {n \in Nat : n <= L => Total(g, a..(b + n)) = Total(g, a..b) + Total(h, 1..n)}
<1>1. /\ \A s \in SUBSET S : Total(g, s) \in Nat
      /\ \A s \in SUBSET S, x \in S : x \notin s => Total(g, s \cup {x}) = Total(g, s) + g[x]
  <2>1. IsFiniteSet(S) /\ \A x \in S : g[x] \in Nat
    BY FS_Interval
  <2> HIDE DEF S
  <2> QED
    BY <2>1, TotalAdds
<1>2. /\ Total(h, {}) = 0 /\ \A s \in SUBSET (1..L) : Total(h, s) \in Nat
      /\ \A s \in SUBSET (1..L), x \in 1..L : x \notin s => Total(h, s \cup {x}) = Total(h, s) + h[x]
  <2> DEFINE T == 1..L
  <2>1. IsFiniteSet(T)
    BY FS_Interval
  <2>2. ASSUME NEW x \in T PROVE h[x] \in Nat
    <3>1. b + x \in a..(b + L)
      OBVIOUS
    <3> QED
      BY <3>1
  <2> HIDE DEF T
  <2>3. /\ Total(h, {}) = 0 /\ \A s \in SUBSET T : Total(h, s) \in Nat
        /\ \A s \in SUBSET T, x \in T : x \notin s => Total(h, s \cup {x}) = Total(h, s) + h[x]
    BY <2>1, <2>2, TotalAdds
  <2> QED
    BY <2>3 DEF T
<1>3. 0 \in N
  <2>1. 1..0 = {} /\ b + 0 = b /\ a..b \subseteq S
    OBVIOUS
  <2>2. Total(g, a..b) \in Nat
    BY <1>1, <2>1
  <2> HIDE DEF S
  <2> QED
    BY <1>2, <2>1, <2>2
<1>4. ASSUME NEW n \in N
      PROVE  n + 1 \in N
  <2> SUFFICES ASSUME n + 1 <= L
               PROVE  Total(g, a..(b + (n + 1))) = Total(g, a..b) + Total(h, 1..(n + 1))
    OBVIOUS
  <2>1. n \in Nat /\ n <= L /\ n + 1 \in 1..L /\ b + (n + 1) \in S
    OBVIOUS
  <2>2. Total(g, a..(b + n)) = Total(g, a..b) + Total(h, 1..n)
    BY <2>1
  <2> DEFINE G == a..(b + n)
             H == 1..n
             x == b + (n + 1)
  <2>3. a..(b + (n + 1)) = G \cup {x} /\ G \subseteq S /\ x \notin G /\ a..b \subseteq S
    BY <2>1
  <2>4. 1..(n + 1) = H \cup {n + 1} /\ H \subseteq 1..L /\ n + 1 \notin H
    BY <2>1
  <2>5. g[x] = h[n + 1] /\ x \in S
    BY <2>1
  <2> HIDE DEF G, H, x, S
  <2>6. Total(g, G \cup {x}) = Total(g, G) + g[x]
    BY <1>1, <2>3, <2>5
  <2>7. Total(h, H \cup {n + 1}) = Total(h, H) + h[n + 1]
    BY <1>2, <2>1, <2>4
  <2>8. Total(g, a..b) \in Nat /\ Total(h, H) \in Nat /\ h[n + 1] \in Nat
    <3>1. b + (n + 1) \in a..(b + L)
      BY <2>1
    <3>2. h[n + 1] \in Nat
      BY <2>1, <3>1
    <3> QED
      BY <1>1, <1>2, <2>3, <2>4, <3>2
  <2>9. Total(g, G) = Total(g, a..b) + Total(h, H)
    BY <2>2 DEF G, H
  <2> DEFINE p == Total(g, a..b)
             q == Total(h, H)
             r == h[n + 1]
  <2>10. Total(g, G \cup {x}) = (p + q) + r /\ Total(h, H \cup {n + 1}) = q + r
         /\ p \in Nat /\ q \in Nat /\ r \in Nat
    BY <2>5, <2>6, <2>7, <2>8, <2>9
  <2> HIDE DEF p, q, r
  <2>11. Total(g, G \cup {x}) = p + Total(h, H \cup {n + 1})
    BY <2>10
  <2> QED
    BY <2>3, <2>4, <2>11 DEF p
<1> HIDE DEF N
<1>5. L \in N
  BY <1>3, <1>4, Inductive DEF N
<1> QED
  BY <1>5 DEF N

(* The sizes of a sequence of datagrams, and of those in a part of memory. *)
Sizes1(ds) == [k \in DOMAIN ds |-> ds[k].size]
SizesIn(mem) == [s \in DOMAIN mem |-> mem[s].dg.size]

LEMMA TotalOfSizes ==
  ASSUME NEW q, NEW S, IsFiniteSet(S), NEW g, \A k \in S : g[k] = q[k].size /\ g[k] \in Nat
  PROVE  MapThenSumSet(LAMBDA k : q[k].size, S) = Total(g, S)
<1> DEFINE P(F) == F = [s \in SUBSET S |-> IF s = {} THEN 0
                                           ELSE q[AnyOf(s)].size + F[s \ {AnyOf(s)}]]
<1>1. MapThenSumSet(LAMBDA k : q[k].size, S) = (CHOOSE F : P(F))[S]
  BY DEF MapThenSumSet, MapThenFoldSet, AnyOf
<1>2. ASSUME NEW F
      PROVE  P(F) <=> AddsUp(F, g, S)
  <2>1. ASSUME NEW s \in SUBSET S
        PROVE  (IF s = {} THEN 0 ELSE q[AnyOf(s)].size + F[s \ {AnyOf(s)}])
                 = (IF s = {} THEN 0 ELSE g[AnyOf(s)] + F[s \ {AnyOf(s)}])
    <3>1. s # {} => AnyOf(s) \in S
      BY DEF AnyOf
    <3> QED
      BY <3>1
  <2> QED
    BY <2>1 DEF AddsUp
<1>3. \E F : AddsUp(F, g, S)
  BY TotalExists
<1>4. AddsUp(CHOOSE F : P(F), g, S)
  <2> HIDE DEF P
  <2> QED
    BY <1>2, <1>3
<1> HIDE DEF P
<1> QED
  BY <1>1, <1>4, TotalUnique

LEMMA TotalInMemory ==
  ASSUME NEW q, NEW S, IsFiniteSet(S), NEW g, \A k \in S : g[k] = q[k].dg.size /\ g[k] \in Nat
  PROVE  MapThenSumSet(LAMBDA s : q[s].dg.size, S) = Total(g, S)
<1> DEFINE P(F) == F = [s \in SUBSET S |-> IF s = {} THEN 0
                                           ELSE q[AnyOf(s)].dg.size + F[s \ {AnyOf(s)}]]
<1>1. MapThenSumSet(LAMBDA s : q[s].dg.size, S) = (CHOOSE F : P(F))[S]
  BY DEF MapThenSumSet, MapThenFoldSet, AnyOf
<1>2. ASSUME NEW F
      PROVE  P(F) <=> AddsUp(F, g, S)
  <2>1. ASSUME NEW s \in SUBSET S
        PROVE  (IF s = {} THEN 0 ELSE q[AnyOf(s)].dg.size + F[s \ {AnyOf(s)}])
                 = (IF s = {} THEN 0 ELSE g[AnyOf(s)] + F[s \ {AnyOf(s)}])
    <3>1. s # {} => AnyOf(s) \in S
      BY DEF AnyOf
    <3> QED
      BY <3>1
  <2> QED
    BY <2>1 DEF AddsUp
<1>3. \E F : AddsUp(F, g, S)
  BY TotalExists
<1>4. AddsUp(CHOOSE F : P(F), g, S)
  <2> HIDE DEF P
  <2> QED
    BY <1>2, <1>3
<1> HIDE DEF P
<1> QED
  BY <1>1, <1>4, TotalUnique

-----------------------------------------------------------------------------
(* The invariants.                                                          *)

Dgram == [ep : Endpoints, id : Nat, size : Nat]
Slot == [dg : Dgram, hdr : Nat, id : Nat, busy : BOOLEAN]

(* What the dispatcher knows; a datagram's id is its place in its stream.   *)
AppInv ==
    /\ arrived \in Seq(Dgram) /\ \A k \in 1..Len(arrived) : arrived[k].id = k
    /\ taken \in 0..Len(arrived)
    /\ layers \in Seq(Endpoints)
    /\ timeouts \in Seq(Endpoints) /\ due \subseteq 1..Len(timeouts)

(* The queue is a window of the memory: it holds what was enqueued and not  *)
(* yet sent, in that order, each header in its own slot.                    *)
Window == front..back

QueueInv ==
    /\ offered \in Seq(Dgram) /\ \A k \in 1..Len(offered) : offered[k].id = k
    /\ wire \in Seq(Dgram) /\ \A k \in 1..Len(wire) : wire[k] = offered[k]
    /\ memory \in Seq(Slot)
    /\ front \in Nat \ {0} /\ back \in Nat /\ front <= back + 1 /\ back <= Len(memory)
    /\ Len(offered) = Len(wire) + (back - front + 1)
    /\ \A r \in Window : /\ memory[r].dg = offered[Len(wire) + (r - front + 1)]
                         /\ memory[r].hdr = r
    /\ enqueued = Total(SizesIn(memory), Window)

(* Submissions of sendmsg(): each belongs to an element of its own.         *)
Writes(subs) == {s \in subs : s.op = "write"}

Belongs(s, r) == memory[r].id = s.id /\ memory[r].busy /\ s.id > 0

RingInv ==
    /\ sends \in Nat
    /\ \A r \in Window : memory[r].id \in 0..sends
    /\ \A q, r \in Window : memory[q].id = memory[r].id /\ memory[q].id > 0 => q = r
    /\ \A s \in Writes(prepared) : s.slot \in Window /\ Belongs(s, s.slot)
    /\ \A s \in Writes(inflight) :
         \E r \in Window : Belongs(s, r) /\ s.dg = <<memory[r].dg>>
    /\ \A s \in Writes(prepared), t \in Writes(inflight) : s.id # t.id
    /\ \A s, t \in Writes(inflight) : s.id = t.id => s = t

(* The handlers of events and the ring do not mix. *)
DriverInv ==
    /\ driver = "event" => prepared = {} /\ inflight = {}
    /\ phase = "send" => driver = "event"

Inv == AppInv /\ QueueInv /\ RingInv /\ DriverInv

(* The ring of a step that neither submits a write nor completes one.       *)
RingQuiet ==
    /\ sends' = sends /\ Writes(prepared') = Writes(prepared)
    /\ inflight' \subseteq inflight

-----------------------------------------------------------------------------
(* The applications.                                                        *)

LEMMA AskedFacts ==
  ASSUME AppInv
  PROVE  Asked \in Seq(Endpoints)
<1> DEFINE idle == {k \in DOMAIN layers : left[layers[k]] = 0}
           m == Min(idle)
<1>1. layers \in Seq(Endpoints) /\ Len(layers) \in Nat /\ DOMAIN layers = 1..Len(layers)
  BY DEF AppInv
<1>2. CASE idle = {} \/ IdleProduce = "ok"
  BY <1>1, <1>2 DEF Asked
<1>3. CASE idle # {} /\ IdleProduce # "ok"
  <2>1. idle \in SUBSET Nat /\ idle \subseteq 1..Len(layers)
    BY <1>1
  <2>2. Asked = SubSeq(layers, 1, m - 1)
    BY <1>3 DEF Asked
  <2> HIDE DEF idle
  <2>3. \E x \in idle : \A y \in idle : x <= y
    BY <1>3, <2>1, Least
  <2>4. Min(idle) \in idle
    BY <2>3 DEF Min
  <2>5. m \in 1..Len(layers)
    BY <2>1, <2>4
  <2> HIDE DEF m
  <2>6. 1 \in Int /\ m - 1 \in Int /\ \A i \in 1..(m - 1) : layers[i] \in Endpoints
    <3>1. \A i \in 1..(m - 1) : i \in 1..Len(layers)
      BY <1>1, <2>5
    <3> QED
      BY <1>1, <2>5, <3>1
  <2> QED
    BY <2>2, <2>6, SubSeqProperties
<1> QED
  BY <1>2, <1>3

LEMMA ProducersFacts ==
  ASSUME AppInv
  PROVE  Producers \in Seq(Endpoints)
<1> DEFINE S == {k \in DOMAIN Asked : left[Asked[k]] > 0}
           n == Cardinality(S)
           L == Len(Asked)
           p == [i \in 1..n |-> Asked[CHOOSE k \in S : Rank(S, k) = i]]
<1>1. Producers = p
  BY DEF Producers, Rank
<1>2. L \in Nat /\ DOMAIN Asked = 1..L /\ \A k \in 1..L : Asked[k] \in Endpoints
  BY AskedFacts
<1>3. S \in SUBSET (Nat \ {0}) /\ (\A k \in S : k <= L) /\ S \subseteq 1..L
  BY <1>2
<1> HIDE DEF S
<1>4. IsFiniteSet(S)
  <2>1. IsFiniteSet(1..L)
    BY <1>2, FS_Interval
  <2> HIDE DEF L
  <2> QED
    BY <1>3, <2>1, FS_Subset
<1>5. n \in Nat
  BY <1>4, FS_CardinalityType
<1>6. ASSUME NEW i \in 1..n
      PROVE  Asked[CHOOSE k \in S : Rank(S, k) = i] \in Endpoints
  <2>1. \E k \in S : Rank(S, k) = i
    BY <1>2, <1>3, <1>4, RankTaken
  <2>2. (CHOOSE k \in S : Rank(S, k) = i) \in S
    BY <2>1
  <2> QED
    BY <1>2, <1>3, <2>2
<1> HIDE DEF n
<1>7. p \in [1..n -> Endpoints]
  BY <1>6
<1> HIDE DEF p
<1> QED
  BY <1>1, <1>5, <1>7, SeqDef

LEMMA InsertFacts ==
  ASSUME NEW s \in Seq(Endpoints), NEW k \in 1..(Len(s) + 1), NEW e \in Endpoints
  PROVE  InsertAt(s, k, e) \in Seq(Endpoints)
<1> DEFINE a == SubSeq(s, 1, k - 1)
           b == SubSeq(s, k, Len(s))
<1>1. Len(s) \in Nat /\ \A i \in 1..Len(s) : s[i] \in Endpoints
  OBVIOUS
<1>2. 1 \in Int /\ k - 1 \in Int /\ \A i \in 1..(k - 1) : s[i] \in Endpoints
  BY <1>1
<1>3. k \in Int /\ Len(s) \in Int /\ \A i \in k..Len(s) : s[i] \in Endpoints
  BY <1>1
<1>4. a \in Seq(Endpoints) /\ b \in Seq(Endpoints)
  BY <1>2, <1>3, SubSeqProperties
<1>5. InsertAt(s, k, e) = (a \o <<e>>) \o b
  BY DEF InsertAt
<1> HIDE DEF a, b
<1>6. <<e>> \in Seq(Endpoints)
  OBVIOUS
<1> QED
  BY <1>4, <1>5, <1>6, ConcatProperties

(* A datagram that can be read. *)
LEMMA DatagramFacts ==
  ASSUME AppInv, Read
  PROVE  /\ Datagram \in Dgram /\ Datagram.id = taken + 1 /\ taken' = taken + 1
         /\ taken + 1 \in 1..Len(arrived) /\ Datagram.ep \in Endpoints
<1>1. Len(arrived) \in Nat /\ taken \in Nat /\ Len(arrived) - taken > 0
  BY DEF AppInv, Read, Readable, Inbox
<1>2. taken + 1 \in 1..Len(arrived)
  BY <1>1
<1>3. Datagram \in Dgram /\ Datagram.id = taken + 1
  BY <1>2 DEF AppInv, Datagram
<1> QED
  BY <1>2, <1>3 DEF Read, Dgram

LEMMA AppStep ==
  ASSUME AppInv, [Next]_vars
  PROVE  AppInv'
<1>1. CASE PeerSend
  <2>1. PICK e \in Endpoints, n \in Sizes \cup {0} :
          arrived' = Append(arrived, [ep |-> e, id |-> Len(arrived) + 1, size |-> n])
    BY <1>1 DEF PeerSend
  <2> DEFINE d == [ep |-> e, id |-> Len(arrived) + 1, size |-> n]
  <2>2. arrived \in Seq(Dgram) /\ Len(arrived) \in Nat
    BY DEF AppInv
  <2>3. d \in Dgram /\ d.id = Len(arrived) + 1 /\ arrived' = Append(arrived, d)
    BY <2>1, <2>2, DatagramAssumption DEF Dgram
  <2> HIDE DEF d
  <2>4. /\ arrived' \in Seq(Dgram) /\ Len(arrived') = Len(arrived) + 1
        /\ arrived'[Len(arrived) + 1] = d
        /\ \A k \in 1..Len(arrived) : arrived'[k] = arrived[k]
    BY <2>2, <2>3, AppendProperties
  <2>5. ASSUME NEW k \in 1..Len(arrived') PROVE arrived'[k].id = k
    <3>1. k \in 1..Len(arrived) \/ k = Len(arrived) + 1
      BY <2>2, <2>4
    <3> QED
      BY <2>3, <2>4, <3>1 DEF AppInv
  <2>6. taken' = taken /\ UNCHANGED <<layers, timeouts, due>>
    BY <1>1 DEF PeerSend, inVars, appVars
  <2> QED
    BY <2>2, <2>4, <2>5, <2>6 DEF AppInv
<1>2. ASSUME Read, arrived' = arrived
      PROVE  taken' \in 0..Len(arrived')
  BY <1>2, DatagramFacts DEF AppInv
<1>3. CASE ReadPart
  <2>1. Read /\ UNCHANGED <<arrived, layers, timeouts, due>>
    BY <1>3 DEF ReadPart, appVars
  <2> QED
    BY <1>2, <2>1 DEF AppInv
<1>4. CASE ConsumeFails
  <2>1. Read /\ UNCHANGED <<arrived, layers, timeouts, due>>
    BY <1>4 DEF ConsumeFails, appVars
  <2> QED
    BY <1>2, <2>1 DEF AppInv
<1>5. CASE Consume
  <2> DEFINE e == LayerOf(Datagram.ep)
  <2>1. Read /\ arrived' = arrived /\ AddLayer(e)
    BY <1>5 DEF Consume
  <2>2. UNCHANGED <<timeouts, due>> \/ SetTimeout(e)
    BY <1>5 DEF Consume
  <2>3. e \in Endpoints
    BY <2>1, DatagramFacts DEF LayerOf
  <2> HIDE DEF e
  <2>4. layers' \in Seq(Endpoints)
    <3>1. layers \in Seq(Endpoints)
      BY DEF AppInv
    <3> QED
      BY <2>1, <2>3, <3>1, InsertFacts DEF AddLayer
  <2>5. timeouts' \in Seq(Endpoints) /\ due' \subseteq 1..Len(timeouts')
    <3>1. timeouts \in Seq(Endpoints) /\ due \subseteq 1..Len(timeouts) /\ Len(timeouts) \in Nat
      BY DEF AppInv
    <3>2. CASE SetTimeout(e)
      <4>1. timeouts' = Append(timeouts, e) /\ due' = due \cup {Len(timeouts) + 1}
        BY <3>2 DEF SetTimeout
      <4>2. timeouts' \in Seq(Endpoints) /\ Len(timeouts') = Len(timeouts) + 1
        BY <2>3, <3>1, <4>1, AppendProperties
      <4> DEFINE m == Len(timeouts)
      <4> HIDE DEF m
      <4>3. due \subseteq 1..m /\ m \in Nat /\ Len(timeouts') = m + 1
            /\ due' = due \cup {m + 1}
        BY <3>1, <4>1, <4>2 DEF m
      <4>4. due' \subseteq 1..(m + 1)
        BY <4>3
      <4> QED
        BY <4>2, <4>3, <4>4
    <3> QED
      BY <2>2, <3>1, <3>2
  <2> QED
    BY <1>2, <2>1, <2>4, <2>5 DEF AppInv
<1>6. CASE HandleTimeout
  <2>1. /\ UNCHANGED <<arrived, taken, layers, timeouts>>
        /\ due' \subseteq due
    BY <1>6 DEF HandleTimeout, inVars
  <2> QED
    BY <2>1 DEF AppInv
<1>7. CASE UNCHANGED <<arrived, taken, layers, timeouts, due>>
  BY <1>7 DEF AppInv
<1> QED
  BY <1>1, <1>3, <1>4, <1>5, <1>6, <1>7 DEF Next, ReadEvent, ReadHandler, ReadStops,
     ReadError, WriteEvent, WriteHandler, Produce, WriteDone, StartSending, SendWouldBlock,
     SendFails, SendNext, SubmitDatagrams, Send, Enter, SendCompletes, SendError,
     PollCompletes, Quiet, vars, inVars, appVars

-----------------------------------------------------------------------------
(* enqueue().                                                               *)

(* The memory m, with the elements t after slot b. *)
Splice(m, b, t) == SubSeq(m, 1, b) \o t \o SubSeq(m, b + Len(t) + 1, Len(m))

LEMMA SpliceFacts ==
  ASSUME NEW m \in Seq(Slot), NEW b \in Nat, b <= Len(m), NEW t \in Seq(Slot), NEW r,
         r = Splice(m, b, t)
  PROVE  /\ r \in Seq(Slot) /\ b + Len(t) <= Len(r)
         /\ \A k \in 1..b : r[k] = m[k]
         /\ \A k \in 1..Len(t) : r[b + k] = t[k]
<1> DEFINE L == Len(m)
           c == Len(t)
           pre == SubSeq(m, 1, b)
           post == SubSeq(m, b + c + 1, L)
<1>1. L \in Nat /\ c \in Nat /\ b <= L /\ \A k \in 1..L : m[k] \in Slot
  OBVIOUS
<1>2. r = (pre \o t) \o post
  BY DEF Splice
<1> HIDE DEF L, c
<1>3. pre \in Seq(Slot) /\ Len(pre) = b /\ \A k \in 1..b : pre[k] = m[k]
  <2>1. 1 \in Int /\ b \in Int /\ \A k \in 1..b : m[k] \in Slot
    BY <1>1
  <2>2. /\ pre \in Seq(Slot) /\ Len(pre) = IF 1 <= b THEN b - 1 + 1 ELSE 0
        /\ \A k \in 1..(b - 1 + 1) : pre[k] = m[1 + k - 1]
    BY <2>1, SubSeqProperties
  <2> HIDE DEF pre
  <2>3. Len(pre) = b
    BY <2>2
  <2>4. \A k \in 1..b : k \in 1..(b - 1 + 1) /\ 1 + k - 1 = k
    OBVIOUS
  <2> QED
    BY <2>2, <2>3, <2>4
<1>4. post \in Seq(Slot)
  <2> DEFINE i == b + c + 1
  <2>1. i \in Int /\ L \in Int /\ \A k \in i..L : m[k] \in Slot
    BY <1>1
  <2> HIDE DEF i
  <2>2. SubSeq(m, i, L) \in Seq(Slot)
    BY <2>1, SubSeqProperties
  <2> QED
    BY <2>2 DEF i
<1> HIDE DEF pre, post
<1> DEFINE h == pre \o t
<1>5. /\ h \in Seq(Slot) /\ Len(h) = b + c
      /\ \A k \in 1..(b + c) : h[k] = IF k <= b THEN pre[k] ELSE t[k - b]
  BY <1>3, ConcatProperties DEF c
<1> HIDE DEF h
<1>6. /\ r \in Seq(Slot) /\ Len(r) = b + c + Len(post)
      /\ \A k \in 1..(b + c + Len(post)) : r[k] = IF k <= b + c THEN h[k] ELSE post[k - (b + c)]
  BY <1>2, <1>4, <1>5, ConcatProperties DEF h
<1>7. Len(post) \in Nat
  BY <1>4
<1>8. ASSUME NEW k \in 1..b PROVE r[k] = m[k]
  <2>1. k \in 1..(b + c) /\ k <= b /\ k <= b + c /\ k \in 1..(b + c + Len(post))
    BY <1>1, <1>7
  <2> QED
    BY <1>3, <1>5, <1>6, <2>1
<1>9. ASSUME NEW k \in 1..c PROVE r[b + k] = t[k]
  <2>1. /\ b + k \in 1..(b + c) /\ ~(b + k <= b) /\ b + k <= b + c /\ (b + k) - b = k
        /\ b + k \in 1..(b + c + Len(post))
    BY <1>1, <1>7
  <2> QED
    BY <1>5, <1>6, <2>1
<1>10. b + c <= Len(r)
  BY <1>1, <1>6, <1>7
<1> QED
  BY <1>6, <1>8, <1>9, <1>10 DEF c

LEMMA QueueTypes ==
  ASSUME QueueInv
  PROVE  /\ Len(offered) \in Nat /\ Len(wire) \in Nat /\ Len(memory) \in Nat
         /\ DOMAIN memory = 1..Len(memory) /\ Window \subseteq 1..Len(memory)
         /\ \A r \in 1..Len(memory) : memory[r] \in Slot
         /\ \A r \in Window : /\ SizesIn(memory)[r] = memory[r].dg.size
                              /\ memory[r].dg.size \in Nat /\ memory[r].dg \in Dgram
         /\ IsFiniteSet(Window)
<1>1. /\ Len(offered) \in Nat /\ Len(wire) \in Nat /\ Len(memory) \in Nat
      /\ DOMAIN memory = 1..Len(memory)
      /\ \A r \in 1..Len(memory) : memory[r] \in Slot
  BY DEF QueueInv
<1>2. Window \subseteq 1..Len(memory)
  BY <1>1 DEF QueueInv, Window
<1>3. ASSUME NEW r \in Window
      PROVE  /\ SizesIn(memory)[r] = memory[r].dg.size
             /\ memory[r].dg.size \in Nat /\ memory[r].dg \in Dgram
  <2>1. r \in DOMAIN memory /\ memory[r] \in Slot
    BY <1>1, <1>2
  <2> QED
    BY <2>1 DEF SizesIn, Slot, Dgram
<1>4. IsFiniteSet(Window)
  BY FS_Interval DEF QueueInv, Window
<1> QED
  BY <1>1, <1>2, <1>3, <1>4

(* Datagrams are added behind what is in the queue, which stays as it is.   *)
LEMMA EnqueueFacts ==
  ASSUME QueueInv, NEW eps \in Seq(Endpoints), NEW n \in Sizes, Enqueue(eps, n)
  PROVE  /\ QueueInv' /\ wire' = wire /\ front' = front /\ back' = back + Len(eps)
         /\ \A r \in front..back : r \in 1..back /\ memory'[r] = memory[r]
         /\ \A k \in 1..Len(eps) : memory'[back + k].id = 0
         /\ Len(offered') = Len(offered) + Len(eps)
         /\ offered \in Seq(Dgram) /\ offered' \in Seq(Dgram)
         /\ \A k \in 1..Len(offered) : offered'[k] = offered[k]
<1> DEFINE N == Len(offered)
           w == Len(wire)
           L == Len(eps)
           ds == [k \in DOMAIN eps |-> [ep |-> eps[k], id |-> N + k, size |-> n]]
           new == [k \in DOMAIN ds |-> Element(ds[k], back + k)]
<1>1. /\ offered' = offered \o ds
      /\ memory' = Splice(memory, back, new)
      /\ back' = back + Len(ds) /\ front' = front /\ wire' = wire
      /\ enqueued' = enqueued + TotalSize(ds)
  <2>1. /\ offered' = offered \o ds
        /\ memory' = SubSeq(memory, 1, back) \o new
                     \o SubSeq(memory, back + Len(ds) + 1, Len(memory))
        /\ back' = back + Len(ds) /\ front' = front /\ wire' = wire
        /\ enqueued' = enqueued + TotalSize(ds)
    BY Zenon DEF Enqueue
  <2>2. Len(new) = Len(ds)
    <3>1. DOMAIN new = DOMAIN ds /\ DOMAIN ds = 1..L /\ L \in Nat
      OBVIOUS
    <3> HIDE DEF new, ds, L
    <3>2. \A m \in Nat : DOMAIN ds = 1..m => Len(ds) = m
      BY <3>1
    <3> QED
      BY <3>1
  <2> HIDE DEF new, ds
  <2> QED
    BY <2>1, <2>2 DEF Splice
<1>2. /\ offered \in Seq(Dgram) /\ \A k \in 1..N : offered[k].id = k
      /\ wire \in Seq(Dgram) /\ \A k \in 1..w : wire[k] = offered[k]
      /\ memory \in Seq(Slot) /\ N \in Nat /\ w \in Nat /\ Len(memory) \in Nat
      /\ front \in Nat \ {0} /\ back \in Nat /\ front <= back + 1 /\ back <= Len(memory)
      /\ N = w + (back - front + 1)
      /\ \A r \in front..back : /\ memory[r].dg = offered[w + (r - front + 1)]
                                /\ memory[r].hdr = r
      /\ enqueued = Total(SizesIn(memory), front..back)
  BY QueueTypes DEF QueueInv, Window
<1>3. L \in Nat /\ n \in Nat /\ DOMAIN eps = 1..L /\ \A k \in 1..L : eps[k] \in Endpoints
  BY DatagramAssumption
<1>4. ASSUME NEW k \in 1..L
      PROVE  ds[k] \in Dgram /\ ds[k].id = N + k /\ ds[k].size = n
  BY <1>2, <1>3 DEF Dgram
<1>5. ds \in Seq(Dgram) /\ Len(ds) = L /\ DOMAIN ds = 1..L
  <2>1. ds \in [1..L -> Dgram]
    BY <1>3, <1>4
  <2> HIDE DEF ds, L
  <2> QED
    BY <1>3, <2>1, SeqDef
<1> HIDE DEF ds, L
<1>6. ASSUME NEW k \in 1..L
      PROVE  /\ new[k] \in Slot /\ new[k].dg = ds[k] /\ new[k].hdr = back + k
             /\ new[k].id = 0
  BY <1>2, <1>4, <1>5 DEF Element, Slot
<1>7. new \in Seq(Slot) /\ Len(new) = L
  <2>1. new \in [1..L -> Slot]
    BY <1>5, <1>6
  <2> HIDE DEF new
  <2> QED
    BY <1>3, <2>1, SeqDef
<1> HIDE DEF new, N, w
<1>8. /\ memory' \in Seq(Slot) /\ back + L <= Len(memory')
      /\ \A k \in 1..back : memory'[k] = memory[k]
      /\ \A k \in 1..L : memory'[back + k] = new[k]
  <2> DEFINE r == memory'
  <2>1. r = Splice(memory, back, new)
    BY <1>1
  <2> HIDE DEF r
  <2>2. /\ r \in Seq(Slot) /\ back + Len(new) <= Len(r)
        /\ \A k \in 1..back : r[k] = memory[k]
        /\ \A k \in 1..Len(new) : r[back + k] = new[k]
    <3>1. memory \in Seq(Slot) /\ back \in Nat /\ back <= Len(memory) /\ new \in Seq(Slot)
      BY <1>2, <1>7
    <3> QED
      BY <2>1, <3>1, SpliceFacts
  <2> QED
    BY <1>7, <2>2 DEF r
<1>9. /\ offered' \in Seq(Dgram) /\ Len(offered') = N + L
      /\ \A k \in 1..N : offered'[k] = offered[k]
      /\ \A k \in 1..L : offered'[N + k] = ds[k]
  <2>1. /\ offered' \in Seq(Dgram) /\ Len(offered') = N + L
        /\ \A k \in 1..(N + L) : offered'[k] = IF k <= N THEN offered[k] ELSE ds[k - N]
    <3>1. /\ offered \in Seq(Dgram) /\ ds \in Seq(Dgram) /\ offered' = offered \o ds
          /\ Len(offered) = N /\ Len(ds) = L
      BY <1>1, <1>2, <1>5 DEF N
    <3> QED
      BY <3>1, ConcatProperties
  <2>2. ASSUME NEW k \in 1..N PROVE offered'[k] = offered[k]
    <3>1. k \in 1..(N + L) /\ k <= N
      BY <1>2, <1>3
    <3> QED
      BY <2>1, <3>1
  <2>3. ASSUME NEW k \in 1..L PROVE offered'[N + k] = ds[k]
    <3>1. N \in Nat /\ L \in Nat /\ k \in 1..L
      BY <1>2, <1>3
    <3>2. N + k \in 1..(N + L) /\ ~(N + k <= N) /\ (N + k) - N = k
      BY <3>1
    <3> QED
      BY <2>1, <3>2
  <2> QED
    BY <2>1, <2>2, <2>3
<1>10. \A r \in front..back : r \in 1..back /\ memory'[r] = memory[r]
  BY <1>2, <1>8
<1>11. back' = back + L
  BY <1>1, <1>5
<1>12. ASSUME NEW k \in 1..Len(offered')
       PROVE  offered'[k].id = k
  <2>1. CASE k \in 1..N
    BY <1>2, <1>9, <2>1
  <2>2. CASE k \notin 1..N
    <3>1. k - N \in 1..L /\ N + (k - N) = k
      BY <1>2, <1>3, <1>9, <2>2
    <3> QED
      BY <1>4, <1>9, <3>1
  <2> QED
    BY <2>1, <2>2
<1>13. \A k \in 1..Len(wire') : wire'[k] = offered'[k]
  <2>1. \A k \in 1..w : k \in 1..N
    BY <1>2
  <2> QED
    BY <1>1, <1>2, <1>9, <2>1 DEF w
<1>14. ASSUME NEW r \in front'..back'
       PROVE  /\ memory'[r].dg = offered'[Len(wire') + (r - front' + 1)]
              /\ memory'[r].hdr = r
  <2>1. CASE r \in front..back
    <3>1. w + (r - front + 1) \in 1..N
      BY <1>2, <2>1
    <3> QED
      BY <1>1, <1>2, <1>9, <1>10, <2>1, <3>1 DEF w
  <2>2. CASE r \notin front..back
    <3> DEFINE k == r - back
    <3>1. k \in 1..L /\ r = back + k /\ w + (r - front + 1) = N + k
      BY <1>1, <1>2, <1>3, <1>11, <2>2
    <3> HIDE DEF k
    <3>2. memory'[r].dg = ds[k] /\ memory'[r].hdr = r
      BY <1>6, <1>8, <3>1
    <3>3. offered'[N + k] = ds[k]
      BY <1>9, <3>1
    <3> QED
      BY <1>1, <3>1, <3>2, <3>3 DEF w
  <2> QED
    BY <2>1, <2>2
<1>15. enqueued' = Total(SizesIn(memory'), front'..back')
  <2> DEFINE g == SizesIn(memory')
             h == Sizes1(ds)
  <2>1. ASSUME NEW x \in front..(back + L)
        PROVE  g[x] = memory'[x].dg.size /\ g[x] \in Nat
    <3>1. x \in 1..Len(memory')
      BY <1>2, <1>3, <1>8
    <3>2. x \in DOMAIN memory' /\ memory'[x] \in Slot
      BY <1>8, <3>1
    <3> QED
      BY <3>2 DEF SizesIn, Slot, Dgram
  <2>2. ASSUME NEW k \in 1..L
        PROVE  h[k] = ds[k].size /\ h[k] \in Nat /\ h[k] = g[back + k]
    <3>1. h[k] = ds[k].size /\ h[k] \in Nat
      BY <1>3, <1>4, <1>5 DEF Sizes1
    <3>2. back + k \in front..(back + L)
      BY <1>2, <1>3
    <3>3. g[back + k] = ds[k].size
      BY <1>6, <1>8, <2>1, <3>2
    <3> QED
      BY <3>1, <3>3
  <2>3. TotalSize(ds) = Total(h, 1..L)
    <3> DEFINE S == 1..L
    <3>1. \A k \in S : h[k] = ds[k].size /\ h[k] \in Nat
      BY <2>2
    <3>3. IsFiniteSet(S)
      BY <1>3, FS_Interval
    <3> HIDE DEF S, h
    <3>2. MapThenSumSet(LAMBDA k : ds[k].size, S) = Total(h, S)
      BY <3>1, <3>3, TotalOfSizes
    <3> QED
      BY <1>5, <3>2 DEF S, TotalSize
  <2>4. Total(g, front..back) = Total(SizesIn(memory), front..back)
    <3>1. ASSUME NEW x \in front..back PROVE g[x] = SizesIn(memory)[x]
      <4>1. x \in front..(back + L)
        BY <1>2, <1>3
      <4>2. SizesIn(memory)[x] = memory[x].dg.size
        BY QueueTypes DEF Window
      <4> QED
        BY <1>10, <2>1, <4>1, <4>2
    <3> HIDE DEF g
    <3> QED
      BY <3>1, TotalAgrees
  <2> HIDE DEF g, h
  <2>5. Total(g, front..(back + L)) = Total(g, front..back) + Total(h, 1..L)
    <3>1. front \in Nat /\ back \in Nat /\ front <= back + 1 /\ L \in Nat
      BY <1>2, <1>3
    <3>2. \A x \in front..(back + L) : g[x] \in Nat
      BY <2>1
    <3>3. \A k \in 1..L : h[k] = g[back + k]
      BY <2>2
    <3> QED
      BY <3>1, <3>2, <3>3, TotalAppends
  <2> QED
    BY <1>1, <1>2, <1>11, <2>3, <2>4, <2>5 DEF g
<1>16. QueueInv'
  <2>1. /\ front' \in Nat \ {0} /\ back' \in Nat /\ front' <= back' + 1
        /\ back' <= Len(memory')
        /\ Len(offered') = Len(wire') + (back' - front' + 1)
    <3>1. /\ Len(wire') = w /\ Len(offered') = N + L /\ back' = back + L /\ front' = front
          /\ back' <= Len(memory')
      BY <1>1, <1>8, <1>9, <1>11 DEF w
    <3>2. /\ w \in Nat /\ N = w + (back - front + 1) /\ L \in Nat
          /\ front \in Nat \ {0} /\ back \in Nat /\ front <= back + 1
      BY <1>2, <1>3
    <3> QED
      BY <3>1, <3>2
  <2>2. wire' \in Seq(Dgram)
    BY <1>1, <1>2
  <2> QED
    BY <1>8, <1>9, <1>12, <1>13, <1>14, <1>15, <2>1, <2>2 DEF QueueInv, Window
<1>17. \A k \in 1..L : memory'[back + k].id = 0
  BY <1>6, <1>8
<1> QED
  BY <1>1, <1>2, <1>9, <1>10, <1>11, <1>16, <1>17 DEF L, N

LEMMA EnqueueRing ==
  ASSUME QueueInv, RingInv, NEW eps \in Seq(Endpoints), NEW n \in Sizes, Enqueue(eps, n),
         RingQuiet
  PROVE  RingInv'
<1> DEFINE L == Len(eps)
<1>1. /\ front' = front /\ back' = back + L /\ L \in Nat
      /\ \A r \in front..back : memory'[r] = memory[r]
      /\ \A k \in 1..L : memory'[back + k].id = 0
  BY EnqueueFacts
<1> HIDE DEF L
<1>2. front \in Nat /\ back \in Nat /\ front <= back + 1
  BY DEF QueueInv
<1>3. /\ \A r \in Window : r \in Window' /\ memory'[r] = memory[r]
      /\ \A r \in Window' : r \notin Window => memory'[r].id = 0
  <2>1. ASSUME NEW r \in Window', r \notin Window PROVE memory'[r].id = 0
    <3>1. r - back \in 1..L /\ back + (r - back) = r
      BY <1>1, <1>2, <2>1 DEF Window
    <3> QED
      BY <1>1, <3>1
  <2> QED
    BY <1>1, <1>2, <2>1 DEF Window
<1>4. \A s, r : r \in Window /\ Belongs(s, r) => r \in Window' /\ Belongs(s, r)'
  BY <1>3 DEF Belongs
<1>5. sends' = sends /\ sends \in Nat
  BY DEF RingQuiet, RingInv
<1>6. \A r \in Window' : memory'[r].id \in 0..sends'
  BY <1>3, <1>5 DEF RingInv
<1>7. ASSUME NEW q \in Window', NEW r \in Window', memory'[q].id = memory'[r].id,
             memory'[q].id > 0
      PROVE  q = r
  <2>1. q \in Window /\ r \in Window
    BY <1>3, <1>7
  <2> QED
    BY <1>3, <1>7, <2>1 DEF RingInv
<1>8. \A s \in Writes(prepared') : s.slot \in Window' /\ Belongs(s, s.slot)'
  BY <1>4 DEF RingInv, RingQuiet
<1>9. \A s \in Writes(inflight') : s \in Writes(inflight)
  BY DEF RingQuiet, Writes
<1>10. \A s \in Writes(inflight') :
         \E r \in Window' : Belongs(s, r)' /\ s.dg = <<memory'[r].dg>>
  BY <1>3, <1>4, <1>9 DEF RingInv
<1>11. \A s \in Writes(prepared'), t \in Writes(inflight') : s.id # t.id
  BY <1>9 DEF RingInv, RingQuiet
<1>12. \A s, t \in Writes(inflight') : s.id = t.id => s = t
  BY <1>9 DEF RingInv
<1> QED
  BY <1>5, <1>6, <1>7, <1>8, <1>10, <1>11, <1>12 DEF RingInv

-----------------------------------------------------------------------------
(* A datagram leaves the queue.                                             *)

LEMMA FirstFacts ==
  ASSUME QueueInv, Queue # <<>> \/ 1 \in DOMAIN Queue
  PROVE  /\ front \in Window /\ front <= back /\ Queue[1] = memory[front]
         /\ Len(Queue) = back - front + 1
<1>1. /\ front \in Nat \ {0} /\ back \in Nat /\ Len(memory) \in Nat /\ back <= Len(memory)
      /\ front <= back + 1 /\ \A k \in 1..Len(memory) : memory[k] \in Slot
  BY QueueTypes DEF QueueInv
<1>2. front \in Int /\ back \in Int /\ \A k \in front..back : memory[k] \in Slot
  BY <1>1
<1>3. /\ Queue \in Seq(Slot) /\ Len(Queue) = IF front <= back THEN back - front + 1 ELSE 0
      /\ \A k \in 1..(back - front + 1) : Queue[k] = memory[front + k - 1]
  <2> DEFINE q == SubSeq(memory, front, back)
  <2>1. /\ q \in Seq(Slot) /\ Len(q) = IF front <= back THEN back - front + 1 ELSE 0
        /\ \A k \in 1..(back - front + 1) : q[k] = memory[front + k - 1]
    BY <1>2, SubSeqProperties
  <2> QED
    BY <2>1 DEF Queue
<1>4. front <= back
  <2> DEFINE q == Queue
  <2>1. q \in Seq(Slot) /\ (q # <<>> \/ 1 \in DOMAIN q)
    BY <1>3
  <2> HIDE DEF q
  <2>2. Len(q) # 0
    BY <2>1, EmptySeq
  <2> QED
    BY <1>3, <2>2 DEF q
<1>5. 1 \in 1..(back - front + 1) /\ front + 1 - 1 = front /\ front \in front..back
  BY <1>1, <1>4
<1> QED
  BY <1>3, <1>4, <1>5 DEF Window

(* erase() of the first element moves nothing. *)
LEMMA EraseFirst ==
  ASSUME QueueInv, front <= back, Len(Queue) = back - front + 1, Erase(1)
  PROVE  /\ \A r \in front..back : memory'[r] = memory[r]
         /\ memory' \in Seq(Slot) /\ Len(memory') = Len(memory)
         /\ front' \in Nat \ {0} /\ back' \in Nat /\ back' <= Len(memory')
         /\ front' <= back' + 1 /\ back' - front' = back - front - 1
         /\ Window' = (front + 1)..back
         /\ \A r \in Window' : front' = front + 1
<1>1. /\ front \in Nat \ {0} /\ back \in Nat /\ Len(memory) \in Nat /\ back <= Len(memory)
      /\ DOMAIN memory = 1..Len(memory) /\ memory \in Seq(Slot)
  BY QueueTypes DEF QueueInv
<1>2. /\ memory' = memory /\ front' \in Nat /\ back' \in Nat
      /\ \/ (front' = front + 1 /\ back' = back)
         \/ (front' = front /\ back' = back - 1 /\ front = back)
  <2>1. CASE 1 - 1 < Len(Queue) \div 2
    <3>1. memory' = [s \in DOMAIN memory |->
                       IF s \in (front + 1)..(front + 1 - 1) THEN memory[s - 1] ELSE memory[s]]
          /\ front' = front + 1 /\ back' = back
      BY <2>1 DEF Erase
    <3>2. (front + 1)..(front + 1 - 1) = {}
      BY <1>1
    <3>3. memory' = [s \in DOMAIN memory |-> memory[s]]
      BY <3>1, <3>2
    <3> QED
      BY <1>1, <3>1, <3>3
  <2>2. CASE ~(1 - 1 < Len(Queue) \div 2)
    <3>1. memory' = [s \in DOMAIN memory |->
                       IF s \in (front + 1 - 1)..(back - 1) THEN memory[s + 1] ELSE memory[s]]
          /\ front' = front /\ back' = back - 1
      BY <2>2 DEF Erase
    <3>2. front = back
      <4> DEFINE m == Len(Queue)
      <4>1. m = back - front + 1 /\ m \in Nat /\ ~(0 < m \div 2)
        BY <1>1, <2>2
      <4> HIDE DEF m
      <4>2. m <= 1
        BY <4>1
      <4> QED
        BY <1>1, <4>1, <4>2
    <3>3. (front + 1 - 1)..(back - 1) = {}
      BY <1>1, <3>2
    <3>4. memory' = [s \in DOMAIN memory |-> memory[s]]
      BY <3>1, <3>3
    <3> QED
      BY <1>1, <3>1, <3>2, <3>4
  <2> QED
    BY <2>1, <2>2
<1>3. /\ front' \in Nat \ {0} /\ back' \in Nat /\ back' <= Len(memory')
      /\ front' <= back' + 1 /\ back' - front' = back - front - 1
      /\ Window' = (front + 1)..back
      /\ \A r \in Window' : front' = front + 1
  <2>1. CASE front' = front + 1 /\ back' = back
    BY <1>1, <1>2, <2>1 DEF Window
  <2>2. CASE front' = front /\ back' = back - 1 /\ front = back
    <3>1. front..(back - 1) = {} /\ (front + 1)..back = {}
      BY <1>1, <2>2
    <3>2. Window' = {}
      BY <2>2, <3>1 DEF Window
    <3> QED
      BY <1>1, <1>2, <2>2, <3>1, <3>2
  <2> QED
    BY <1>2, <2>1, <2>2
<1> QED
  BY <1>1, <1>2, <1>3

LEMMA SentFirst ==
  ASSUME QueueInv, front <= back, Len(Queue) = back - front + 1, Queue[1] = memory[front],
         Written(1), wire' = Append(wire, memory[front].dg)
  PROVE  /\ QueueInv' /\ offered' = offered
         /\ Len(wire) + 1 \in 1..Len(offered)
         /\ wire' = Append(wire, offered[Len(wire) + 1])
<1> DEFINE w == Len(wire)
           d == memory[front].dg
<1>1. /\ Len(offered) \in Nat /\ w \in Nat /\ front \in Nat \ {0} /\ back \in Nat
      /\ Len(offered) = w + (back - front + 1)
      /\ wire \in Seq(Dgram) /\ \A k \in 1..w : wire[k] = offered[k]
      /\ \A r \in Window : /\ memory[r].dg = offered[w + (r - front + 1)]
                           /\ memory[r].hdr = r
  BY QueueTypes DEF QueueInv
<1>2. /\ \A r \in front..back : memory'[r] = memory[r]
      /\ memory' \in Seq(Slot) /\ Len(memory') = Len(memory)
      /\ front' \in Nat \ {0} /\ back' \in Nat /\ back' <= Len(memory')
      /\ front' <= back' + 1 /\ back' - front' = back - front - 1
      /\ Window' = (front + 1)..back
      /\ \A r \in Window' : front' = front + 1
  BY EraseFirst DEF Written
<1>3. offered' = offered /\ enqueued' = enqueued - d.size
  BY DEF Written
<1>4. front \in Window /\ d \in Dgram /\ d.size \in Nat
  BY <1>1, QueueTypes DEF Window
<1>5. d = offered[w + 1] /\ w + 1 \in 1..Len(offered)
  <2>1. w + (front - front + 1) = w + 1 /\ w + 1 \in 1..Len(offered)
    BY <1>1
  <2>2. memory[front].dg = offered[w + (front - front + 1)]
    BY <1>1, <1>4
  <2> QED
    BY <2>1, <2>2
<1> HIDE DEF d, w
<1>6. /\ wire' \in Seq(Dgram) /\ Len(wire') = w + 1 /\ wire'[w + 1] = d
      /\ \A k \in 1..w : wire'[k] = wire[k]
  BY <1>1, <1>4, AppendProperties DEF w, d
<1>7. ASSUME NEW k \in 1..Len(wire') PROVE wire'[k] = offered'[k]
  <2>1. k \in 1..w \/ k = w + 1
    BY <1>1, <1>6
  <2> QED
    BY <1>1, <1>3, <1>5, <1>6, <2>1
<1>8. ASSUME NEW r \in Window'
      PROVE  /\ memory'[r].dg = offered'[Len(wire') + (r - front' + 1)]
             /\ memory'[r].hdr = r
  <2>1. r \in front..back /\ front' = front + 1
    <3>1. r \in (front + 1)..back
      BY <1>2
    <3>2. r \in front..back
      BY <1>1, <3>1
    <3> QED
      BY <1>2, <3>2
  <2>2. r \in Window /\ memory'[r] = memory[r]
    BY <1>2, <2>1 DEF Window
  <2>3. Len(wire') + (r - front' + 1) = w + (r - front + 1)
    BY <1>1, <1>6, <2>1
  <2> QED
    BY <1>1, <1>3, <2>2, <2>3
<1>9. enqueued' = Total(SizesIn(memory'), Window')
  <2> DEFINE g == SizesIn(memory)
             W == Window
             R == (front + 1)..back
  <2>1. /\ IsFiniteSet(W) /\ \A x \in W : g[x] \in Nat
    BY QueueTypes
  <2>2. g[front] = d.size
    BY <1>4, QueueTypes DEF d
  <2>3. W = R \cup {front} /\ R \in SUBSET W /\ front \notin R /\ front \in W
    BY <1>1, <1>4 DEF Window
  <2>4. ASSUME NEW x \in R PROVE SizesIn(memory')[x] = g[x]
    <3>1. x \in Window /\ x \in DOMAIN memory' /\ memory'[x] = memory[x]
      <4>1. x \in front..back /\ x \in 1..Len(memory') /\ DOMAIN memory' = 1..Len(memory')
        BY <1>1, <1>2, QueueTypes DEF QueueInv
      <4> QED
        BY <1>2, <4>1 DEF Window
    <3> QED
      BY <3>1, QueueTypes DEF SizesIn
  <2> HIDE DEF g, W, R
  <2>5. Total(g, R \cup {front}) = Total(g, R) + g[front] /\ Total(g, R) \in Nat
    BY <2>1, <2>3, TotalAdds
  <2>6. Total(SizesIn(memory'), R) = Total(g, R)
    BY <2>4, TotalAgrees
  <2>7. enqueued = Total(g, W)
    BY DEF QueueInv, g, W
  <2>8. enqueued = Total(g, R) + d.size
    BY <2>2, <2>3, <2>5, <2>7
  <2>9. enqueued' = Total(g, R)
    BY <1>3, <1>4, <2>5, <2>8
  <2> QED
    BY <1>2, <2>6, <2>9 DEF R
<1>10. Len(offered') = Len(wire') + (back' - front' + 1)
  <2> DEFINE n == Len(offered)
             f == front'
             b == back'
             v == Len(wire')
  <2>1. /\ n = w + (back - front + 1) /\ n \in Nat /\ w \in Nat /\ front \in Nat /\ back \in Nat
        /\ Len(offered') = n /\ v = w + 1 /\ f \in Nat /\ b \in Nat
        /\ b - f = back - front - 1
    BY <1>1, <1>2, <1>3, <1>6
  <2> HIDE DEF n, f, b, v
  <2>2. n = v + (b - f + 1)
    BY <2>1
  <2> QED
    BY <2>1, <2>2 DEF f, b, v
<1>11. QueueInv'
  <2>1. offered' \in Seq(Dgram) /\ \A k \in 1..Len(offered') : offered'[k].id = k
    BY <1>3 DEF QueueInv
  <2> QED
    BY <1>2, <1>6, <1>7, <1>8, <1>9, <1>10, <2>1 DEF QueueInv
<1> QED
  BY <1>3, <1>5, <1>11 DEF d, w

-----------------------------------------------------------------------------
(* The ring.                                                                *)

(* A change of ids and marks leaves the queue what it is. *)
LEMMA SameDatagrams ==
  ASSUME QueueInv, memory' \in Seq(Slot), Len(memory') = Len(memory),
         \A r \in Window : memory'[r].dg = memory[r].dg /\ memory'[r].hdr = memory[r].hdr,
         UNCHANGED <<offered, front, back, enqueued, wire>>
  PROVE  QueueInv'
<1>1. Window' = Window /\ UNCHANGED offered /\ UNCHANGED front /\ UNCHANGED back
      /\ UNCHANGED enqueued /\ UNCHANGED wire
  BY DEF Window
<1>2. \A r \in Window : /\ memory'[r].dg = offered[Len(wire) + (r - front + 1)]
                        /\ memory'[r].hdr = r
  BY DEF QueueInv
<1>3. Total(SizesIn(memory'), Window) = Total(SizesIn(memory), Window)
  <2>1. ASSUME NEW x \in Window PROVE SizesIn(memory')[x] = SizesIn(memory)[x]
    <3>1. x \in 1..Len(memory) /\ SizesIn(memory)[x] = memory[x].dg.size
      BY QueueTypes
    <3>2. x \in DOMAIN memory'
      BY <3>1
    <3> QED
      BY <3>1, <3>2 DEF SizesIn
  <2> QED
    BY <2>1, TotalAgrees
<1>4. enqueued = Total(SizesIn(memory'), Window)
  BY <1>3 DEF QueueInv
<1> QED
  BY <1>1, <1>2, <1>4 DEF QueueInv

LEMMA RingShrinks ==
  ASSUME QueueInv, RingInv, sends' = sends, prepared' = prepared, inflight' \subseteq inflight,
         \A r \in front..back : memory'[r] = memory[r],
         Window' = (front + 1)..back,
         \A s \in Writes(inflight') : s.id # memory[front].id,
         \A s \in Writes(prepared) : s.id # memory[front].id
  PROVE  RingInv'
<1>1. front \in Nat /\ back \in Nat /\ Window = front..back
  BY DEF QueueInv, Window
<1>2. ASSUME NEW r \in Window' PROVE r \in Window /\ memory'[r] = memory[r]
  <2>1. r \in (front + 1)..back
    OBVIOUS
  <2>2. r \in front..back
    BY <1>1, <2>1
  <2> QED
    BY <1>1, <2>2
<1>3. ASSUME NEW r \in Window, r # front PROVE r \in Window'
  <2>1. r \in front..back
    BY <1>1
  <2>2. r \in (front + 1)..back
    BY <1>1, <1>3, <2>1
  <2> QED
    BY <2>2
<1>4. \A s \in Writes(inflight') : s \in Writes(inflight)
  BY DEF Writes
<1>5. ASSUME NEW s, NEW r \in Window, Belongs(s, r), s.id # memory[front].id
      PROVE  r \in Window' /\ Belongs(s, r)' /\ memory'[r] = memory[r]
  <2>1. r # front
    BY <1>5 DEF Belongs
  <2>2. r \in Window' /\ memory'[r] = memory[r]
    BY <1>2, <1>3, <2>1
  <2> QED
    BY <1>5, <2>2 DEF Belongs
<1>6. sends' \in Nat /\ \A r \in Window' : memory'[r].id \in 0..sends'
  BY <1>2 DEF RingInv
<1>7. \A q, r \in Window' : memory'[q].id = memory'[r].id /\ memory'[q].id > 0 => q = r
  BY <1>2 DEF RingInv
<1>8. \A s \in Writes(prepared') : s.slot \in Window' /\ Belongs(s, s.slot)'
  BY <1>5 DEF RingInv
<1>9. ASSUME NEW s \in Writes(inflight')
      PROVE  \E r \in Window' : Belongs(s, r)' /\ s.dg = <<memory'[r].dg>>
  <2>1. PICK r \in Window : Belongs(s, r) /\ s.dg = <<memory[r].dg>>
    BY <1>4 DEF RingInv
  <2> QED
    BY <1>5, <2>1
<1>10. \A s \in Writes(prepared'), t \in Writes(inflight') : s.id # t.id
  BY <1>4 DEF RingInv
<1>11. \A s, t \in Writes(inflight') : s.id = t.id => s = t
  BY <1>4 DEF RingInv
<1> QED
  BY <1>6, <1>7, <1>8, <1>9, <1>10, <1>11 DEF RingInv

(* What a step with one datagram sent does. *)
SentOne ==
    /\ offered' = offered
    /\ Len(wire) + 1 \in 1..Len(offered)
    /\ wire' = Append(wire, offered[Len(wire) + 1])

LEMMA SendKeeps ==
  ASSUME QueueInv, RingInv, DriverInv, Send
  PROVE  QueueInv' /\ RingInv' /\ SentOne
<1>1. /\ Queue # <<>> /\ wire' = Append(wire, Queue[1].dg) /\ Written(1)
      /\ prepared = {} /\ inflight = {} /\ UNCHANGED <<sends, prepared, inflight>>
  BY DEF Send, DriverInv, ringVars
<1>2. /\ front <= back /\ Queue[1] = memory[front] /\ Len(Queue) = back - front + 1
  BY <1>1, FirstFacts
<1>3. QueueInv' /\ SentOne
  BY <1>1, <1>2, SentFirst DEF SentOne
<1>4. Erase(1)
  BY <1>1 DEF Written
<1>5. (\A r \in front..back : memory'[r] = memory[r]) /\ Window' = (front + 1)..back
  BY <1>2, <1>4, EraseFirst
<1>6. Writes(inflight') = {} /\ Writes(prepared) = {}
  BY <1>1 DEF Writes
<1>7. RingInv'
  BY <1>1, <1>5, <1>6, RingShrinks
<1> QED
  BY <1>3, <1>7

(* Whose the completion of a sendmsg() is. *)
LEMMA OwnElement ==
  ASSUME QueueInv, RingInv, NEW s \in Writes(inflight), NEW k \in ElementOf(s)
  PROVE  /\ front + k - 1 \in Window /\ Belongs(s, front + k - 1)
         /\ s.dg = <<memory[front + k - 1].dg>>
<1>1. k \in DOMAIN Queue /\ Queue[k].id = s.id
  BY DEF ElementOf
<1>2. /\ front \in Nat \ {0} /\ back \in Nat /\ Len(memory) \in Nat /\ back <= Len(memory)
      /\ front <= back + 1 /\ \A i \in 1..Len(memory) : memory[i] \in Slot
  BY QueueTypes DEF QueueInv
<1>3. front \in Int /\ back \in Int /\ \A i \in front..back : memory[i] \in Slot
  BY <1>2
<1>4. /\ Queue \in Seq(Slot) /\ Len(Queue) = IF front <= back THEN back - front + 1 ELSE 0
      /\ \A i \in 1..(back - front + 1) : Queue[i] = memory[front + i - 1]
  <2> DEFINE q == SubSeq(memory, front, back)
  <2>1. /\ q \in Seq(Slot) /\ Len(q) = IF front <= back THEN back - front + 1 ELSE 0
        /\ \A i \in 1..(back - front + 1) : q[i] = memory[front + i - 1]
    BY <1>3, SubSeqProperties
  <2> QED
    BY <2>1 DEF Queue
<1>5. k \in 1..(back - front + 1)
  BY <1>1, <1>2, <1>4
<1>6. front + k - 1 \in Window /\ memory[front + k - 1].id = s.id
  BY <1>1, <1>2, <1>4, <1>5 DEF Window
<1>7. PICK r \in Window : Belongs(s, r) /\ s.dg = <<memory[r].dg>>
  BY DEF RingInv
<1>8. r = front + k - 1
  <2> DEFINE i == front + k - 1
  <2>1. i \in Window /\ memory[i].id = s.id /\ memory[r].id = s.id /\ s.id > 0
    BY <1>6, <1>7 DEF Belongs
  <2> HIDE DEF i
  <2>2. memory[r].id = memory[i].id /\ memory[r].id > 0
    BY <2>1
  <2>3. r = i
    BY <2>1, <2>2 DEF RingInv
  <2> QED
    BY <2>3 DEF i
<1> QED
  BY <1>7, <1>8

LEMMA SendCompletesKeeps ==
  ASSUME Reordering = FALSE, QueueInv, RingInv, SendCompletes
  PROVE  QueueInv' /\ RingInv' /\ SentOne
<1>1. PICK s \in inflight :
        /\ Completing(s) /\ ElementOf(s) = {1}
        /\ wire' = Append(wire, s.dg[1])
        /\ \E k \in ElementOf(s) :
             IF s.dg[1].size < Queue[k].dg.size
             THEN UNCHANGED <<offered, memory, front, back, enqueued, cached>>
             ELSE Written(k)
        /\ UNCHANGED <<sends, prepared>>
  BY Zenon DEF SendCompletes
<1>2. s \in Writes(inflight) /\ inflight' = inflight \ {s}
  BY <1>1 DEF Completing, Submitted, Writes
<1>3. 1 \in DOMAIN Queue
  BY <1>1 DEF ElementOf
<1>4. /\ front \in Window /\ front <= back /\ Queue[1] = memory[front]
      /\ Len(Queue) = back - front + 1
  BY <1>3, FirstFacts
<1>5. Belongs(s, front) /\ s.dg = <<memory[front].dg>>
  <2>1. 1 \in ElementOf(s) /\ front + 1 - 1 = front
    BY <1>1 DEF QueueInv
  <2>2. Belongs(s, front + 1 - 1) /\ s.dg = <<memory[front + 1 - 1].dg>>
    BY <1>2, <2>1, OwnElement
  <2> QED
    BY <2>1, <2>2
<1>6. s.dg[1] = memory[front].dg /\ memory[front].dg.size \in Nat
  BY <1>4, <1>5, QueueTypes
<1>7. Written(1) /\ wire' = Append(wire, memory[front].dg)
  <2>1. ~(s.dg[1].size < Queue[1].dg.size)
    BY <1>4, <1>6
  <2> QED
    BY <1>1, <1>6, <2>1
<1>8. QueueInv' /\ SentOne
  BY <1>4, <1>7, SentFirst DEF SentOne
<1>9. Erase(1)
  BY <1>7 DEF Written
<1>10. (\A r \in front..back : memory'[r] = memory[r]) /\ Window' = (front + 1)..back
  BY <1>4, <1>9, EraseFirst
<1>11. memory[front].id = s.id
  BY <1>5 DEF Belongs
<1>12. \A t \in Writes(inflight') : t.id # memory[front].id
  <2>1. \A t \in Writes(inflight') : t \in Writes(inflight) /\ t # s
    BY <1>2 DEF Writes
  <2> QED
    BY <1>2, <1>11, <2>1 DEF RingInv
<1>13. \A t \in Writes(prepared) : t.id # memory[front].id
  BY <1>2, <1>11 DEF RingInv
<1>14. RingInv'
  BY <1>1, <1>2, <1>10, <1>12, <1>13, RingShrinks
<1> QED
  BY <1>8, <1>14

(* submit_datagrams(): the elements that are not under way get new ids.     *)
LEMMA SubmitKeeps ==
  ASSUME QueueInv, RingInv, SubmitDatagrams
  PROVE  QueueInv' /\ RingInv'
<1> DEFINE F == NotSubmitted
           M == memory'
           I(s) == sends + Rank(F, s)
<1>1. /\ M = [s \in DOMAIN memory |->
                IF s \in F THEN [memory[s] EXCEPT !.id = I(s), !.busy = TRUE] ELSE memory[s]]
      /\ prepared' = prepared \cup {Submission("write", s, I(s)) : s \in F}
      /\ sends' = sends + Cardinality(F)
      /\ UNCHANGED <<offered, front, back, enqueued, wire, inflight>>
  BY DEF SubmitDatagrams, Rank
<1>2. /\ Len(memory) \in Nat /\ DOMAIN memory = 1..Len(memory) /\ Window \subseteq 1..Len(memory)
      /\ \A r \in 1..Len(memory) : memory[r] \in Slot
      /\ IsFiniteSet(Window) /\ sends \in Nat
  BY QueueTypes DEF RingInv
<1>3. F \subseteq Window /\ \A r \in Window : r \notin F <=> memory[r].busy
  BY DEF NotSubmitted, Window
<1>4. F \in SUBSET Nat /\ IsFiniteSet(F)
  <2>1. \A r \in 1..Len(memory) : r \in Nat
    BY <1>2
  <2> HIDE DEF F
  <2> QED
    BY <1>2, <1>3, <2>1, FS_Subset
<1> HIDE DEF F
<1>5. /\ Cardinality(F) \in Nat
      /\ \A k \in F : I(k) \in Nat /\ I(k) > sends /\ I(k) <= sends + Cardinality(F)
      /\ \A j, k \in F : I(j) = I(k) => j = k
  <2>1. /\ Cardinality(F) \in Nat
        /\ \A k \in Nat : Rank(F, k) \in Nat /\ Rank(F, k) <= Cardinality(F)
        /\ \A k \in F : Rank(F, k) > 0
        /\ \A j, k \in F : j < k => Rank(F, j) < Rank(F, k)
    BY <1>4, RankFacts
  <2>2. ASSUME NEW k \in F
        PROVE  I(k) \in Nat /\ I(k) > sends /\ I(k) <= sends + Cardinality(F)
    <3> DEFINE a == Rank(F, k)
               c == Cardinality(F)
    <3>1. a \in Nat /\ c \in Nat /\ a > 0 /\ a <= c /\ sends \in Nat /\ I(k) = sends + a
      BY <1>2, <1>4, <2>1
    <3> HIDE DEF a, c, I
    <3>2. I(k) \in Nat /\ I(k) > sends /\ I(k) <= sends + c
      BY <3>1
    <3> QED
      BY <3>2 DEF c
  <2>3. ASSUME NEW j \in F, NEW k \in F, I(j) = I(k) PROVE j = k
    <3>1. Rank(F, j) = Rank(F, k) /\ Rank(F, j) \in Nat /\ j \in Nat /\ k \in Nat
      BY <1>2, <1>4, <2>1, <2>3
    <3>2. ~(j < k) /\ ~(k < j)
      BY <2>1, <3>1
    <3> QED
      BY <3>1, <3>2
  <2> QED
    BY <2>1, <2>2, <2>3
<1> HIDE DEF I
<1>6. ASSUME NEW r \in 1..Len(memory)
      PROVE  /\ M[r] \in Slot /\ M[r].dg = memory[r].dg /\ M[r].hdr = memory[r].hdr
             /\ r \in F => M[r].id = I(r) /\ M[r].busy
             /\ r \notin F => M[r] = memory[r]
  <2>1. memory[r] \in Slot /\ (r \in F => I(r) \in Nat)
    BY <1>2, <1>5
  <2> QED
    BY <1>1, <1>2, <2>1 DEF Slot
<1>7. M \in Seq(Slot) /\ Len(M) = Len(memory)
  <2>1. M \in [1..Len(memory) -> Slot]
    BY <1>1, <1>2, <1>6
  <2> HIDE DEF M
  <2> QED
    BY <1>2, <2>1, SeqDef
<1>8. Window' = Window /\ \A r \in Window : r \in 1..Len(memory)
  BY <1>1, <1>2 DEF Window
<1>9. QueueInv'
  BY <1>1, <1>6, <1>7, <1>8, SameDatagrams
<1>10. \A s, r : r \in Window /\ Belongs(s, r) => Belongs(s, r)' /\ M[r] = memory[r]
  BY <1>3, <1>6, <1>8 DEF Belongs
<1>11. \A s \in Writes(prepared') :
         \/ s \in Writes(prepared)
         \/ \E r \in F : s = Submission("write", r, I(r))
  BY <1>1 DEF Writes
<1>12. \A s \in Writes(prepared') : s.slot \in Window' /\ Belongs(s, s.slot)'
  <2>1. ASSUME NEW s \in Writes(prepared) PROVE s.slot \in Window' /\ Belongs(s, s.slot)'
    BY <1>8, <1>10 DEF RingInv
  <2>2. ASSUME NEW r \in F, NEW s, s = Submission("write", r, I(r))
        PROVE  s.slot \in Window' /\ Belongs(s, s.slot)'
    <3>1. r \in Window /\ M[r].id = I(r) /\ M[r].busy /\ I(r) > 0
      BY <1>2, <1>3, <1>5, <1>6, <1>8
    <3>2. s.slot = r /\ s.id = I(r)
      BY <2>2 DEF Submission
    <3> QED
      BY <1>8, <3>1, <3>2 DEF Belongs
  <2> QED
    BY <1>11, <2>1, <2>2
<1>13. \A s \in Writes(inflight') :
         \E r \in Window' : Belongs(s, r)' /\ s.dg = <<memory'[r].dg>>
  <2>1. ASSUME NEW s \in Writes(inflight)
        PROVE  \E r \in Window' : Belongs(s, r)' /\ s.dg = <<memory'[r].dg>>
    <3>1. PICK r \in Window : Belongs(s, r) /\ s.dg = <<memory[r].dg>>
      BY DEF RingInv
    <3>2. Belongs(s, r)' /\ M[r] = memory[r]
      BY <1>10, <3>1
    <3> QED
      BY <1>8, <3>1, <3>2
  <2> QED
    BY <1>1, <2>1
<1>14. sends' \in Nat /\ \A r \in Window' : memory'[r].id \in 0..sends'
  <2> DEFINE c == Cardinality(F)
             n == sends'
  <2>1. c \in Nat /\ sends \in Nat /\ n = sends + c
    BY <1>1, <1>2, <1>5
  <2>2. ASSUME NEW r \in Window PROVE M[r].id \in 0..n
    <3>1. CASE r \in F
      <4>1. M[r].id = I(r) /\ I(r) \in Nat /\ I(r) <= sends + c
        BY <1>5, <1>6, <1>8, <3>1
      <4> HIDE DEF n, c, M
      <4> QED
        BY <2>1, <4>1
    <3>2. CASE r \notin F
      <4>1. M[r].id \in 0..sends
        BY <1>6, <1>8, <3>2 DEF RingInv
      <4> HIDE DEF n, c, M
      <4> QED
        BY <2>1, <4>1
    <3> QED
      BY <3>1, <3>2
  <2>3. sends' \in Nat
    <3> HIDE DEF n, c
    <3>1. n \in Nat
      BY <2>1
    <3> QED
      BY <3>1 DEF n
  <2> QED
    BY <1>8, <2>2, <2>3
<1>15. ASSUME NEW q \in Window, NEW r \in Window, M[q].id = M[r].id, M[q].id > 0
       PROVE  q = r
  <2>1. \A x \in Window : x \notin F => memory[x].id \in Nat /\ memory[x].id <= sends
                                        /\ M[x].id = memory[x].id
    BY <1>2, <1>6, <1>8 DEF RingInv
  <2>2. \A x \in F : M[x].id = I(x) /\ I(x) \in Nat /\ I(x) > sends
    BY <1>3, <1>5, <1>6, <1>8
  <2>3. (q \in F) = (r \in F)
    BY <1>2, <1>15, <2>1, <2>2
  <2>4. CASE q \in F /\ r \in F
    BY <1>5, <1>15, <2>2, <2>4
  <2>5. CASE q \notin F /\ r \notin F
    BY <1>15, <2>1, <2>5 DEF RingInv
  <2> QED
    BY <2>3, <2>4, <2>5
<1>16. ASSUME NEW s \in Writes(prepared'), NEW t \in Writes(inflight')
       PROVE  s.id # t.id
  <2>1. t \in Writes(inflight)
    BY <1>1
  <2>2. PICK r \in Window : Belongs(t, r)
    BY <2>1 DEF RingInv
  <2>3. t.id \in 0..sends
    BY <2>2 DEF Belongs, RingInv
  <2>4. CASE s \in Writes(prepared)
    BY <2>1, <2>4 DEF RingInv
  <2>5. ASSUME NEW x \in F, s = Submission("write", x, I(x)) PROVE s.id # t.id
    <3>1. s.id = I(x) /\ I(x) \in Nat /\ I(x) > sends
      BY <1>5, <2>5 DEF Submission
    <3> QED
      BY <1>2, <2>3, <3>1
  <2> QED
    BY <1>11, <2>4, <2>5
<1>17. \A s, t \in Writes(inflight') : s.id = t.id => s = t
  BY <1>1 DEF RingInv
<1>18. \A q, r \in Window' : memory'[q].id = memory'[r].id /\ memory'[q].id > 0 => q = r
  BY <1>8, <1>15
<1> QED
  BY <1>9, <1>12, <1>13, <1>14, <1>16, <1>17, <1>18 DEF RingInv

(* The kernel reads the headers: each is in the slot of its own element. *)
LEMMA EnterKeeps ==
  ASSUME QueueInv, RingInv, Enter
  PROVE  QueueInv' /\ RingInv'
<1> DEFINE sqe(s) == [op |-> s.op, id |-> s.id,
                      dg |-> IF s.op = "write" THEN <<Header(s.slot)>> ELSE <<>>]
<1>1. /\ inflight' = inflight \cup {sqe(s) : s \in prepared}
      /\ prepared' = {} /\ sends' = sends
      /\ UNCHANGED <<offered, memory, front, back, enqueued, wire>>
  BY DEF Enter, queueVars
<1>2. Window' = Window /\ QueueInv'
  <2>1. Window' = Window
    BY <1>1 DEF Window
  <2> QED
    BY <1>1, <2>1 DEF QueueInv
<1>3. \A s, r : Belongs(s, r)' <=> Belongs(s, r)
  BY <1>1 DEF Belongs
<1>4. ASSUME NEW s \in Writes(prepared)
      PROVE  /\ s.slot \in Window /\ Belongs(sqe(s), s.slot)
             /\ sqe(s) = [op |-> "write", id |-> s.id, dg |-> <<memory[s.slot].dg>>]
  <2>1. s.slot \in Window /\ Belongs(s, s.slot) /\ s.op = "write"
    BY DEF RingInv, Writes
  <2>2. Header(s.slot) = memory[s.slot].dg
    BY <2>1 DEF Header, QueueInv
  <2>3. sqe(s) = [op |-> "write", id |-> s.id, dg |-> <<memory[s.slot].dg>>]
    BY <2>1, <2>2
  <2> HIDE DEF sqe
  <2> QED
    BY <2>1, <2>3 DEF Belongs
<1>5. ASSUME NEW t \in Writes(inflight'), t \notin Writes(inflight)
      PROVE  \E s \in Writes(prepared) : t = sqe(s)
  <2>1. PICK s \in prepared : t = sqe(s)
    BY <1>1, <1>5 DEF Writes
  <2>2. s.op = "write"
    BY <2>1 DEF Writes
  <2> QED
    BY <2>1, <2>2 DEF Writes
<1> HIDE DEF sqe
<1>6. \A t \in Writes(inflight') :
         \E r \in Window : Belongs(t, r) /\ t.dg = <<memory[r].dg>>
  BY <1>4, <1>5 DEF RingInv
<1>7. ASSUME NEW s \in Writes(inflight'), NEW t \in Writes(inflight'), s.id = t.id
      PROVE  s = t
  <2>1. CASE s \in Writes(inflight) /\ t \in Writes(inflight)
    BY <1>7, <2>1 DEF RingInv
  <2>2. ASSUME NEW x \in Writes(inflight), NEW y \in Writes(prepared) PROVE x.id # sqe(y).id
    <3>1. sqe(y).id = y.id
      BY <1>4
    <3> QED
      BY <3>1 DEF RingInv
  <2>3. ASSUME NEW x \in Writes(prepared), NEW y \in Writes(prepared), sqe(x).id = sqe(y).id
        PROVE  sqe(x) = sqe(y)
    <3>1. x.id = y.id
      BY <1>4, <2>3
    <3>2. x.slot = y.slot
      <4>1. /\ x.slot \in Window /\ Belongs(x, x.slot)
            /\ y.slot \in Window /\ Belongs(y, y.slot)
        BY DEF RingInv
      <4> QED
        BY <3>1, <4>1 DEF RingInv, Belongs
    <3> QED
      BY <1>4, <3>1, <3>2
  <2> QED
    BY <1>5, <1>7, <2>1, <2>2, <2>3
<1>8. Writes(prepared') = {}
  BY <1>1 DEF Writes
<1>9. \A s \in Writes(inflight') :
         \E r \in Window' : Belongs(s, r)' /\ s.dg = <<memory'[r].dg>>
  BY <1>1, <1>2, <1>3, <1>6
<1> QED
  BY <1>1, <1>2, <1>7, <1>8, <1>9 DEF RingInv

(* A completion with an error: the element is to be submitted anew. *)
LEMMA SendErrorKeeps ==
  ASSUME QueueInv, RingInv, SendError
  PROVE  QueueInv' /\ RingInv'
<1>1. PICK s \in inflight :
        /\ Completing(s)
        /\ \/ /\ \E k \in ElementOf(s) : memory' = Unsubmitted(k)
              /\ prepared' = prepared \cup {Submission("poll_write", 0, s.id)}
           \/ UNCHANGED <<memory, prepared>>
        /\ UNCHANGED <<offered, front, back, enqueued, wire, sends>>
  BY Zenon DEF SendError
<1>2. s \in Writes(inflight) /\ inflight' = inflight \ {s}
  BY <1>1 DEF Completing, Submitted, Writes
<1>3. Window' = Window
  BY <1>1 DEF Window
<1>4. Writes(prepared') = Writes(prepared)
  BY <1>1 DEF Writes, Submission
<1>5. \A t \in Writes(inflight') : t \in Writes(inflight) /\ t # s
  BY <1>2 DEF Writes
<1>6. /\ Len(memory) \in Nat /\ DOMAIN memory = 1..Len(memory) /\ memory \in Seq(Slot)
      /\ Window \subseteq 1..Len(memory) /\ \A r \in 1..Len(memory) : memory[r] \in Slot
  BY QueueTypes DEF QueueInv
<1>7. \E j : /\ memory' = memory \/ memory' = [memory EXCEPT ![j].busy = FALSE]
             /\ memory' = memory \/ (j \in Window /\ memory[j].id = s.id)
  <2>1. CASE memory' = memory
    BY <2>1
  <2>2. ASSUME NEW k \in ElementOf(s), memory' = Unsubmitted(k)
        PROVE  \E j : memory' = [memory EXCEPT ![j].busy = FALSE]
                      /\ j \in Window /\ memory[j].id = s.id
    <3>1. front + k - 1 \in Window /\ Belongs(s, front + k - 1)
      BY <1>2, OwnElement
    <3> QED
      BY <2>2, <3>1 DEF Unsubmitted, Belongs
  <2> QED
    BY <1>1, <2>1, <2>2
<1>8. PICK j : /\ memory' = memory \/ memory' = [memory EXCEPT ![j].busy = FALSE]
               /\ memory' = memory \/ (j \in Window /\ memory[j].id = s.id)
  BY <1>7
<1> DEFINE M == memory'
<1>9. ASSUME NEW r \in 1..Len(memory)
      PROVE  /\ M[r] \in Slot /\ M[r].dg = memory[r].dg /\ M[r].hdr = memory[r].hdr
             /\ M[r].id = memory[r].id
             /\ memory[r].id # s.id => M[r].busy = memory[r].busy
  <2>1. memory[r] \in Slot
    BY <1>6
  <2>2. CASE memory' = memory
    BY <2>1, <2>2
  <2>3. CASE memory' = [memory EXCEPT ![j].busy = FALSE] /\ memory[j].id = s.id
    BY <1>6, <2>1, <2>3 DEF Slot
  <2> QED
    BY <1>8, <2>2, <2>3
<1>10. M \in Seq(Slot) /\ Len(M) = Len(memory)
  <2>1. M \in [1..Len(memory) -> Slot]
    <3>1. DOMAIN M = 1..Len(memory) /\ M = [r \in 1..Len(memory) |-> M[r]]
      BY <1>6, <1>8
    <3> QED
      BY <1>9, <3>1
  <2> HIDE DEF M
  <2> QED
    BY <1>6, <2>1, SeqDef
<1>11. \A r \in Window : r \in 1..Len(memory)
  BY <1>6
<1>12. QueueInv'
  BY <1>1, <1>9, <1>10, <1>11, SameDatagrams
<1>13. \A t, r : r \in Window /\ Belongs(t, r) /\ t.id # s.id => Belongs(t, r)'
  BY <1>9, <1>11 DEF Belongs
<1>14. \A t \in Writes(prepared') : t.slot \in Window' /\ Belongs(t, t.slot)'
  BY <1>2, <1>3, <1>4, <1>13 DEF RingInv
<1>15. \A t \in Writes(inflight') : t.id # s.id
  BY <1>2, <1>5 DEF RingInv
<1>16. \A t \in Writes(inflight') :
         \E r \in Window' : Belongs(t, r)' /\ t.dg = <<memory'[r].dg>>
  BY <1>3, <1>5, <1>9, <1>11, <1>13, <1>15 DEF RingInv
<1>17. sends' \in Nat /\ \A r \in Window' : memory'[r].id \in 0..sends'
  BY <1>1, <1>3, <1>9, <1>11 DEF RingInv
<1>18. \A q, r \in Window' : memory'[q].id = memory'[r].id /\ memory'[q].id > 0 => q = r
  BY <1>3, <1>9, <1>11 DEF RingInv
<1>19. \A t \in Writes(prepared'), u \in Writes(inflight') : t.id # u.id
  BY <1>4, <1>5 DEF RingInv
<1>20. \A t, u \in Writes(inflight') : t.id = u.id => t = u
  BY <1>5 DEF RingInv
<1> QED
  BY <1>12, <1>14, <1>16, <1>17, <1>18, <1>19, <1>20 DEF RingInv

-----------------------------------------------------------------------------
(* All steps.                                                               *)

(* The steps that may change the queue or the submissions of sendmsg().     *)
Enqueues == \E eps \in Seq(Endpoints), n \in Sizes : Enqueue(eps, n)

QueueKept == UNCHANGED <<offered, memory, front, back, enqueued, wire>>

Changes == Send \/ SendCompletes \/ SubmitDatagrams \/ Enter \/ SendError

LEMMA RearmQuiet ==
  ASSUME Rearm
  PROVE  Writes(prepared') = Writes(prepared)
BY DEF Rearm, Writes, Submission

LEMMA ReadQuiet ==
  ASSUME Read, sends' = sends, prepared' = prepared \/ Rearm
  PROVE  RingQuiet
BY RearmQuiet DEF RingQuiet, Read

LEMMA ReplyEnqueues ==
  ASSUME NEW e \in Endpoints, NEW p, Reply(e, p)
  PROVE  Enqueues
<1>1. PICK n \in Sizes : Enqueue(<<e>>, n)
  BY DEF Reply
<1>2. <<e>> \in Seq(Endpoints)
  OBVIOUS
<1> QED
  BY <1>1, <1>2 DEF Enqueues

LEMMA Steps ==
  ASSUME AppInv, [Next]_vars
  PROVE  Changes \/ (RingQuiet /\ (Enqueues \/ QueueKept))
<1> USE DEF QueueKept
<1>1. CASE ringVars' = ringVars /\ queueVars' = queueVars
  BY <1>1 DEF ringVars, queueVars, RingQuiet
<1>2. CASE ReadPart
  <2>1. Read /\ sends' = sends /\ Rearm /\ queueVars' = queueVars
    BY <1>2 DEF ReadPart
  <2> QED
    BY <2>1, ReadQuiet DEF queueVars
<1>3. CASE ConsumeFails
  <2>1. Read /\ sends' = sends /\ prepared' = prepared /\ queueVars' = queueVars
    BY <1>3 DEF ConsumeFails
  <2> QED
    BY <2>1, ReadQuiet DEF queueVars
<1>4. CASE Consume
  <2> DEFINE e == LayerOf(Datagram.ep)
  <2>1. Read /\ sends' = sends /\ Rearm
    BY <1>4 DEF Consume
  <2>2. queueVars' = queueVars \/ Reply(e, ReadAgain)
    BY <1>4 DEF Consume
  <2>3. e \in Endpoints
    BY <2>1, DatagramFacts DEF LayerOf
  <2> HIDE DEF e
  <2> QED
    BY <2>1, <2>2, <2>3, ReadQuiet, ReplyEnqueues DEF queueVars
<1>5. CASE Produce
  <2>1. PICK n \in Sizes : Enqueue(Producers, n)
    BY <1>5 DEF Produce
  <2>2. Enqueues
    BY <2>1, ProducersFacts DEF Enqueues
  <2>3. ringVars' = ringVars
    BY <1>5 DEF Produce
  <2> QED
    BY <2>2, <2>3 DEF ringVars, RingQuiet
<1>6. CASE ReadError
  <2>1. /\ sends' = sends /\ queueVars' = queueVars /\ inflight' \subseteq inflight
        /\ \/ prepared' = prepared \cup {Submission("poll_read", 0, 0)}
           \/ prepared' = prepared
    BY <1>6 DEF ReadError
  <2>2. Writes(prepared') = Writes(prepared)
    BY <2>1 DEF Writes, Submission
  <2> QED
    BY <2>1, <2>2 DEF queueVars, RingQuiet
<1>7. CASE PollCompletes
  <2>1. /\ sends' = sends /\ queueVars' = queueVars /\ inflight' \subseteq inflight
        /\ Rearm \/ prepared' = prepared
    BY <1>7 DEF PollCompletes
  <2> QED
    BY <2>1, RearmQuiet DEF queueVars, RingQuiet
<1>8. CASE HandleTimeout
  <2>1. ringVars' = ringVars
    BY <1>8 DEF HandleTimeout
  <2>2. PICK id \in due : queueVars' = queueVars \/ Reply(timeouts[id], "idle")
    BY <1>8 DEF HandleTimeout
  <2>3. timeouts[id] \in Endpoints
    BY DEF AppInv
  <2> QED
    BY <2>1, <2>2, <2>3, ReplyEnqueues DEF queueVars, ringVars, RingQuiet
<1> QED
  BY <1>1, <1>2, <1>3, <1>4, <1>5, <1>6, <1>7, <1>8 DEF Next, ReadEvent, ReadHandler,
     ReadStops, WriteEvent, WriteHandler, WriteDone, StartSending, SendWouldBlock,
     SendFails, SendNext, PeerSend, Quiet, vars, Changes

LEMMA DriverStep ==
  ASSUME DriverInv, [Next]_vars
  PROVE  DriverInv'
<1>1. driver' = driver
  BY DEF Next, ReadEvent, ReadHandler, ReadStops, ReadPart, Consume, ConsumeFails, ReadError,
     WriteEvent, WriteHandler, Produce, WriteDone, StartSending, SendWouldBlock,
     SendFails, SendNext, SubmitDatagrams, Send, Enter, SendCompletes, SendError,
     PollCompletes, HandleTimeout, PeerSend, Quiet, vars
<1>2. phase' = "send" => phase = "send" \/ driver = "event"
  <2>1. ASSUME ReadPart \/ Consume, driver # "event" PROVE phase' # "send"
    BY <2>1 DEF ReadPart, Consume, ReadAgain, Reply, RegisterWriting
  <2>2. CASE HandleTimeout
    BY <2>2 DEF HandleTimeout, Reply, RegisterWriting
  <2>3. CASE UNCHANGED phase \/ phase' \in {"idle", "read", "fetch"}
    BY <2>3
  <2>4. CASE SendCompletes
    BY <2>4 DEF SendCompletes, Completing
  <2> QED
    BY <2>1, <2>2, <2>3, <2>4 DEF Next, ReadEvent, ReadHandler, ReadStops, ConsumeFails,
       ReadError, WriteEvent, WriteHandler, Produce, WriteDone, StartSending, SendWouldBlock,
       SendFails, SendNext, SubmitDatagrams, Send, Enter, SendError,
       PollCompletes, PeerSend, Quiet, vars, loopVars
<1>3. ASSUME driver = "event", prepared = {}, inflight = {}
      PROVE  prepared' = {} /\ inflight' = {}
  <2>1. ~(\E s \in inflight : TRUE) /\ ~ReadError /\ ~SubmitDatagrams /\ ~Enter
    BY <1>3 DEF ReadError, Submitted, SubmitDatagrams, Enter
  <2>2. ~SendCompletes /\ ~SendError /\ ~PollCompletes
    BY <2>1 DEF SendCompletes, SendError, PollCompletes
  <2>3. CASE UNCHANGED <<prepared, inflight>>
    BY <1>3, <2>3
  <2>4. ASSUME Read, prepared' = prepared \/ Rearm PROVE prepared' = {} /\ inflight' = {}
    BY <1>3, <2>4 DEF Read, Rearm
  <2> QED
    BY <2>1, <2>2, <2>3, <2>4 DEF Next, ReadEvent, ReadHandler, ReadStops, ReadPart, Consume,
       ConsumeFails, WriteEvent, WriteHandler, Produce, WriteDone, StartSending,
       SendWouldBlock, SendFails, SendNext, Send, HandleTimeout, PeerSend, Quiet, vars, ringVars
<1> QED
  BY <1>1, <1>2, <1>3 DEF DriverInv

LEMMA KeptKeeps ==
  ASSUME QueueInv, RingInv, RingQuiet, QueueKept
  PROVE  QueueInv' /\ RingInv'
<1>1. /\ Window' = Window /\ memory' = memory
      /\ UNCHANGED <<offered, front, back, enqueued, wire>>
  BY DEF QueueKept, Window
<1>2. QueueInv'
  BY <1>1 DEF QueueInv
<1>3. \A s, r : Belongs(s, r)' <=> Belongs(s, r)
  BY <1>1 DEF Belongs
<1>4. \A s \in Writes(inflight') : s \in Writes(inflight)
  BY DEF RingQuiet, Writes
<1>5. \A s \in Writes(inflight') :
         \E r \in Window' : Belongs(s, r)' /\ s.dg = <<memory'[r].dg>>
  BY <1>1, <1>3, <1>4 DEF RingInv
<1>6. Writes(prepared') = Writes(prepared) /\ sends' = sends
  BY DEF RingQuiet
<1>7. /\ \A s \in Writes(prepared') : s.slot \in Window' /\ Belongs(s, s.slot)'
      /\ \A s \in Writes(prepared'), t \in Writes(inflight') : s.id # t.id
      /\ \A s, t \in Writes(inflight') : s.id = t.id => s = t
  BY <1>1, <1>3, <1>4, <1>6 DEF RingInv
<1> QED
  BY <1>1, <1>2, <1>5, <1>6, <1>7 DEF RingInv

LEMMA InvStep ==
  ASSUME Reordering = FALSE, Inv, [Next]_vars
  PROVE  Inv'
<1>1. AppInv /\ QueueInv /\ RingInv /\ DriverInv
  BY DEF Inv
<1>2. AppInv' /\ DriverInv'
  BY <1>1, AppStep, DriverStep
<1>3. CASE Send
  BY <1>1, <1>2, <1>3, SendKeeps DEF Inv
<1>4. CASE SendCompletes
  BY <1>1, <1>2, <1>4, SendCompletesKeeps DEF Inv
<1>5. CASE SubmitDatagrams
  BY <1>1, <1>2, <1>5, SubmitKeeps DEF Inv
<1>6. CASE Enter
  BY <1>1, <1>2, <1>6, EnterKeeps DEF Inv
<1>7. CASE SendError
  BY <1>1, <1>2, <1>7, SendErrorKeeps DEF Inv
<1>8. CASE RingQuiet /\ QueueKept
  BY <1>1, <1>2, <1>8, KeptKeeps DEF Inv
<1>9. CASE RingQuiet /\ Enqueues
  <2>1. PICK eps \in Seq(Endpoints), n \in Sizes : Enqueue(eps, n)
    BY <1>9 DEF Enqueues
  <2>2. QueueInv'
    BY <1>1, <2>1, EnqueueFacts
  <2>3. RingInv'
    BY <1>1, <1>9, <2>1, EnqueueRing
  <2> QED
    BY <1>2, <2>2, <2>3 DEF Inv
<1> QED
  BY <1>1, <1>3, <1>4, <1>5, <1>6, <1>7, <1>8, <1>9, Steps DEF Changes

LEMMA InvInit ==
  ASSUME Init
  PROVE  Inv
<1>1. AppInv
  <2>1. arrived = <<>> /\ taken = 0 /\ layers = <<>> /\ timeouts = <<>> /\ due = {}
    BY DEF Init
  <2> QED
    BY <2>1 DEF AppInv
<1>2. /\ offered = <<>> /\ memory = <<>> /\ front = 1 /\ back = 0 /\ enqueued = 0 /\ wire = <<>>
      /\ sends = 0 /\ inflight = {}
  BY DEF Init
<1>3. Window = {}
  BY <1>2 DEF Window
<1>4. QueueInv
  <2>1. Total(SizesIn(memory), {}) = 0
    BY FS_EmptySet, TotalAdds
  <2> QED
    BY <1>2, <1>3, <2>1 DEF QueueInv
<1>5. prepared = {} \/ prepared = {[op |-> "read", slot |-> 0, id |-> 0]}
  BY DEF Init
<1>6. Writes(prepared) = {} /\ Writes(inflight) = {}
  BY <1>2, <1>5 DEF Writes
<1>7. RingInv
  BY <1>2, <1>3, <1>6 DEF RingInv
<1>8. DriverInv
  BY DEF Init, DriverInv
<1> QED
  BY <1>1, <1>4, <1>7, <1>8 DEF Inv

LEMMA InvHolds ==
  ASSUME Reordering = FALSE
  PROVE  Spec => []Inv
<1>1. Inv /\ [Next]_vars => Inv'
  BY InvStep
<1> QED
  BY <1>1, InvInit, PTL DEF Spec

-----------------------------------------------------------------------------
(* handle_write_result() erases the datagram that was sent, and the counts  *)
(* of the queue are right, for any number of endpoints, datagrams and sends *)
(* in flight, when the sends of a socket complete in the order of the       *)
(* queue: only the first element is erased, and none is ever moved away     *)
(* from the header its submission points to.                                *)
THEOREM DatagramQueueMatches ==
  ASSUME Reordering = FALSE
  PROVE  Spec => []QueueMatches
<1>1. ASSUME Inv PROVE QueueMatches
  <2>1. QueueInv /\ RingInv
    BY <1>1 DEF Inv
  <2>2. enqueued = MapThenSumSet(LAMBDA s : memory[s].dg.size, front..back)
    <3> DEFINE g == SizesIn(memory)
    <3>1. IsFiniteSet(Window) /\ \A k \in Window : g[k] = memory[k].dg.size /\ g[k] \in Nat
      BY <2>1, QueueTypes
    <3> HIDE DEF g
    <3>2. MapThenSumSet(LAMBDA s : memory[s].dg.size, Window) = Total(g, Window)
      BY <3>1, TotalInMemory
    <3>3. enqueued = Total(g, Window)
      BY <2>1 DEF QueueInv, g
    <3> QED
      BY <3>2, <3>3 DEF Window
  <2>3. ASSUME NEW s \in inflight, s.op = "write"
        PROVE  \E r \in front..back :
                 memory[r].id = s.id /\ memory[r].busy /\ s.dg = <<memory[r].dg>>
    <3>1. s \in Writes(inflight)
      BY <2>3 DEF Writes
    <3> QED
      BY <2>1, <3>1 DEF RingInv, Belongs, Window
  <2> QED
    BY <2>1, <2>2, <2>3 DEF QueueMatches, QueueInv
<1> QED
  BY <1>1, InvHolds, PTL

(* A datagram that an application enqueues is sent whole, to the endpoint   *)
(* it was enqueued for, and at most once.                                   *)
THEOREM DatagramsSentOnce ==
  ASSUME Reordering = FALSE
  PROVE  Spec => OutputAtMostOnce
<1>1. ASSUME Inv, [Next]_vars
      PROVE  [Out!Next]_(Out!channelVars)
  <2>1. AppInv /\ QueueInv /\ RingInv /\ DriverInv
    BY <1>1 DEF Inv
  <2>2. CASE UNCHANGED <<offered, wire>>
    BY <2>2 DEF Out!channelVars
  <2>3. CASE SentOne
    <3> DEFINE w == Len(wire)
               d == offered[w + 1]
    <3>1. /\ offered' = offered /\ w + 1 \in DOMAIN offered /\ w \in Nat /\ wire' = Append(wire, d)
          /\ DOMAIN wire = 1..w /\ w + 1 \in 1..Len(offered) /\ w <= Len(offered)
      BY <2>1, <2>3, QueueTypes DEF SentOne, QueueInv
    <3>2. d.id = w + 1 /\ \A k \in 1..w : wire[k].id = k
      <4>1. ASSUME NEW k \in 1..w PROVE wire[k].id = k
        <5>1. k \in 1..Len(offered)
          BY <2>1, <3>1, QueueTypes
        <5> QED
          BY <2>1, <5>1 DEF QueueInv
      <4> QED
        BY <2>1, <3>1, <4>1 DEF QueueInv
    <3> HIDE DEF w, d
    <3>3. \A k \in 1..w : wire[k] # d
      <4>1. \A k \in 1..w : k # w + 1
        BY <3>1
      <4> QED
        BY <3>2, <4>1
    <3>4. d \in Out!Elements(offered) \ Out!Elements(wire)
      BY <3>1, <3>3 DEF Out!Elements, d
    <3> QED
      BY <3>1, <3>4 DEF Out!Next, Out!Deliver
  <2>4. CASE Send
    BY <2>1, <2>3, <2>4, SendKeeps
  <2>5. CASE SendCompletes
    BY <2>1, <2>3, <2>5, SendCompletesKeeps
  <2>6. CASE SubmitDatagrams \/ Enter \/ SendError \/ QueueKept
    BY <2>2, <2>6 DEF SubmitDatagrams, Enter, SendError, QueueKept, queueVars
  <2>7. CASE Enqueues
    <3>1. PICK eps \in Seq(Endpoints), n \in Sizes : Enqueue(eps, n)
      BY <2>7 DEF Enqueues
    <3> DEFINE N == Len(offered)
               o == offered'
    <3>2. /\ wire' = wire /\ Len(o) = N + Len(eps) /\ Len(eps) \in Nat /\ N \in Nat
          /\ offered \in Seq(Dgram) /\ o \in Seq(Dgram)
          /\ \A k \in 1..N : o[k] = offered[k]
      BY <2>1, <3>1, EnqueueFacts, QueueTypes
    <3>3. SubSeq(o, 1, N) = offered
      <4> DEFINE p == SubSeq(o, 1, N)
      <4> HIDE DEF o
      <4>1. 1 \in Int /\ N \in Int /\ \A k \in 1..N : o[k] \in Dgram
        BY <3>2
      <4>2. /\ p \in Seq(Dgram) /\ Len(p) = IF 1 <= N THEN N - 1 + 1 ELSE 0
            /\ \A k \in 1..(N - 1 + 1) : p[k] = o[1 + k - 1]
        BY <4>1, SubSeqProperties
      <4> HIDE DEF p
      <4>3. Len(p) = N
        BY <3>2, <4>2
      <4>4. ASSUME NEW k \in 1..N PROVE p[k] = offered[k]
        <5>1. k \in 1..(N - 1 + 1) /\ 1 + k - 1 = k
          BY <3>2
        <5> QED
          BY <3>2, <4>2, <5>1
      <4>5. p = offered
        BY <3>2, <4>2, <4>3, <4>4, SeqEqual
      <4> QED
        BY <4>5 DEF p
    <3>4. CASE Len(eps) > 0
      <4>1. Len(o) > N
        <5> HIDE DEF N, o
        <5> QED
          BY <3>2, <3>4
      <4> QED
        BY <3>2, <3>3, <4>1 DEF Out!Next, Out!Offer
    <3>5. CASE Len(eps) = 0
      <4>1. Len(o) = N
        <5> HIDE DEF N, o
        <5> QED
          BY <3>2, <3>5
      <4>2. o = offered
        <5> HIDE DEF o
        <5> QED
          BY <3>2, <4>1, SeqEqual
      <4> QED
        BY <2>2, <3>2, <4>2
    <3> QED
      BY <3>2, <3>4, <3>5
  <2> QED
    BY <1>1, <2>1, <2>4, <2>5, <2>6, <2>7, Steps DEF Changes
<1>2. Init => Out!Init
  BY DEF Init, Out!Init
<1> QED
  BY <1>1, <1>2, InvHolds, PTL DEF Spec, OutputAtMostOnce, Out!Spec

-----------------------------------------------------------------------------
(* What arrives.                                                            *)

(* Every policy asks for no more than any datagram that holds something,    *)
(* and has room for it; no application asks for more room than there was    *)
(* at first.                                                                *)
EveryDatagramFits ==
    /\ \A p \in Policies \cup InitialPolicies :
         p.min > 0 /\ \A n \in Sizes : p.min <= n /\ n <= p.max
    /\ \A p \in InitialPolicies, q \in Policies : q.max <= p.max

(* What the applications are to be given of a datagram. *)
Whole(d) == [ep |-> d.ep, data |-> Bytes(d, d.size)]

Come == [k \in DOMAIN arrived |-> Whole(arrived[k])]

Given == [ep : Endpoints, data : Seq(Nat \X Nat)]

InputInv ==
    /\ policy \in Policies \cup InitialPolicies /\ policy.max <= capacity
    /\ capacity \in Nat /\ \A p \in Policies : p.max <= capacity
    /\ received = <<>>
    /\ \A k \in 1..Len(arrived) : arrived[k].size \in Sizes \cup {0}
    /\ consumed \in Seq(Given)
    /\ \A k \in 1..Len(consumed) :
         \E j \in 1..taken : arrived[j].size > 0 /\ consumed[k] = Whole(arrived[j])

LEMMA BytesFacts ==
  ASSUME NEW d \in Dgram, NEW n \in Nat
  PROVE  /\ Bytes(d, n) \in Seq(Nat \X Nat) /\ Len(Bytes(d, n)) = n
         /\ n > 0 => Bytes(d, n)[1] = <<d.id, 1>>
<1> DEFINE b == Bytes(d, n)
<1>1. d.id \in Nat /\ b = [i \in 1..n |-> <<d.id, i>>]
  BY DEF Bytes, Dgram
<1>2. b \in [1..n -> Nat \X Nat]
  BY <1>1
<1>3. n > 0 => b[1] = <<d.id, 1>>
  BY <1>1
<1> HIDE DEF b
<1>4. b \in Seq(Nat \X Nat) /\ Len(b) = n
  BY <1>2, SeqDef
<1> QED
  BY <1>3, <1>4 DEF b

(* The read buffer holds the datagram and nothing else. *)
LEMMA FilledWhole ==
  ASSUME EveryDatagramFits, AppInv, InputInv, Read
  PROVE  /\ Datagram.size \in Sizes \cup {0}
         /\ Filled(Datagram) = Bytes(Datagram, Datagram.size)
         /\ Enough(Filled(Datagram)) <=> Datagram.size > 0
<1> DEFINE d == Datagram
           n == Datagram.size
<1>1. d \in Dgram /\ n \in Nat /\ n \in Sizes \cup {0}
  <2>1. Datagram \in Dgram /\ taken + 1 \in 1..Len(arrived)
    BY DatagramFacts
  <2> QED
    BY <2>1 DEF InputInv, Datagram, Dgram
<1>2. policy.min \in Nat /\ policy.max \in Nat /\ policy.min > 0
      /\ (n # 0 => policy.min <= n /\ n <= policy.max)
  BY <1>1, DatagramAssumption DEF InputInv, EveryDatagramFits
<1> HIDE DEF d, n
<1>3. Smaller(n, policy.max - 0) = n /\ Smaller(n, policy.max) = n
  BY <1>1, <1>2 DEF Smaller
<1> DEFINE got == Bytes(d, n)
<1>4. got \in Seq(Nat \X Nat) /\ Len(got) = n
  BY <1>1, BytesFacts
<1>5. Filled(d) = IF driver = "event" THEN <<>> \o got
                  ELSE got \o SubSeq(<<>>, Len(got) + 1, 0) \o Stale(Smaller(Len(got), 0))
  BY <1>3 DEF Filled, InputInv, d, n
<1> HIDE DEF got
<1>6. <<>> \o got = got /\ got \o <<>> = got
  BY <1>4, ConcatEmptySeq
<1>7. SubSeq(<<>>, Len(got) + 1, 0) = <<>>
  BY <1>1, <1>4, SubSeqEmpty
<1>8. Stale(Smaller(Len(got), 0)) = <<>>
  <2>1. Smaller(Len(got), 0) = 0
    BY <1>1, <1>4 DEF Smaller
  <2>2. 1..0 = {}
    OBVIOUS
  <2> QED
    BY <2>1, <2>2 DEF Stale
<1>9. Filled(d) = got
  BY <1>5, <1>6, <1>7, <1>8
<1>10. Enough(Filled(d)) <=> n > 0
  <2>1. Enough(Filled(d)) <=> n >= policy.min
    BY <1>4, <1>9 DEF Enough
  <2> QED
    BY <1>1, <1>2, <2>1
<1> QED
  BY <1>1, <1>9, <1>10 DEF got, d, n

(* What an application is given is the datagram, and the buffer stays. *)
LEMMA ConsumeFacts ==
  ASSUME EveryDatagramFits, InputInv, NEW e, NEW got, ConsumeWith(e, got)
  PROVE  /\ consumed' = Append(consumed, [ep |-> e, data |-> got])
         /\ policy' \in Policies \cup InitialPolicies /\ policy'.max <= capacity'
         /\ capacity' = capacity
<1>1. PICK init \in {policy} \cup Policies :
        /\ consumed' = Append(consumed,
                         [ep |-> e, data |-> IF init.max > capacity
                                             THEN Stale(Len(got)) ELSE got])
        /\ policy' \in {init} \cup Policies
        /\ capacity' = Max({capacity, init.max, policy'.max})
  BY DEF ConsumeWith
<1>2. \A p \in Policies \cup {policy} : p.max \in Nat /\ p.max <= capacity
  BY DatagramAssumption DEF InputInv
<1>3. init.max \in Nat /\ init.max <= capacity /\ policy'.max \in Nat /\ policy'.max <= capacity
  BY <1>1, <1>2
<1>4. capacity \in Nat /\ ~(init.max > capacity)
  BY <1>3 DEF InputInv
<1>5. Max({capacity, init.max, policy'.max}) = capacity
  <2> DEFINE S == {capacity, init.max, policy'.max}
  <2>1. capacity \in S /\ \A y \in S : y \in Nat /\ capacity >= y
    BY <1>3, <1>4
  <2> HIDE DEF S
  <2>2. (CHOOSE x \in S : \A y \in S : x >= y) = capacity
    <3>1. \E x \in S : \A y \in S : x >= y
      BY <2>1
    <3>2. \A x \in S : (\A y \in S : x >= y) => x = capacity
      BY <2>1
    <3> QED
      BY <3>1, <3>2
  <2> QED
    BY <2>2 DEF Max, S
<1>6. policy' \in Policies \cup InitialPolicies
  BY <1>1 DEF InputInv
<1> QED
  BY <1>1, <1>3, <1>4, <1>5, <1>6

LEMMA InputStep ==
  ASSUME EveryDatagramFits, AppInv, InputInv, [Next]_vars
  PROVE  InputInv' /\ [In!Next]_(In!channelVars)
<1> USE DEF Come
<1>1. /\ arrived \in Seq(Dgram) /\ Len(arrived) \in Nat /\ DOMAIN arrived = 1..Len(arrived)
      /\ taken \in 0..Len(arrived) /\ taken \in Nat
  BY DEF AppInv
<1>2. CASE UNCHANGED <<inVars, arrived>>
  BY <1>2 DEF InputInv, inVars, In!channelVars
<1>3. CASE PeerSend
  <2>1. PICK e \in Endpoints, n \in Sizes \cup {0} :
          arrived' = Append(arrived, [ep |-> e, id |-> Len(arrived) + 1, size |-> n])
    BY <1>3 DEF PeerSend
  <2>2. UNCHANGED inVars
    BY <1>3 DEF PeerSend
  <2> DEFINE d == [ep |-> e, id |-> Len(arrived) + 1, size |-> n]
             N == Len(arrived)
             A == arrived'
  <2>3. d \in Dgram /\ d.size = n /\ A = Append(arrived, d)
    BY <1>1, <2>1, DatagramAssumption DEF Dgram
  <2> HIDE DEF d, A
  <2>4. /\ A \in Seq(Dgram) /\ Len(A) = N + 1 /\ A[N + 1] = d
        /\ \A k \in 1..N : A[k] = arrived[k]
    BY <1>1, <2>3, AppendProperties
  <2>5. ASSUME NEW k \in 1..Len(A) PROVE A[k].size \in Sizes \cup {0}
    <3>1. k \in 1..N \/ k = N + 1
      BY <1>1, <2>4
    <3> QED
      BY <2>3, <2>4, <3>1 DEF InputInv
  <2>6. \A j \in 1..taken : A[j] = arrived[j]
    <3>1. \A j \in 1..taken : j \in 1..N
      BY <1>1
    <3> QED
      BY <2>4, <3>1
  <2>7. InputInv'
    BY <2>2, <2>5, <2>6 DEF InputInv, inVars, A
  <2> DEFINE C == [k \in DOMAIN A |-> Whole(A[k])]
             B == Come
  <2>8. /\ B \in Seq(Given) /\ Len(B) = N /\ C \in Seq(Given) /\ Len(C) = N + 1
        /\ \A k \in 1..N : C[k] = B[k]
    <3>1. \A x \in Dgram : Whole(x) \in Given
      BY BytesFacts DEF Whole, Dgram, Given
    <3>2. DOMAIN A = 1..(N + 1) /\ \A k \in 1..(N + 1) : A[k] \in Dgram
      BY <1>1, <2>4
    <3>3. DOMAIN arrived = 1..N /\ \A k \in 1..N : arrived[k] \in Dgram
      BY <1>1
    <3>4. B \in [1..N -> Given] /\ C \in [1..(N + 1) -> Given]
      BY <3>1, <3>2, <3>3
    <3>5. \A k \in 1..N : C[k] = B[k]
      <4>1. \A k \in 1..N : k \in 1..(N + 1)
        BY <1>1
      <4> QED
        BY <2>4, <3>2, <3>3, <4>1
    <3> HIDE DEF B, C, N
    <3>6. N \in Nat /\ N + 1 \in Nat
      BY <1>1 DEF N
    <3>7. B \in Seq(Given) /\ Len(B) = N
      BY <3>4, <3>6, SeqDef
    <3>8. C \in Seq(Given) /\ Len(C) = N + 1
      BY <3>4, <3>6, SeqDef
    <3> QED
      BY <3>5, <3>7, <3>8
  <2> HIDE DEF B, C
  <2>9. SubSeq(C, 1, Len(B)) = B
    <3> DEFINE p == SubSeq(C, 1, N)
    <3> HIDE DEF N
    <3>1. N \in Nat
      BY <1>1 DEF N
    <3>2. 1 \in Int /\ N \in Int /\ \A k \in 1..N : C[k] \in Given
      BY <2>8, <3>1
    <3>3. /\ p \in Seq(Given) /\ Len(p) = IF 1 <= N THEN N - 1 + 1 ELSE 0
          /\ \A k \in 1..(N - 1 + 1) : p[k] = C[1 + k - 1]
      BY <3>2, SubSeqProperties
    <3> HIDE DEF p
    <3>4. Len(p) = N
      BY <3>1, <3>3
    <3>5. ASSUME NEW k \in 1..N PROVE p[k] = B[k]
      <4>1. k \in 1..(N - 1 + 1) /\ 1 + k - 1 = k
        BY <3>1
      <4> QED
        BY <2>8, <3>3, <4>1
    <3>6. p = B
      BY <2>8, <3>3, <3>4, <3>5, SeqEqual
    <3> QED
      BY <2>8, <3>6 DEF p
  <2>10. Len(C) > Len(B)
    BY <1>1, <2>8
  <2>11. consumed' = consumed
    BY <2>2 DEF inVars
  <2>12. In!Offer
    BY <2>9, <2>10, <2>11 DEF In!Offer, B, C, A, Whole, Bytes
  <2> QED
    BY <2>7, <2>12 DEF In!Next
<1>4. ASSUME Read, arrived' = arrived, UNCHANGED <<policy, capacity, consumed>>, received' = <<>>
      PROVE  InputInv' /\ [In!Next]_(In!channelVars)
  <2>1. taken' = taken + 1
    BY <1>4 DEF Read
  <2>2. \A j \in 1..taken : j \in 1..taken'
    BY <1>1, <2>1
  <2>3. InputInv'
    BY <1>4, <2>2 DEF InputInv
  <2> QED
    BY <1>4, <2>3 DEF In!channelVars
<1>5. CASE ReadPart
  <2>1. /\ Read /\ arrived' = arrived /\ UNCHANGED <<policy, capacity, consumed>>
        /\ received' = Filled(Datagram) /\ ~Enough(Filled(Datagram))
    BY <1>5 DEF ReadPart
  <2>2. Datagram.size = 0
    <3> DEFINE n == Datagram.size
    <3>1. n \in Sizes \cup {0} /\ ~(n > 0)
      BY <2>1, FilledWhole
    <3> HIDE DEF n
    <3>2. n \in Nat
      BY <3>1, DatagramAssumption
    <3>3. n = 0
      BY <3>1, <3>2
    <3> QED
      BY <3>3 DEF n
  <2>3. Filled(Datagram) = <<>>
    <3>1. Filled(Datagram) = Bytes(Datagram, 0)
      BY <2>1, <2>2, FilledWhole
    <3>2. 1..0 = {}
      OBVIOUS
    <3> QED
      BY <3>1, <3>2 DEF Bytes
  <2> QED
    BY <1>4, <2>1, <2>3
<1>6. CASE ConsumeFails
  <2>1. /\ Read /\ arrived' = arrived /\ UNCHANGED <<policy, capacity, consumed, received>>
    BY <1>6 DEF ConsumeFails
  <2> QED
    BY <1>4, <2>1 DEF InputInv
<1>7. CASE Consume
  <2> DEFINE d == Datagram
             t == taken + 1
             x == Whole(d)
             L == Len(consumed)
             R == consumed'
  <2>1. /\ Read /\ arrived' = arrived /\ received' = <<>>
        /\ Enough(Filled(d)) /\ ConsumeWith(d.ep, Filled(d))
    BY <1>7 DEF Consume, LayerOf
  <2>2. /\ d \in Dgram /\ d.id = t /\ taken' = t /\ t \in 1..Len(arrived) /\ d.ep \in Endpoints
        /\ d = arrived[t]
    BY <2>1, DatagramFacts DEF Datagram
  <2>3. Filled(d) = Bytes(d, d.size) /\ d.size \in Nat /\ d.size > 0
    BY <2>1, <2>2, FilledWhole DEF Dgram
  <2>4. /\ R = Append(consumed, x)
        /\ policy' \in Policies \cup InitialPolicies /\ policy'.max <= capacity'
        /\ capacity' = capacity
    BY <2>1, <2>3, ConsumeFacts DEF Whole
  <2>5. x \in Given
    BY <2>2, <2>3, BytesFacts DEF Whole, Given
  <2>6. x.data[1] = <<t, 1>>
    BY <2>2, <2>3, BytesFacts DEF Whole
  <2>7. consumed \in Seq(Given) /\ L \in Nat
    BY DEF InputInv
  <2> HIDE DEF x, R
  <2>8. /\ R \in Seq(Given) /\ Len(R) = L + 1 /\ R[L + 1] = x
        /\ \A k \in 1..L : R[k] = consumed[k]
    BY <2>4, <2>5, <2>7, AppendProperties
  <2>9. \A j \in 1..taken : j \in 1..t /\ j # t
    BY <1>1
  <2>10. ASSUME NEW k \in 1..Len(R)
         PROVE  \E j \in 1..t : arrived[j].size > 0 /\ R[k] = Whole(arrived[j])
    <3>1. CASE k \in 1..L
      BY <2>8, <2>9, <3>1 DEF InputInv
    <3>2. CASE k \notin 1..L
      <4>1. k = L + 1
        <5> HIDE DEF L
        <5> QED
          BY <2>7, <2>8, <3>2
      <4>2. R[k] = Whole(arrived[t]) /\ arrived[t].size > 0 /\ t \in 1..t
        BY <1>1, <2>2, <2>3, <2>8, <4>1 DEF x
      <4> QED
        BY <4>2
    <3> QED
      BY <3>1, <3>2
  <2>11. InputInv'
    BY <2>1, <2>2, <2>4, <2>8, <2>10 DEF InputInv, R
  <2>12. ASSUME NEW k \in 1..L PROVE consumed[k] # x
    <3>1. PICK j \in 1..taken : arrived[j].size > 0 /\ consumed[k] = Whole(arrived[j])
      BY DEF InputInv
    <3>2. j \in 1..Len(arrived)
      BY <1>1
    <3> DEFINE a == arrived[j]
    <3>3. a \in Dgram /\ a.id = j
      BY <3>2 DEF AppInv
    <3>4. a.size \in Nat /\ a.size > 0
      BY <3>1, <3>3 DEF Dgram
    <3> HIDE DEF a
    <3>5. Bytes(a, a.size)[1] = <<j, 1>>
      BY <3>3, <3>4, BytesFacts
    <3>6. consumed[k].data = Bytes(a, a.size)
      BY <3>1 DEF Whole, a
    <3> QED
      BY <2>6, <2>9, <3>5, <3>6
  <2>13. x \in In!Elements(Come) \ In!Elements(consumed)
    <3>1. t \in DOMAIN Come /\ Come[t] = x
      BY <1>1, <2>2 DEF x
    <3>2. DOMAIN consumed = 1..L
      BY <2>7
    <3> QED
      BY <2>12, <3>1, <3>2 DEF In!Elements
  <2>14. In!Deliver
    <3>1. /\ \E y \in In!Elements(Come) \ In!Elements(consumed) : consumed' = Append(consumed, y)
          /\ arrived' = arrived
      BY <2>1, <2>4, <2>13 DEF R
    <3> QED
      BY <3>1 DEF In!Deliver, In!Elements, Whole, Bytes
  <2> QED
    BY <2>11, <2>14 DEF In!Next
<1> QED
  BY <1>2, <1>3, <1>5, <1>6, <1>7 DEF Next, ReadEvent, ReadHandler, ReadStops,
     ReadError, WriteEvent, WriteHandler, Produce, WriteDone, StartSending, SendWouldBlock,
     SendFails, SendNext, SubmitDatagrams, Send, Enter, SendCompletes, SendError,
     PollCompletes, HandleTimeout, Quiet, vars

(* A datagram that arrives is consumed whole, by the application of its     *)
(* endpoint, and at most once, for any endpoints and datagrams, however     *)
(* reads fail and whatever the applications configure, when every datagram  *)
(* fits and no init() makes the read buffer grow under what is consumed.    *)
THEOREM DatagramsConsumedWhole ==
  ASSUME EveryDatagramFits
  PROVE  Spec => InputWhole
<1>1. Init => AppInv
  BY InvInit DEF Inv
<1>2. Init => InputInv
  <2>1. ASSUME Init
        PROVE  InputInv
    <3>1. /\ policy \in InitialPolicies /\ capacity = policy.max /\ received = <<>>
          /\ arrived = <<>> /\ consumed = <<>>
      BY <2>1 DEF Init
    <3>2. policy.max \in Nat /\ \A p \in Policies : p.max <= policy.max
      BY <3>1, DatagramAssumption DEF EveryDatagramFits
    <3> QED
      BY <3>1, <3>2 DEF InputInv
  <2> QED
    BY <2>1
<1>3. AppInv /\ InputInv /\ [Next]_vars
        => AppInv' /\ InputInv' /\ [In!Next]_(In!channelVars)
  BY AppStep, InputStep
<1>4. Init => In!Init
  <2>1. ASSUME arrived = <<>>
        PROVE  [k \in DOMAIN arrived |->
                  [ep |-> arrived[k].ep,
                   data |-> [i \in 1..arrived[k].size |-> <<arrived[k].id, i>>]]] = <<>>
    BY <2>1
  <2> QED
    BY <2>1 DEF Init, In!Init
<1> QED
  BY <1>1, <1>2, <1>3, <1>4, PTL DEF Spec, InputWhole, In!Spec
=============================================================================
