-------------------------- MODULE TlsLayerProofs --------------------------
(***************************************************************************)
(* The TLS layer implements a ByteStream in each direction: for any order  *)
(* of flights, any number of tickets, any chunks and any cut of the        *)
(* connection into reads.                                                  *)
(***************************************************************************)
EXTENDS TlsLayer, DataInduction, SequenceTheorems, TLAPS

Unit == [data : Seq(Nat), last : BOOLEAN]

(* The bytes of an application from a, exclusively, to b. *)
Piece(a, b) == [i \in 1..(b - a) |-> a + i]

(* The units P are n messages; they decrypt to the pieces between e[0],     *)
(* e[1], ... e[n] of the stream.                                            *)
Run(P, e, n) ==
    /\ n \in Nat /\ P \in Seq(Unit) /\ Len(P) = 2 * n /\ e \in [0..n -> Nat]
    /\ \A k \in 1..n : e[k - 1] <= e[k]
    /\ \A k \in 1..n : P[2 * k].data = Piece(e[k - 1], e[k])

(* P are n messages, of which the first z are empty; they carry the stream  *)
(* from a to b.                                                             *)
Carries(P, n, z, a, b) ==
    \E e : /\ Run(P, e, n) /\ e[0] = a /\ e[n] = b
           /\ z \in 0..n /\ \A k \in 0..z : e[k] = a

-----------------------------------------------------------------------------
(* Pieces of a stream. *)

LEMMA Joined ==
  ASSUME NEW S, NEW u \in Seq(S), NEW v \in Seq(S)
  PROVE  /\ u \o v \in Seq(S) /\ Len(u \o v) = Len(u) + Len(v)
         /\ \A i \in 1..Len(u) : (u \o v)[i] = u[i]
         /\ \A i \in 1..Len(v) : (u \o v)[Len(u) + i] = v[i]
<1> DEFINE p == Len(u)
           q == Len(v)
<1>1. /\ u \o v \in Seq(S) /\ Len(u \o v) = p + q /\ p \in Nat /\ q \in Nat
      /\ \A i \in 1..(p + q) : (u \o v)[i] = IF i <= p THEN u[i] ELSE v[i - p]
  BY ConcatProperties
<1> HIDE DEF p, q
<1>2. \A i \in 1..p : i \in 1..(p + q) /\ i <= p
  BY <1>1
<1>3. \A i \in 1..q : p + i \in 1..(p + q) /\ ~(p + i <= p) /\ (p + i) - p = i
  BY <1>1
<1>4. /\ \A i \in 1..p : (u \o v)[i] = u[i]
      /\ \A i \in 1..q : (u \o v)[p + i] = v[i]
  BY <1>1, <1>2, <1>3
<1> QED
  BY <1>1, <1>4 DEF p, q

LEMMA PieceFacts ==
  ASSUME NEW a \in Nat, NEW b \in Nat, a <= b
  PROVE  /\ Piece(a, b) \in Seq(Nat) /\ Len(Piece(a, b)) = b - a
         /\ \A i \in 1..(b - a) : Piece(a, b)[i] = a + i
<1> DEFINE s == Piece(a, b)
           n == b - a
<1>1. s = [i \in 1..n |-> a + i] /\ n \in Nat
  BY DEF Piece
<1> HIDE DEF s, n
<1>2. s \in [1..n -> Nat] /\ \A i \in 1..n : s[i] = a + i
  BY <1>1
<1>3. s \in Seq(Nat) /\ Len(s) = n
  BY <1>1, <1>2, SeqDef
<1> QED
  BY <1>2, <1>3 DEF s, n

LEMMA PieceJoin ==
  ASSUME NEW a \in Nat, NEW b \in Nat, NEW c \in Nat, a <= b, b <= c
  PROVE  Piece(a, b) \o Piece(b, c) = Piece(a, c)
<1> DEFINE s == Piece(a, b)
           t == Piece(b, c)
           u == Piece(a, c)
           m == b - a
           n == c - b
<1>1. m \in Nat /\ n \in Nat /\ c - a = m + n /\ b = a + m /\ a <= c
  OBVIOUS
<1>2. /\ s \in Seq(Nat) /\ Len(s) = m /\ \A i \in 1..m : s[i] = a + i
      /\ t \in Seq(Nat) /\ Len(t) = n /\ \A i \in 1..n : t[i] = b + i
  BY PieceFacts
<1>3. u \in Seq(Nat) /\ Len(u) = m + n /\ \A i \in 1..(m + n) : u[i] = a + i
  <2>1. u \in Seq(Nat) /\ Len(u) = c - a /\ \A i \in 1..(c - a) : u[i] = a + i
    BY <1>1, PieceFacts
  <2> QED
    BY <1>1, <2>1
<1> HIDE DEF s, t, u, m, n
<1>4. /\ s \o t \in Seq(Nat) /\ Len(s \o t) = m + n
      /\ \A i \in 1..(m + n) : (s \o t)[i] = IF i <= m THEN s[i] ELSE t[i - m]
  BY <1>2, ConcatProperties
<1>5. ASSUME NEW i \in 1..(m + n)
      PROVE  (s \o t)[i] = u[i]
  <2>1. CASE i <= m
    BY <1>1, <1>2, <1>3, <1>4, <2>1
  <2>2. CASE ~(i <= m)
    <3>1. i - m \in 1..n /\ b + (i - m) = a + i
      BY <1>1, <2>2
    <3>2. t[i - m] = b + (i - m)
      BY <1>2, <3>1
    <3> QED
      BY <1>3, <1>4, <2>2, <3>1, <3>2
  <2> QED
    BY <2>1, <2>2
<1>6. s \o t = u
  BY <1>3, <1>4, <1>5, SeqEqual
<1> QED
  BY <1>6 DEF s, t, u

LEMMA PieceEmpty ==
  ASSUME NEW a \in Nat
  PROVE  Piece(a, a) = <<>>
<1>1. Piece(a, a) \in Seq(Nat) /\ Len(Piece(a, a)) = a - a /\ a - a = 0
  BY PieceFacts
<1> QED
  BY <1>1, EmptySeq

-----------------------------------------------------------------------------
(* FlattenSeq() is what grows by one sequence at a time. *)
Grows(f, seqs, n) ==
    f = [i \in 1..n |-> IF i = 1 THEN seqs[i] ELSE f[i - 1] \o seqs[i]]

LEMMA GrowsFacts ==
  ASSUME NEW n \in Nat, NEW seqs, NEW f, Grows(f, seqs, n)
  PROVE  \A k \in 1..n : f[k] = IF k = 1 THEN seqs[k] ELSE f[k - 1] \o seqs[k]
<1> DEFINE g == [i \in 1..n |-> IF i = 1 THEN seqs[i] ELSE f[i - 1] \o seqs[i]]
<1>1. f = g
  BY DEF Grows
<1>2. \A k \in 1..n : g[k] = IF k = 1 THEN seqs[k] ELSE f[k - 1] \o seqs[k]
  OBVIOUS
<1> HIDE DEF g
<1> QED
  BY <1>1, <1>2

LEMMA Flattened ==
  ASSUME NEW n \in Nat \ {0}, NEW seqs, Len(seqs) = n, NEW whole, Grows(whole, seqs, n)
  PROVE  FlattenSeq(seqs) = whole[n]
<1> DEFINE flatten == CHOOSE f : Grows(f, seqs, n)
<1>1. FlattenSeq(seqs) = flatten[n]
  BY DEF FlattenSeq, Grows
<1>2. Grows(flatten, seqs, n)
  OBVIOUS
<1> HIDE DEF flatten
<1>3. /\ \A k \in 1..n : flatten[k] = IF k = 1 THEN seqs[k] ELSE flatten[k - 1] \o seqs[k]
      /\ \A k \in 1..n : whole[k] = IF k = 1 THEN seqs[k] ELSE whole[k - 1] \o seqs[k]
  BY <1>2, GrowsFacts
<1>4. Alike(flatten, whole, n)
  BY <1>3 DEF Alike
<1>5. \A k \in 1..n : flatten[k] = whole[k]
  BY <1>4, StepByStep
<1> QED
  BY <1>1, <1>5

-----------------------------------------------------------------------------
(* Runs of messages. *)

LEMMA NothingRuns ==
  ASSUME NEW a \in Nat
  PROVE  Carries(<<>>, 0, 0, a, a)
<1> DEFINE e == [k \in 0..0 |-> a]
<1>1. Run(<<>>, e, 0) /\ e[0] = a
  BY DEF Run
<1> HIDE DEF e
<1> QED
  BY <1>1 DEF Carries

LEMMA MessageRuns ==
  ASSUME NEW a \in Nat, NEW b \in Nat, a <= b
  PROVE  Carries(Message(Piece(a, b)), 1, 0, a, b)
<1> DEFINE e == [k \in 0..1 |-> IF k = 0 THEN a ELSE b]
           P == Message(Piece(a, b))
           d == Piece(a, b)
<1>1. e \in [0..1 -> Nat] /\ e[0] = a /\ e[1] = b
  OBVIOUS
<1>2. d \in Seq(Nat)
  BY PieceFacts
<1> HIDE DEF d
<1>3. P \in Seq(Unit) /\ Len(P) = 2 /\ P[2].data = d
  BY <1>2 DEF Message, Unit, d
<1> HIDE DEF e, P
<1>4. Run(P, e, 1)
  <2>1. \A k \in 1..1 : k = 1 /\ k - 1 = 0 /\ 2 * k = 2
    OBVIOUS
  <2> QED
    BY <1>1, <1>3, <2>1 DEF Run, d
<1> QED
  BY <1>1, <1>4 DEF Carries, P

(* Messages of OpenSSL's own.  *)
LEMMA EmptyUnits ==
  ASSUME NEW n \in Nat
  PROVE  /\ Empty(n) \in Seq(Unit) /\ Len(Empty(n)) = 2 * n
         /\ \A k \in 1..n : Empty(n)[2 * k].data = <<>>
<1> DEFINE m == Message(<<>>)
           x == m[1]
           y == m[2]
           seqs == [k \in 1..n |-> m]
           whole == [k \in 1..n |-> [i \in 1..(2 * k) |-> (IF i % 2 = 1 THEN x ELSE y)]]
<1>1. m \in Seq(Unit) /\ Len(m) = 2 /\ y.data = <<>> /\ x \in Unit /\ y \in Unit
  BY DEF Message, Unit
<1>2. Empty(n) = FlattenSeq(seqs)
  BY DEF Empty
<1>3. m[1] = x /\ m[2] = y
  OBVIOUS
<1> HIDE DEF m, x, y
<1>6. seqs \in Seq({m}) /\ Len(seqs) = n
  <2>1. seqs \in [1..n -> {m}]
    OBVIOUS
  <2> HIDE DEF seqs
  <2> QED
    BY <2>1, SeqDef
<1>4. CASE n = 0
  <2>1. seqs = <<>>
    BY <1>6, <1>4, EmptySeq
  <2> HIDE DEF seqs
  <2> QED
    BY <1>2, <1>4, <2>1 DEF FlattenSeq
<1>5. CASE n # 0
  <2>1. ASSUME NEW k \in 1..n
        PROVE  /\ whole[k] \in Seq(Unit) /\ Len(whole[k]) = 2 * k
               /\ \A i \in 1..(2 * k) : whole[k][i] = (IF i % 2 = 1 THEN x ELSE y)
    <3> DEFINE w == [i \in 1..(2 * k) |-> (IF i % 2 = 1 THEN x ELSE y)]
    <3>1. whole[k] = w /\ 2 * k \in Nat
      OBVIOUS
    <3>2. w \in [1..(2 * k) -> Unit]
      BY <1>1
    <3>3. \A i \in 1..(2 * k) : w[i] = (IF i % 2 = 1 THEN x ELSE y)
      OBVIOUS
    <3> HIDE DEF w, whole
    <3>4. w \in Seq(Unit) /\ Len(w) = 2 * k
      BY <3>1, <3>2, SeqDef
    <3> QED
      BY <3>1, <3>3, <3>4
  <2>2. ASSUME NEW k \in 1..n
        PROVE  whole[k] = IF k = 1 THEN seqs[k] ELSE whole[k - 1] \o seqs[k]
    <3>1. seqs[k] = m
      OBVIOUS
    <3>2. CASE k = 1
      <4>1. \A i \in 1..2 : whole[k][i] = m[i]
        <5>1. \A i \in 1..2 : (IF i % 2 = 1 THEN x ELSE y) = m[i]
          <6>1. 1 % 2 = 1 /\ 2 % 2 = 0 /\ \A i \in 1..2 : i = 1 \/ i = 2
            OBVIOUS
          <6> QED
            BY <1>3, <6>1
        <5>2. 2 * k = 2
          BY <3>2
        <5> HIDE DEF whole
        <5> QED
          BY <2>1, <5>1, <5>2
      <4> HIDE DEF whole, seqs
      <4> QED
        BY <1>1, <2>1, <3>1, <3>2, <4>1, SeqEqual
    <3>3. CASE k # 1
      <4> DEFINE u == whole[k - 1]
                 v == whole[k]
                 j == 2 * (k - 1)
      <4>1. k - 1 \in 1..n /\ j \in Nat /\ 2 * k = j + 2 /\ j % 2 = 0
        BY <3>3
      <4> HIDE DEF whole, seqs
      <4>2. /\ u \in Seq(Unit) /\ Len(u) = j
            /\ \A i \in 1..j : u[i] = (IF i % 2 = 1 THEN x ELSE y)
            /\ v \in Seq(Unit) /\ Len(v) = j + 2
            /\ \A i \in 1..(j + 2) : v[i] = (IF i % 2 = 1 THEN x ELSE y)
        <5>1. /\ u \in Seq(Unit) /\ Len(u) = 2 * (k - 1)
              /\ \A i \in 1..(2 * (k - 1)) : u[i] = (IF i % 2 = 1 THEN x ELSE y)
          BY <2>1, <4>1
        <5>2. /\ v \in Seq(Unit) /\ Len(v) = 2 * k
              /\ \A i \in 1..(2 * k) : v[i] = (IF i % 2 = 1 THEN x ELSE y)
          BY <2>1
        <5> HIDE DEF u, v
        <5> QED
          BY <4>1, <5>1, <5>2
      <4> HIDE DEF u, v, j, whole, seqs
      <4>3. /\ u \o m \in Seq(Unit) /\ Len(u \o m) = j + 2
            /\ \A i \in 1..j : (u \o m)[i] = u[i]
            /\ \A i \in 1..2 : (u \o m)[j + i] = m[i]
        <5>1. /\ u \o m \in Seq(Unit) /\ Len(u \o m) = Len(u) + Len(m)
              /\ \A i \in 1..Len(u) : (u \o m)[i] = u[i]
              /\ \A i \in 1..Len(m) : (u \o m)[Len(u) + i] = m[i]
          <6>1. u \in Seq(Unit) /\ m \in Seq(Unit)
            BY <1>1, <4>2
          <6> QED
            BY <6>1, Joined
        <5> QED
          BY <1>1, <4>2, <5>1
      <4>4. ASSUME NEW i \in 1..(j + 2)
            PROVE  v[i] = (u \o m)[i]
        <5>1. CASE i \in 1..j
          BY <4>2, <4>3, <5>1
        <5>2. CASE i \notin 1..j
          <6>1. (i = j + 1 /\ i % 2 = 1) \/ (i = j + 2 /\ i % 2 = 0)
            BY <4>1, <5>2
          <6>2. (u \o m)[j + 1] = x /\ (u \o m)[j + 2] = y
            <7>1. 1 \in 1..2 /\ 2 \in 1..2
              OBVIOUS
            <7> QED
              BY <1>3, <4>3, <7>1, Zenon
          <6> QED
            BY <4>2, <6>1, <6>2
        <5> QED
          BY <5>1, <5>2
      <4>5. v = u \o m
        BY <4>2, <4>3, <4>4, SeqEqual
      <4> QED
        BY <3>1, <3>3, <4>5 DEF u, v
    <3> QED
      BY <3>2, <3>3
  <2>3. Grows(whole, seqs, n)
    <3>1. whole = [k \in 1..n |-> whole[k]]
      OBVIOUS
    <3> HIDE DEF whole, seqs
    <3> QED
      BY <2>2, <3>1 DEF Grows
  <2> HIDE DEF whole, seqs
  <2>4. Empty(n) = whole[n] /\ n \in 1..n
    BY <1>2, <1>6, <1>5, <2>3, Flattened
  <2>5. ASSUME NEW k \in 1..n
        PROVE  whole[n][2 * k].data = <<>>
    <3>1. 2 * k \in 1..(2 * n) /\ (2 * k) % 2 = 0
      OBVIOUS
    <3> QED
      BY <1>1, <2>1, <2>4, <3>1
  <2> QED
    BY <2>1, <2>4, <2>5
<1> QED
  BY <1>4, <1>5

LEMMA EmptyRuns ==
  ASSUME NEW n \in Nat, NEW a \in Nat
  PROVE  Carries(Empty(n), n, n, a, a)
<1> DEFINE e == [k \in 0..n |-> a]
<1>1. e \in [0..n -> Nat] /\ \A k \in 0..n : e[k] = a
  OBVIOUS
<1> HIDE DEF e
<1>2. \A k \in 1..n : k \in 0..n /\ k - 1 \in 0..n
  OBVIOUS
<1>3. /\ Empty(n) \in Seq(Unit) /\ Len(Empty(n)) = 2 * n
      /\ \A k \in 1..n : Empty(n)[2 * k].data = <<>>
  BY EmptyUnits
<1>4. Piece(a, a) = <<>> /\ a <= a
  BY PieceEmpty
<1>5. Run(Empty(n), e, n)
  BY <1>1, <1>2, <1>3, <1>4, Zenon DEF Run
<1>6. 0 \in 0..n /\ n \in 0..n
  OBVIOUS
<1> QED
  BY <1>1, <1>5, <1>6, Zenon DEF Carries

LEMMA RunGrows ==
  ASSUME NEW P, NEW e, NEW n, Run(P, e, n)
  PROVE  \A i, j \in 0..n : i <= j => e[i] <= e[j]
<1>1. n \in Nat /\ (\A k \in 0..n : e[k] \in Nat) /\ \A k \in 1..n : e[k - 1] <= e[k]
  BY DEF Run
<1> SUFFICES ASSUME NEW i \in 0..n
             PROVE  \A j \in 0..n : i <= j => e[i] <= e[j]
  OBVIOUS
<1> DEFINE N == {d \in Nat : i + d \in 0..n => e[i] <= e[i + d]}
<1>2. 0 \in N
  BY <1>1
<1>3. ASSUME NEW d \in N
      PROVE  d + 1 \in N
  <2> SUFFICES ASSUME i + (d + 1) \in 0..n
               PROVE  e[i] <= e[i + (d + 1)]
    OBVIOUS
  <2>1. i + d \in 0..n /\ i + (d + 1) \in 1..n /\ (i + (d + 1)) - 1 = i + d
    BY <1>1
  <2>2. e[i] <= e[i + d] /\ e[i + d] <= e[i + (d + 1)]
    BY <1>1, <2>1
  <2>3. e[i] \in Nat /\ e[i + d] \in Nat /\ e[i + (d + 1)] \in Nat
    BY <1>1, <2>1
  <2> QED
    BY <2>2, <2>3
<1> HIDE DEF N
<1>4. \A d \in Nat : d \in N
  <2>1. N \in SUBSET Nat
    BY DEF N
  <2> QED
    BY <1>2, <1>3, <2>1, Inductive
<1>5. ASSUME NEW j \in 0..n, i <= j
      PROVE  e[i] <= e[j]
  <2>1. j - i \in Nat /\ i + (j - i) = j
    BY <1>1, <1>5
  <2> QED
    BY <1>4, <2>1 DEF N
<1> QED
  BY <1>5

(* One after the other. *)
LEMMA RunsJoin ==
  ASSUME NEW P, NEW n, NEW z, NEW a, NEW b, Carries(P, n, z, a, b),
         NEW Q, NEW m, NEW y, NEW c, Carries(Q, m, y, b, c)
  PROVE  /\ Carries(P \o Q, n + m, z, a, c)
         /\ z = n => Carries(P \o Q, n + m, n + y, a, c)
<1>1. PICK e : Run(P, e, n) /\ e[0] = a /\ e[n] = b /\ z \in 0..n /\ \A k \in 0..z : e[k] = a
  BY DEF Carries
<1>2. PICK f : Run(Q, f, m) /\ f[0] = b /\ f[m] = c /\ y \in 0..m /\ \A k \in 0..y : f[k] = b
  BY DEF Carries
<1> DEFINE g == [k \in 0..(n + m) |-> IF k <= n THEN e[k] ELSE f[k - n]]
<1>3. /\ n \in Nat /\ P \in Seq(Unit) /\ Len(P) = 2 * n /\ e \in [0..n -> Nat]
      /\ \A k \in 1..n : e[k - 1] <= e[k]
      /\ \A k \in 1..n : P[2 * k].data = Piece(e[k - 1], e[k])
  BY <1>1 DEF Run
<1>4. /\ m \in Nat /\ Q \in Seq(Unit) /\ Len(Q) = 2 * m /\ f \in [0..m -> Nat]
      /\ \A k \in 1..m : f[k - 1] <= f[k]
      /\ \A k \in 1..m : Q[2 * k].data = Piece(f[k - 1], f[k])
  BY <1>2 DEF Run
<1>5. /\ g \in [0..(n + m) -> Nat]
      /\ \A k \in 0..n : g[k] = e[k]
      /\ \A k \in 0..m : g[n + k] = f[k]
  <2>1. ASSUME NEW k \in 0..m
        PROVE  g[n + k] = f[k]
    <3>1. n + k \in 0..(n + m) /\ (n + k) - n = k /\ (n + k <= n => k = 0 /\ n + k = n)
      BY <1>3, <1>4
    <3> QED
      BY <1>1, <1>2, <3>1
  <2>2. ASSUME NEW k \in 0..n
        PROVE  g[k] = e[k]
    <3>1. k \in 0..(n + m) /\ k <= n
      BY <1>3, <1>4
    <3> QED
      BY <3>1
  <2>3. ASSUME NEW k \in 0..(n + m)
        PROVE  g[k] \in Nat
    <3>1. (k \in 0..n /\ k <= n) \/ (k - n \in 0..m /\ ~(k <= n))
      BY <1>3, <1>4
    <3> QED
      BY <1>3, <1>4, <3>1
  <2> QED
    BY <2>1, <2>2, <2>3
<1> HIDE DEF g
<1>6. P \o Q \in Seq(Unit) /\ Len(P \o Q) = 2 * (n + m)
      /\ (\A i \in 1..(2 * n) : (P \o Q)[i] = P[i])
      /\ \A i \in 1..(2 * m) : (P \o Q)[2 * n + i] = Q[i]
  <2>1. /\ P \o Q \in Seq(Unit) /\ Len(P \o Q) = Len(P) + Len(Q)
        /\ \A i \in 1..Len(P) : (P \o Q)[i] = P[i]
        /\ \A i \in 1..Len(Q) : (P \o Q)[Len(P) + i] = Q[i]
    <3>1. P \in Seq(Unit) /\ Q \in Seq(Unit)
      BY <1>3, <1>4
    <3> QED
      BY <3>1, Joined
  <2>2. Len(P) = 2 * n /\ Len(Q) = 2 * m /\ 2 * n + 2 * m = 2 * (n + m)
    BY <1>3, <1>4
  <2> QED
    BY <2>1, <2>2
<1>7. ASSUME NEW k \in 1..(n + m)
      PROVE  g[k - 1] <= g[k] /\ (P \o Q)[2 * k].data = Piece(g[k - 1], g[k])
  <2>1. CASE k \in 1..n
    <3>1. 2 * k \in 1..(2 * n) /\ k - 1 \in 0..n /\ k \in 0..n
      BY <1>3, <2>1
    <3>2. g[k - 1] = e[k - 1] /\ g[k] = e[k] /\ (P \o Q)[2 * k] = P[2 * k]
      BY <1>5, <1>6, <3>1
    <3> QED
      BY <1>3, <2>1, <3>2
  <2>2. CASE k \notin 1..n
    <3> DEFINE j == k - n
    <3>1. /\ j \in 1..m /\ j \in 0..m /\ j - 1 \in 0..m /\ k = n + j /\ k - 1 = n + (j - 1)
          /\ 2 * j \in 1..(2 * m) /\ 2 * k = 2 * n + 2 * j
      BY <1>3, <1>4, <2>2
    <3> HIDE DEF j
    <3>2. g[k - 1] = f[j - 1] /\ g[k] = f[j] /\ (P \o Q)[2 * k] = Q[2 * j]
      BY <1>5, <1>6, <3>1, Zenon
    <3> QED
      BY <1>4, <3>1, <3>2
  <2> QED
    BY <2>1, <2>2
<1>8. Run(P \o Q, g, n + m)
  <2>1. n + m \in Nat
    BY <1>3, <1>4
  <2> QED
    BY <1>5, <1>6, <1>7, <2>1 DEF Run
<1>9. g[0] = a /\ g[n + m] = c
  <2>1. 0 \in 0..n /\ m \in 0..m
    BY <1>3, <1>4
  <2> QED
    BY <1>1, <1>2, <1>5, <2>1
<1>10. z \in 0..(n + m) /\ \A k \in 0..z : g[k] = a
  <2>1. z \in 0..(n + m) /\ \A k \in 0..z : k \in 0..n
    BY <1>1, <1>3, <1>4
  <2> QED
    BY <1>1, <1>5, <2>1
<1>11. ASSUME z = n
       PROVE  n + y \in 0..(n + m) /\ \A k \in 0..(n + y) : g[k] = a
  <2>1. n + y \in 0..(n + m)
    BY <1>2, <1>3, <1>4
  <2>2. a = b
    BY <1>1, <1>3, <1>11
  <2>3. ASSUME NEW k \in 0..(n + y)
        PROVE  g[k] = a
    <3>1. CASE k \in 0..n
      BY <1>1, <1>5, <1>11, <3>1
    <3>2. CASE k \notin 0..n
      <4>1. k - n \in 0..y /\ k - n \in 0..m /\ n + (k - n) = k
        BY <1>2, <1>3, <1>4, <3>2
      <4> QED
        BY <1>2, <1>5, <2>2, <4>1
    <3> QED
      BY <3>1, <3>2
  <2> QED
    BY <2>1, <2>3
<1> QED
  BY <1>8, <1>9, <1>10, <1>11 DEF Carries

(* What is left of a sequence. *)
LEMMA TailFacts ==
  ASSUME NEW S, NEW q \in Seq(S), NEW d \in 0..Len(q)
  PROVE  /\ SubSeq(q, d + 1, Len(q)) \in Seq(S) /\ Len(SubSeq(q, d + 1, Len(q))) = Len(q) - d
         /\ \A i \in 1..(Len(q) - d) : SubSeq(q, d + 1, Len(q))[i] = q[d + i]
<1> DEFINE n == Len(q)
           r == SubSeq(q, d + 1, n)
<1>1. n \in Nat /\ d \in Nat /\ d <= n /\ \A i \in (d + 1)..n : q[i] \in S
  OBVIOUS
<1>2. /\ r \in Seq(S) /\ Len(r) = IF d + 1 <= n THEN n - (d + 1) + 1 ELSE 0
      /\ \A i \in 1..(n - (d + 1) + 1) : r[i] = q[(d + 1) + i - 1]
  BY <1>1, SubSeqProperties
<1> HIDE DEF r, n
<1>3. Len(r) = n - d /\ n - (d + 1) + 1 = n - d
  BY <1>1, <1>2
<1>4. \A i \in 1..(n - d) : (d + 1) + i - 1 = d + i
  BY <1>1
<1>5. \A i \in 1..(n - d) : r[i] = q[d + i]
  BY <1>2, <1>3, <1>4
<1> QED
  BY <1>2, <1>3, <1>5 DEF r, n

LEMMA RunTail ==
  ASSUME NEW P, NEW e, NEW n, Run(P, e, n), NEW c \in 0..n
  PROVE  Run(SubSeq(P, 2 * c + 1, Len(P)), [k \in 0..(n - c) |-> e[c + k]], n - c)
<1> DEFINE Q == SubSeq(P, 2 * c + 1, Len(P))
           f == [k \in 0..(n - c) |-> e[c + k]]
           m == n - c
<1>1. /\ n \in Nat /\ P \in Seq(Unit) /\ Len(P) = 2 * n /\ e \in [0..n -> Nat]
      /\ \A k \in 1..n : e[k - 1] <= e[k]
      /\ \A k \in 1..n : P[2 * k].data = Piece(e[k - 1], e[k])
  BY DEF Run
<1>2. c \in Nat /\ m \in Nat /\ n = c + m /\ 2 * c \in 0..(2 * n) /\ 2 * n - 2 * c = 2 * m
  BY <1>1
<1>3. Q \in Seq(Unit) /\ Len(Q) = 2 * m /\ \A i \in 1..(2 * m) : Q[i] = P[2 * c + i]
  <2>1. 2 * c \in 0..Len(P) /\ P \in Seq(Unit)
    BY <1>1, <1>2
  <2>2. /\ Q \in Seq(Unit) /\ Len(Q) = Len(P) - 2 * c
        /\ \A i \in 1..(Len(P) - 2 * c) : Q[i] = P[2 * c + i]
    BY <2>1, TailFacts
  <2> HIDE DEF Q, m
  <2> QED
    BY <1>1, <1>2, <2>2
<1>4. f \in [0..m -> Nat] /\ \A k \in 0..m : f[k] = e[c + k]
  BY <1>1, <1>2
<1> HIDE DEF Q, f, m
<1>5. ASSUME NEW k \in 1..m
      PROVE  f[k - 1] <= f[k] /\ Q[2 * k].data = Piece(f[k - 1], f[k])
  <2> DEFINE j == c + k
  <2>1. /\ k \in 0..m /\ k - 1 \in 0..m /\ j \in 1..n /\ c + (k - 1) = j - 1
        /\ 2 * k \in 1..(2 * m) /\ 2 * c + 2 * k = 2 * j
    BY <1>2
  <2>2. f[k] = e[j] /\ f[k - 1] = e[j - 1] /\ Q[2 * k] = P[2 * j]
    BY <1>3, <1>4, <2>1
  <2> QED
    BY <1>1, <2>1, <2>2
<1>6. Run(Q, f, m)
  BY <1>2, <1>3, <1>4, <1>5 DEF Run
<1> QED
  BY <1>6 DEF Q, f, m

(* SSL_read() gives what the next w messages carry. *)
LEMMA RunDecrypts ==
  ASSUME NEW P, NEW e, NEW n, Run(P, e, n), NEW c \in Nat, NEW w \in Nat, c + w <= n,
         NEW bio, Whole(bio) = w, \A k \in 1..w : bio[2 * k] = P[2 * (c + k)]
  PROVE  Decrypted(bio) = Piece(e[c], e[c + w])
<1> DEFINE seqs == [k \in 1..w |-> bio[2 * k].data]
           whole == [k \in 1..w |-> Piece(e[c], e[c + k])]
<1>1. n \in Nat /\ (\A k \in 0..n : e[k] \in Nat)
      /\ \A k \in 1..n : P[2 * k].data = Piece(e[k - 1], e[k])
  BY DEF Run
<1>2. Decrypted(bio) = FlattenSeq(seqs)
  BY DEF Decrypted
<1>3. \A k \in 1..w : seqs[k] = Piece(e[c + k - 1], e[c + k])
  <2>1. ASSUME NEW k \in 1..w
        PROVE  seqs[k] = Piece(e[c + k - 1], e[c + k])
    <3>1. c + k \in 1..n
      BY <1>1
    <3>2. P[2 * (c + k)].data = Piece(e[(c + k) - 1], e[c + k])
      BY <1>1, <3>1
    <3> QED
      BY <3>2
  <2> QED
    BY <2>1
<1> DEFINE V == {bio[2 * k].data : k \in 1..w}
<1>4. seqs \in Seq(V) /\ Len(seqs) = w
  <2>1. seqs \in [1..w -> V]
    OBVIOUS
  <2> HIDE DEF seqs, V
  <2> QED
    BY <2>1, SeqDef
<1>5. CASE w = 0
  <2>1. seqs = <<>>
    BY <1>4, <1>5, EmptySeq
  <2> HIDE DEF seqs
  <2>2. FlattenSeq(seqs) = <<>>
    BY <2>1 DEF FlattenSeq
  <2>3. e[c] \in Nat /\ c + w = c
    BY <1>1, <1>5
  <2> QED
    BY <1>2, <2>2, <2>3, PieceEmpty
<1>6. CASE w # 0
  <2>1. ASSUME NEW k \in 1..w
        PROVE  whole[k] = IF k = 1 THEN seqs[k] ELSE whole[k - 1] \o seqs[k]
    <3>1. whole[k] = Piece(e[c], e[c + k])
      OBVIOUS
    <3>2. CASE k = 1
      <4>1. c + k - 1 = c
        BY <3>2
      <4> HIDE DEF whole, seqs
      <4> QED
        BY <1>3, <3>1, <3>2, <4>1
    <3>3. CASE k # 1
      <4>1. k - 1 \in 1..w /\ c \in 0..n /\ c + k - 1 \in 0..n /\ c + k \in 0..n
            /\ c + (k - 1) = c + k - 1 /\ c <= c + k - 1 /\ c + k - 1 <= c + k
        BY <1>1, <3>3
      <4>2. whole[k - 1] = Piece(e[c], e[c + k - 1])
        BY <4>1
      <4> HIDE DEF whole, seqs
      <4>3. e[c] <= e[c + k - 1] /\ e[c + k - 1] <= e[c + k]
        BY <4>1, RunGrows
      <4>4. e[c] \in Nat /\ e[c + k - 1] \in Nat /\ e[c + k] \in Nat
        BY <1>1, <4>1
      <4>5. Piece(e[c], e[c + k - 1]) \o Piece(e[c + k - 1], e[c + k]) = Piece(e[c], e[c + k])
        BY <4>3, <4>4, PieceJoin
      <4> QED
        BY <1>3, <3>1, <3>3, <4>2, <4>5
    <3> QED
      BY <3>2, <3>3
  <2>2. Grows(whole, seqs, w)
    <3>1. whole = [k \in 1..w |-> whole[k]]
      OBVIOUS
    <3> HIDE DEF whole, seqs
    <3> QED
      BY <2>1, <3>1 DEF Grows
  <2>3. whole[w] = Piece(e[c], e[c + w])
    BY <1>6
  <2> HIDE DEF whole, seqs
  <2> QED
    BY <1>2, <1>4, <1>6, <2>2, <2>3, Flattened
<1> QED
  BY <1>5, <1>6

(* Messages that are gone: empty ones, and those that have been decrypted.  *)
LEMMA RunsDrop ==
  ASSUME NEW P, NEW n, NEW z, NEW a, NEW b, Carries(P, n, z, a, b), NEW c \in 0..z
  PROVE  Carries(SubSeq(P, 2 * c + 1, Len(P)), n - c, z - c, a, b)
<1>1. PICK e : Run(P, e, n) /\ e[0] = a /\ e[n] = b /\ z \in 0..n /\ \A k \in 0..z : e[k] = a
  BY DEF Carries
<1> DEFINE Q == SubSeq(P, 2 * c + 1, Len(P))
           f == [k \in 0..(n - c) |-> e[c + k]]
<1>2. n \in Nat /\ c \in 0..n /\ z - c \in 0..(n - c) /\ n - c \in 0..(n - c)
      /\ c + (n - c) = n /\ 0 \in 0..(n - c) /\ c + 0 = c /\ c \in 0..z
  BY <1>1 DEF Run
<1>3. Run(Q, f, n - c)
  BY <1>1, <1>2, RunTail
<1>4. \A k \in 0..(n - c) : f[k] = e[c + k]
  OBVIOUS
<1>5. f[0] = a /\ f[n - c] = b
  <2> HIDE DEF f
  <2> QED
    BY <1>1, <1>2, <1>4
<1>6. \A k \in 0..(z - c) : f[k] = a
  <2>1. \A k \in 0..(z - c) : k \in 0..(n - c) /\ c + k \in 0..z
    BY <1>1, <1>2
  <2> HIDE DEF f
  <2> QED
    BY <1>1, <1>4, <2>1
<1> HIDE DEF Q, f
<1>7. Carries(Q, n - c, z - c, a, b)
  BY <1>2, <1>3, <1>5, <1>6, Zenon DEF Carries
<1> QED
  BY <1>7 DEF Q

LEMMA RunsOpen ==
  ASSUME NEW P, NEW n, NEW z, NEW a, NEW b, Carries(P, n, z, a, b), NEW c \in 0..z,
         NEW w \in Nat, c + w <= n,
         NEW bio, Whole(bio) = w, \A k \in 1..w : bio[2 * k] = P[2 * (c + k)]
  PROVE  \E d \in Nat : /\ a <= d /\ d <= b /\ Decrypted(bio) = Piece(a, d)
                        /\ Carries(SubSeq(P, 2 * (c + w) + 1, Len(P)), n - (c + w), 0, d, b)
<1>1. PICK e : Run(P, e, n) /\ e[0] = a /\ e[n] = b /\ z \in 0..n /\ \A k \in 0..z : e[k] = a
  BY DEF Carries
<1> DEFINE j == c + w
           Q == SubSeq(P, 2 * j + 1, Len(P))
           f == [k \in 0..(n - j) |-> e[j + k]]
<1>2. /\ n \in Nat /\ c \in Nat /\ j \in 0..n /\ c \in 0..n /\ c <= j /\ j <= n /\ n \in 0..n
      /\ n - j \in 0..(n - j) /\ j + (n - j) = n /\ 0 \in 0..(n - j) /\ j + 0 = j
      /\ \A k \in 0..n : e[k] \in Nat
  BY <1>1 DEF Run
<1>3. e[c] = a /\ e[c] <= e[j] /\ e[j] <= b /\ e[j] \in Nat
  <2> HIDE DEF j
  <2> QED
    BY <1>1, <1>2, RunGrows
<1>4. Decrypted(bio) = Piece(e[c], e[j])
  BY <1>1, <1>2, RunDecrypts
<1> HIDE DEF j
<1>5. Run(Q, f, n - j)
  BY <1>1, <1>2, RunTail
<1>6. f[0] = e[j] /\ f[n - j] = b
  BY <1>1, <1>2
<1> HIDE DEF Q, f
<1>7. Carries(Q, n - j, 0, e[j], b)
  <2>1. \A k \in 0..0 : f[k] = e[j]
    BY <1>6
  <2> QED
    BY <1>2, <1>5, <1>6, <2>1, Zenon DEF Carries
<1> QED
  BY <1>3, <1>4, <1>7 DEF Q, j

-----------------------------------------------------------------------------
(* The handshake: the flights of s in f after the first i, up to j. *)
Flew(f, s, i, j) == {k \in (i + 1)..j : f[k] = s}

(* The other side, at q, has taken no flight that s, at p, has not sent. *)
Behind(f, s, p, q) == Flew(f, s, p, q) = {}

LEMMA FlewFacts ==
  ASSUME NEW f, NEW s, NEW i \in Nat, NEW j \in Nat
  PROVE  /\ IsFiniteSet(Flew(f, s, i, j)) /\ Cardinality(Flew(f, s, i, j)) \in Nat
         /\ j <= i => Cardinality(Flew(f, s, i, j)) = 0
<1>1. IsFiniteSet((i + 1)..j)
  BY FS_Interval
<1>2. IsFiniteSet(Flew(f, s, i, j))
  BY <1>1, FS_Subset DEF Flew
<1>3. j <= i => Flew(f, s, i, j) = {}
  BY DEF Flew
<1> QED
  BY <1>2, <1>3, FS_CardinalityType, FS_EmptySet

(* A side that is at q goes on to n when it has m messages of the side s,   *)
(* which is at p of L: it only takes flights that s has sent.               *)
CanTake(f, s, p, q, n, L) ==
    /\ p <= L /\ q <= n /\ n <= L /\ Behind(f, s, p, q)
    /\ \E m \in Nat : /\ Cardinality(Flew(f, s, q, n)) <= m
                      /\ p # L => m <= Cardinality(Flew(f, s, q, p))

LEMMA FlightsTaken ==
  ASSUME NEW f, NEW s, NEW p \in Nat, NEW q \in Nat, NEW n \in Nat, NEW L \in Nat,
         CanTake(f, s, p, q, n, L)
  PROVE  /\ Behind(f, s, p, n)
         /\ Cardinality(Flew(f, s, q, n)) \in 0..Cardinality(Flew(f, s, q, p))
         /\ Cardinality(Flew(f, s, n, p))
              = Cardinality(Flew(f, s, q, p)) - Cardinality(Flew(f, s, q, n))
         /\ n = L => Cardinality(Flew(f, s, q, n)) = Cardinality(Flew(f, s, q, p))
<1> DEFINE D == Flew(f, s, q, p)
           T == Flew(f, s, q, n)
<1>0. /\ p <= L /\ q <= n /\ n <= L /\ Behind(f, s, p, q)
      /\ \E m \in Nat : /\ Cardinality(T) <= m
                        /\ p # L => m <= Cardinality(D)
  BY DEF CanTake
<1>1. IsFiniteSet(D) /\ IsFiniteSet(T) /\ Cardinality(D) \in Nat /\ Cardinality(T) \in Nat
  BY FlewFacts
<1>2. Flew(f, s, p, n) = {}
  <2> SUFFICES ASSUME NEW k \in Flew(f, s, p, n)
               PROVE  FALSE
    OBVIOUS
  <2>1. k \in (p + 1)..n /\ f[k] = s /\ p < k /\ p # L
    BY <1>0 DEF Flew
  <2>2. ~(k \in (p + 1)..q)
    BY <1>0, <2>1 DEF Flew, Behind
  <2>3. k \in T /\ k \notin D
    BY <2>1, <2>2 DEF Flew
  <2>4. D \subseteq T
    BY <1>0, <2>1 DEF Flew
  <2> HIDE DEF D, T
  <2>5. D \cup {k} \subseteq T /\ Cardinality(D \cup {k}) = Cardinality(D) + 1
    BY <1>1, <2>3, <2>4, FS_AddElement
  <2>6. Cardinality(D \cup {k}) <= Cardinality(T)
    BY <1>1, <2>5, FS_Subset
  <2>7. PICK m \in Nat : Cardinality(T) <= m /\ m <= Cardinality(D)
    BY <1>0, <2>1 DEF D, T
  <2> QED
    BY <1>1, <2>5, <2>6, <2>7
<1>3. T \subseteq D
  <2>1. ASSUME NEW k \in T
        PROVE  k \in D
    <3>1. k \in (q + 1)..n /\ f[k] = s
      BY DEF Flew
    <3>2. ~(k \in (p + 1)..n)
      BY <1>2, <3>1 DEF Flew
    <3> QED
      BY <3>1, <3>2 DEF Flew
  <2> QED
    BY <2>1
<1>4. Flew(f, s, n, p) = D \ T
  BY <1>0 DEF Flew
<1>5. n = L => T = D
  BY <1>0, <1>3 DEF Flew
<1> HIDE DEF D, T
<1>6. Cardinality(T) <= Cardinality(D)
  BY <1>1, <1>3, FS_Subset
<1>7. Cardinality(D \ T) = Cardinality(D) - Cardinality(T)
  <2>1. D \cap T = T
    BY <1>3
  <2> QED
    BY <1>1, <2>1, FS_Difference
<1>8. Cardinality(T) \in 0..Cardinality(D)
  BY <1>1, <1>6
<1> QED
  BY <1>2, <1>4, <1>5, <1>7, <1>8 DEF D, T, Behind

(* A side that goes on from q to n sends its own flights in between; the    *)
(* other one is at p, and has taken none of them.                           *)
LEMMA FlightsSent ==
  ASSUME NEW f, NEW s, NEW p \in Nat, NEW q \in Nat, NEW n \in Nat, q <= n,
         Behind(f, s, q, p)
  PROVE  /\ Behind(f, s, n, p)
         /\ Cardinality(Flew(f, s, p, n))
              = Cardinality(Flew(f, s, p, q)) + Cardinality(Flew(f, s, q, n))
<1> DEFINE D == Flew(f, s, p, q)
           T == Flew(f, s, q, n)
<1>1. IsFiniteSet(D) /\ IsFiniteSet(T)
  BY FlewFacts
<1>2. Behind(f, s, n, p)
  BY DEF Flew, Behind
<1>3. Flew(f, s, p, n) = D \cup T /\ D \cap T = {}
  <2>1. \A k \in T : ~(k \in (q + 1)..p)
    BY DEF Flew, Behind
  <2>2. \A k \in T : k \in (q + 1)..n /\ k > p
    BY <2>1 DEF Flew
  <2> QED
    BY <2>2 DEF Flew
<1> HIDE DEF D, T
<1>4. /\ Cardinality(D \cup T) = Cardinality(D) + Cardinality(T) - Cardinality(D \cap T)
      /\ Cardinality(D \cap T) = 0 /\ Cardinality(D) \in Nat /\ Cardinality(T) \in Nat
  BY <1>1, <1>3, FS_Union, FS_EmptySet, FS_CardinalityType
<1>5. Cardinality(D \cup T) = Cardinality(D) + Cardinality(T)
  BY <1>4
<1> QED
  BY <1>2, <1>3, <1>5 DEF D, T

LEMMA GreatestIn ==
  ASSUME NEW S \in SUBSET Nat, NEW L \in Nat, \A k \in S : k <= L, S # {}
  PROVE  Max(S) \in S
<1> DEFINE R == {L - k : k \in S}
<1>1. ASSUME NEW k \in S
      PROVE  k \in Nat /\ L - k \in Nat
  <2>1. k \in Nat /\ k <= L
    OBVIOUS
  <2> QED
    BY <2>1
<1>2. R \in SUBSET Nat /\ R # {}
  BY <1>1
<1>3. PICK r \in R : \A j \in R : r <= j
  <2> HIDE DEF R
  <2> QED
    BY <1>2, Least
<1>4. PICK x \in S : r = L - x
  OBVIOUS
<1>5. ASSUME NEW y \in S
      PROVE  x >= y
  <2>1. x \in Nat /\ y \in Nat /\ L - x <= L - y
    BY <1>1, <1>3, <1>4
  <2> QED
    BY <2>1
<1>6. \E m \in S : \A y \in S : m >= y
  BY <1>5
<1> QED
  BY <1>6, Zenon DEF Max

LEMMA ReachedFacts ==
  ASSUME NEW s \in Side, NEW bio, Whole(bio) \in Nat,
         Len(flights) \in Nat, steps[s] \in 0..Len(flights)
  PROVE  /\ Reached(s, bio) \in steps[s]..Len(flights)
         /\ Cardinality(FlightsOf(Other(s), s, Reached(s, bio))) <= Whole(bio)
<1> DEFINE S == {n \in steps[s]..Len(flights) :
                   Cardinality(FlightsOf(Other(s), s, n)) <= Whole(bio)}
<1>1. FlightsOf(Other(s), s, steps[s]) = {}
  BY DEF FlightsOf
<1>2. Cardinality({}) = 0
  BY FS_EmptySet
<1>3. steps[s] \in S
  BY <1>1, <1>2
<1>4. S \in SUBSET Nat /\ S # {} /\ \A k \in S : k <= Len(flights)
  BY <1>3
<1>5. Reached(s, bio) = Max(S)
  BY DEF Reached
<1>6. Max(S) \in S
  <2> HIDE DEF S
  <2> QED
    BY <1>4, GreatestIn
<1> QED
  BY <1>5, <1>6

-----------------------------------------------------------------------------
(* What lies between encrypt_buf_ of one side and consume() of the other.   *)

LEMMA CarriesFacts ==
  ASSUME NEW P, NEW n, NEW z, NEW a, NEW b, Carries(P, n, z, a, b)
  PROVE  /\ n \in Nat /\ z \in 0..n /\ a \in Nat /\ b \in Nat /\ a <= b
         /\ P \in Seq(Unit) /\ Len(P) = 2 * n
<1>1. PICK e : Run(P, e, n) /\ e[0] = a /\ e[n] = b /\ z \in 0..n /\ \A k \in 0..z : e[k] = a
  BY DEF Carries
<1>2. n \in Nat /\ P \in Seq(Unit) /\ Len(P) = 2 * n /\ \A k \in 0..n : e[k] \in Nat
  BY <1>1 DEF Run
<1>3. 0 \in 0..n /\ n \in 0..n /\ 0 <= n
  BY <1>2
<1>4. e[0] <= e[n]
  BY <1>1, <1>3, RunGrows
<1> QED
  BY <1>1, <1>2, <1>3, <1>4

LEMMA CarriesFewer ==
  ASSUME NEW P, NEW n, NEW z, NEW a, NEW b, Carries(P, n, z, a, b), NEW y \in 0..z
  PROVE  Carries(P, n, y, a, b)
<1>1. PICK e : Run(P, e, n) /\ e[0] = a /\ e[n] = b /\ z \in 0..n /\ \A k \in 0..z : e[k] = a
  BY DEF Carries
<1>2. y \in 0..n /\ \A k \in 0..y : k \in 0..z
  <2>1. n \in Nat
    BY <1>1 DEF Run
  <2> QED
    BY <1>1, <2>1
<1> QED
  BY <1>1, <1>2, Zenon DEF Carries

(* a bytes of the o that were enqueued are delivered, enc is not yet        *)
(* encrypted, and P is on the way: first z messages of the handshake, and   *)
(* nothing else before the handshake is done (p = L).                       *)
On(P, a, enc, o, z, p, L) ==
    \E n, b \in Nat : /\ Carries(P, n, z, a, b)
                      /\ b <= o /\ enc = Piece(b, o)
                      /\ p = L \/ n = z

Messages(P, z, p, L) == \E n \in Nat : Len(P) = 2 * n /\ z <= n /\ (p = L \/ n = z)

LEMMA OnFacts ==
  ASSUME NEW P, NEW a, NEW enc, NEW o \in Nat, NEW z, NEW p, NEW L, On(P, a, enc, o, z, p, L)
  PROVE  /\ P \in Seq(Unit) /\ a \in 0..o /\ z \in Nat /\ enc \in Seq(Nat)
         /\ Messages(P, z, p, L)
<1>1. PICK n, b \in Nat : Carries(P, n, z, a, b) /\ b <= o /\ enc = Piece(b, o) /\ (p = L \/ n = z)
  BY DEF On
<1>2. /\ n \in Nat /\ z \in 0..n /\ a \in Nat /\ b \in Nat /\ a <= b
      /\ P \in Seq(Unit) /\ Len(P) = 2 * n
  BY <1>1, CarriesFacts
<1>3. enc \in Seq(Nat)
  BY <1>1, PieceFacts
<1>4. a \in 0..o /\ z \in Nat /\ z <= n
  BY <1>1, <1>2
<1>5. Messages(P, z, p, L)
  BY <1>1, <1>2, <1>4 DEF Messages
<1> QED
  BY <1>2, <1>3, <1>4, <1>5

LEMMA OnEnqueue ==
  ASSUME NEW P, NEW a, NEW enc, NEW o \in Nat, NEW z, NEW p, NEW L, On(P, a, enc, o, z, p, L),
         NEW k \in Nat
  PROVE  On(P, a, enc \o Piece(o, o + k), o + k, z, p, L)
<1>1. PICK n, b \in Nat : Carries(P, n, z, a, b) /\ b <= o /\ enc = Piece(b, o) /\ (p = L \/ n = z)
  BY DEF On
<1>2. o + k \in Nat /\ o <= o + k /\ b <= o + k
  BY <1>1
<1>3. enc \o Piece(o, o + k) = Piece(b, o + k)
  BY <1>1, <1>2, PieceJoin
<1> QED
  BY <1>1, <1>2, <1>3 DEF On

LEMMA OnEncrypt ==
  ASSUME NEW P, NEW a, NEW enc, NEW o \in Nat, NEW z, NEW L, On(P, a, enc, o, z, L, L)
  PROVE  On(P \o Message(enc), a, <<>>, o, z, L, L)
<1>1. PICK n, b \in Nat : Carries(P, n, z, a, b) /\ b <= o /\ enc = Piece(b, o)
  BY DEF On
<1>2. Carries(Message(enc), 1, 0, b, o)
  BY <1>1, MessageRuns
<1>3. Carries(P \o Message(enc), n + 1, z, a, o)
  BY <1>1, <1>2, RunsJoin
<1>4. Piece(o, o) = <<>> /\ n + 1 \in Nat /\ o <= o
  BY PieceEmpty
<1> QED
  BY <1>3, <1>4 DEF On

(* Flights, and tickets at the end of the handshake. *)
LEMMA OnSend ==
  ASSUME NEW P, NEW a, NEW enc, NEW o \in Nat, NEW z, NEW p, NEW L,
         On(P, a, enc, o, z, p, L),
         NEW k \in Nat, NEW t \in Nat, p = L => k = 0 /\ t = 0,
         NEW m, p = L => m = L, t # 0 => m = L
  PROVE  On(P \o Empty(k + t), a, enc, o, z + k, m, L)
<1>1. PICK n, b \in Nat : Carries(P, n, z, a, b) /\ b <= o /\ enc = Piece(b, o) /\ (p = L \/ n = z)
  BY DEF On
<1>2. n \in Nat /\ z \in 0..n /\ b \in Nat /\ k + t \in Nat
  BY <1>1, CarriesFacts
<1>3. Carries(Empty(k + t), k + t, k + t, b, b)
  BY <1>2, EmptyRuns
<1>4. /\ Carries(P \o Empty(k + t), n + (k + t), z, a, b)
      /\ z = n => Carries(P \o Empty(k + t), n + (k + t), n + (k + t), a, b)
  BY <1>1, <1>3, RunsJoin
<1>5. CASE p = L
  <2>1. n + (k + t) = n /\ z + k = z
    BY <1>2, <1>5
  <2> QED
    BY <1>1, <1>4, <1>5, <2>1 DEF On
<1>6. CASE p # L
  <2> DEFINE h == n + (k + t)
  <2>1. h \in Nat /\ z + k \in 0..h /\ (t = 0 => h = z + k) /\ z = n
    BY <1>1, <1>2, <1>6
  <2>2. Carries(P \o Empty(k + t), h, z + k, a, b)
    BY <1>4, <2>1, CarriesFewer
  <2> HIDE DEF h
  <2>3. m = L \/ h = z + k
    BY <2>1
  <2> QED
    BY <1>1, <2>1, <2>2, <2>3 DEF On
<1> QED
  BY <1>5, <1>6

LEMMA OnTake ==
  ASSUME NEW P, NEW a, NEW enc, NEW o \in Nat, NEW z, NEW p, NEW L, On(P, a, enc, o, z, p, L),
         NEW c \in 0..z
  PROVE  On(SubSeq(P, 2 * c + 1, Len(P)), a, enc, o, z - c, p, L)
<1>1. PICK n, b \in Nat : Carries(P, n, z, a, b) /\ b <= o /\ enc = Piece(b, o) /\ (p = L \/ n = z)
  BY DEF On
<1>2. n \in Nat /\ z \in 0..n
  BY <1>1, CarriesFacts
<1>3. Carries(SubSeq(P, 2 * c + 1, Len(P)), n - c, z - c, a, b)
  BY <1>1, RunsDrop
<1>4. n - c \in Nat /\ (n = z => n - c = z - c)
  BY <1>2
<1> QED
  BY <1>1, <1>3, <1>4 DEF On

(* When the handshake is done all its messages are taken, and w records     *)
(* after them are decrypted.                                                *)
Opened(bio, P, a, enc, o, p, L, j) ==
    \E d \in Nat : /\ a <= d /\ d <= o /\ Decrypted(bio) = Piece(a, d)
                  /\ On(SubSeq(P, 2 * j + 1, Len(P)), d, enc, o, 0, p, L)

LEMMA OnOpen ==
  ASSUME NEW P, NEW a, NEW enc, NEW o \in Nat, NEW z, NEW p, NEW L, On(P, a, enc, o, z, p, L),
         NEW w \in Nat, 2 * (z + w) <= Len(P),
         NEW bio, Whole(bio) = w, \A k \in 1..w : bio[2 * k] = P[2 * (z + k)]
  PROVE  Opened(bio, P, a, enc, o, p, L, z + w)
<1>1. PICK n, b \in Nat : Carries(P, n, z, a, b) /\ b <= o /\ enc = Piece(b, o) /\ (p = L \/ n = z)
  BY DEF On
<1>2. n \in Nat /\ z \in 0..n /\ Len(P) = 2 * n
  BY <1>1, CarriesFacts
<1>3. z \in 0..z /\ z + w <= n /\ n - (z + w) \in Nat /\ (n = z => n - (z + w) = 0)
  BY <1>2
<1>4. PICK d \in Nat : /\ a <= d /\ d <= b /\ Decrypted(bio) = Piece(a, d)
                       /\ Carries(SubSeq(P, 2 * (z + w) + 1, Len(P)), n - (z + w), 0, d, b)
  BY <1>1, <1>3, RunsOpen
<1>5. d <= o
  BY <1>1, <1>4
<1>6. On(SubSeq(P, 2 * (z + w) + 1, Len(P)), d, enc, o, 0, p, L)
  BY <1>1, <1>3, <1>4 DEF On
<1> QED
  BY <1>4, <1>5, <1>6 DEF Opened

-----------------------------------------------------------------------------
LEMMA TailJoin ==
  ASSUME NEW S, NEW R \in Seq(S), NEW Q \in Seq(S), NEW d \in 0..Len(R)
  PROVE  SubSeq(R, d + 1, Len(R)) \o Q = SubSeq(R \o Q, d + 1, Len(R \o Q))
<1> DEFINE m == Len(R)
           n == Len(Q)
           J == R \o Q
           T == SubSeq(R, d + 1, Len(R))
           U == SubSeq(J, d + 1, Len(J))
<1>1. m \in Nat /\ n \in Nat /\ d \in 0..m
  OBVIOUS
<1>2. /\ J \in Seq(S) /\ Len(J) = m + n
      /\ \A i \in 1..m : J[i] = R[i]
      /\ \A i \in 1..n : J[m + i] = Q[i]
  BY Joined
<1>3. T \in Seq(S) /\ Len(T) = m - d /\ \A i \in 1..(m - d) : T[i] = R[d + i]
  BY TailFacts
<1>4. U \in Seq(S) /\ Len(U) = m + n - d /\ \A i \in 1..(m + n - d) : U[i] = J[d + i]
  <2>1. d \in 0..Len(J)
    BY <1>1, <1>2
  <2> HIDE DEF J, m, n
  <2>2. /\ U \in Seq(S) /\ Len(U) = Len(J) - d
        /\ \A i \in 1..(Len(J) - d) : U[i] = J[d + i]
    BY <1>2, <2>1, TailFacts
  <2> HIDE DEF U
  <2> QED
    BY <1>1, <1>2, <2>2
<1> HIDE DEF J, T, U
<1>5. /\ T \o Q \in Seq(S) /\ Len(T \o Q) = Len(T) + n
      /\ \A i \in 1..Len(T) : (T \o Q)[i] = T[i]
      /\ \A i \in 1..n : (T \o Q)[Len(T) + i] = Q[i]
  <2>1. T \in Seq(S) /\ Q \in Seq(S)
    BY <1>3
  <2> HIDE DEF m
  <2> QED
    BY <2>1, Joined
<1> DEFINE V == T \o Q
<1> HIDE DEF m, n, V
<1>6. /\ V \in Seq(S) /\ Len(V) = (m - d) + n
      /\ \A i \in 1..(m - d) : V[i] = T[i]
      /\ \A i \in 1..n : V[(m - d) + i] = Q[i]
  BY <1>3, <1>5 DEF V
<1>7. ASSUME NEW i \in 1..(m + n - d)
      PROVE  V[i] = U[i]
  <2>1. CASE i \in 1..(m - d)
    <3>1. d + i \in 1..m
      BY <1>1, <2>1
    <3> QED
      BY <1>2, <1>3, <1>4, <1>6, <2>1, <3>1
  <2>2. CASE i \notin 1..(m - d)
    <3> DEFINE j == i - (m - d)
    <3>1. j \in 1..n /\ i = (m - d) + j /\ d + i = m + j
      BY <1>1, <2>2
    <3> HIDE DEF j
    <3>2. V[i] = Q[j] /\ U[i] = J[m + j] /\ J[m + j] = Q[j]
      <4>1. V[i] = Q[j]
        BY <1>6, <3>1
      <4>2. U[i] = J[d + i]
        BY <1>4
      <4>3. J[m + j] = Q[j]
        BY <1>2, <3>1
      <4> QED
        BY <3>1, <4>1, <4>2, <4>3
    <3> QED
      BY <3>2
  <2> QED
    BY <2>1, <2>2
<1>8. Len(V) = m + n - d /\ Len(U) = m + n - d
  BY <1>1, <1>4, <1>6
<1>9. V = U
  BY <1>4, <1>6, <1>7, <1>8, SeqEqual
<1> QED
  BY <1>9 DEF V, U, T, J

LEMMA TailTail ==
  ASSUME NEW S, NEW q \in Seq(S), NEW d \in Nat, NEW e \in Nat, d + e <= Len(q),
         NEW t, t = SubSeq(q, d + 1, Len(q))
  PROVE  SubSeq(t, e + 1, Len(t)) = SubSeq(q, d + e + 1, Len(q))
<1> DEFINE n == Len(q)
           u == SubSeq(t, e + 1, Len(t))
           v == SubSeq(q, (d + e) + 1, Len(q))
<1>1. n \in Nat /\ d \in 0..n /\ e \in 0..(n - d) /\ d + e \in 0..n
  OBVIOUS
<1>2. t \in Seq(S) /\ Len(t) = n - d /\ \A i \in 1..(n - d) : t[i] = q[d + i]
  BY <1>1, TailFacts
<1>3. /\ v \in Seq(S) /\ Len(v) = n - (d + e)
      /\ \A i \in 1..(n - (d + e)) : v[i] = q[(d + e) + i]
  BY <1>1, TailFacts
<1>4. u \in Seq(S) /\ Len(u) = (n - d) - e /\ \A i \in 1..((n - d) - e) : u[i] = t[e + i]
  <2>1. e \in 0..Len(t)
    BY <1>1, <1>2
  <2> HIDE DEF n
  <2>2. /\ u \in Seq(S) /\ Len(u) = Len(t) - e
        /\ \A i \in 1..(Len(t) - e) : u[i] = t[e + i]
    BY <1>2, <2>1, TailFacts
  <2> HIDE DEF u
  <2> QED
    BY <1>2, <2>2
<1> HIDE DEF n, u, v
<1>5. ASSUME NEW i \in 1..(n - (d + e))
      PROVE  u[i] = v[i]
  <2>1. i \in 1..((n - d) - e) /\ e + i \in 1..(n - d) /\ d + (e + i) = (d + e) + i
    BY <1>1
  <2> QED
    BY <1>2, <1>3, <1>4, <2>1
<1>6. (n - d) - e = n - (d + e)
  BY <1>1
<1>7. u = v
  BY <1>3, <1>4, <1>5, <1>6, SeqEqual
<1> QED
  BY <1>7 DEF u, v

LEMMA WholeFacts ==
  ASSUME NEW S, NEW q \in Seq(S)
  PROVE  /\ Whole(q) \in Nat /\ 2 * Whole(q) <= Len(q) /\ Len(q) <= 2 * Whole(q) + 1
<1> DEFINE n == Len(q)
<1>1. n \in Nat
  OBVIOUS
<1> HIDE DEF n
<1>2. n \div 2 \in Nat /\ 2 * (n \div 2) <= n /\ n <= 2 * (n \div 2) + 1
  BY <1>1
<1> QED
  BY <1>2 DEF Whole, n

(* A direction: the sender x is at p of the handshake f, the receiver at q. *)
(* The receiver is not ahead of the flights that x has sent, and what is on *)
(* the way begins with those that it has not taken.                         *)
Link(f, p, q, x, P, a, enc, o) ==
    /\ Behind(f, x, p, q)
    /\ On(P, a, enc, o, Cardinality(Flew(f, x, q, p)), p, Len(f))

LEMMA LinkSend ==
  ASSUME NEW f, NEW p \in Nat, NEW q \in Nat, NEW x, NEW P, NEW a, NEW enc, NEW o \in Nat,
         Link(f, p, q, x, P, a, enc, o), Len(f) \in Nat, p <= Len(f),
         NEW n \in p..Len(f), NEW t \in Nat, t # 0 => n = Len(f) /\ p # Len(f)
  PROVE  Link(f, n, q, x, P \o Empty(Cardinality(Flew(f, x, p, n)) + t), a, enc, o)
<1> DEFINE k == Cardinality(Flew(f, x, p, n))
           z == Cardinality(Flew(f, x, q, p))
           L == Len(f)
<1>1. Behind(f, x, p, q) /\ On(P, a, enc, o, z, p, Len(f))
  BY DEF Link
<1>2. n \in Nat /\ p <= n
  OBVIOUS
<1>3. Behind(f, x, n, q) /\ Cardinality(Flew(f, x, q, n)) = z + k
  <2>1. Behind(f, x, p, q)
    BY <1>1
  <2> HIDE DEF L
  <2> QED
    BY <1>2, <2>1, FlightsSent
<1>4. k \in Nat /\ (n <= p => k = 0)
  BY <1>2, FlewFacts
<1>5. p = Len(f) => k = 0 /\ t = 0 /\ n = Len(f)
  BY <1>4
<1>6. t # 0 => n = Len(f)
  OBVIOUS
<1> HIDE DEF k, z
<1>7. On(P \o Empty(k + t), a, enc, o, z + k, n, Len(f))
  BY <1>1, <1>4, <1>5, <1>6, OnSend, Zenon
<1> QED
  BY <1>3, <1>7 DEF Link, k

(* What the receiver has got is R; it takes its flights from there. *)
LEMMA LinkTakes ==
  ASSUME NEW f, NEW p \in Nat, NEW q \in Nat, NEW x, NEW R \in Seq(Unit), NEW Q \in Seq(Unit),
         NEW a, NEW enc, NEW o \in Nat, Link(f, p, q, x, R \o Q, a, enc, o),
         Len(f) \in Nat, p <= Len(f), NEW n \in q..Len(f),
         Cardinality(Flew(f, x, q, n)) <= Whole(R)
  PROVE  /\ Behind(f, x, p, n)
         /\ Cardinality(Flew(f, x, q, n)) \in 0..Cardinality(Flew(f, x, q, p))
         /\ Cardinality(Flew(f, x, n, p))
              = Cardinality(Flew(f, x, q, p)) - Cardinality(Flew(f, x, q, n))
         /\ n = Len(f) => Cardinality(Flew(f, x, q, n)) = Cardinality(Flew(f, x, q, p))
<1> DEFINE z == Cardinality(Flew(f, x, q, p))
           L == Len(f)
           m == Whole(R)
           r == Len(R)
<1>1. Behind(f, x, p, q) /\ On(R \o Q, a, enc, o, z, p, Len(f))
  BY DEF Link
<1>2. PICK h \in Nat : Len(R \o Q) = 2 * h /\ (p = L \/ h = z)
  <2> HIDE DEF z, m, r
  <2>1. Messages(R \o Q, z, p, Len(f))
    BY <1>1, OnFacts
  <2> QED
    BY <2>1 DEF Messages
<1>3. m \in Nat /\ 2 * m <= r
  BY WholeFacts
<1>4. r \in Nat /\ Len(Q) \in Nat /\ Len(R \o Q) = r + Len(Q)
  BY Joined
<1> HIDE DEF m, r, z
<1>5. p # L => m <= z
  BY <1>2, <1>3, <1>4
<1>6. n \in Nat /\ q <= n /\ n <= L /\ L \in Nat /\ p <= L /\ Cardinality(Flew(f, x, q, n)) <= m
  BY DEF m
<1> HIDE DEF L
<1>7. /\ Behind(f, x, p, n)
      /\ Cardinality(Flew(f, x, q, n)) \in 0..Cardinality(Flew(f, x, q, p))
      /\ Cardinality(Flew(f, x, n, p))
           = Cardinality(Flew(f, x, q, p)) - Cardinality(Flew(f, x, q, n))
      /\ n = L => Cardinality(Flew(f, x, q, n)) = Cardinality(Flew(f, x, q, p))
  <2>1. p # L => m <= Cardinality(Flew(f, x, q, p))
    BY <1>5 DEF z
  <2>2. Behind(f, x, p, q) /\ m \in Nat
    BY <1>1, <1>3
  <2>3. CanTake(f, x, p, q, n, L)
    BY <1>6, <2>1, <2>2 DEF CanTake
  <2> QED
    BY <1>6, <2>3, FlightsTaken
<1> QED
  BY <1>7 DEF L

LEMMA LinkTake ==
  ASSUME NEW f, NEW p \in Nat, NEW q \in Nat, NEW x, NEW R \in Seq(Unit), NEW Q \in Seq(Unit),
         NEW a, NEW enc, NEW o \in Nat, Link(f, p, q, x, R \o Q, a, enc, o),
         Len(f) \in Nat, p <= Len(f), NEW n \in q..Len(f),
         NEW c, c = Cardinality(Flew(f, x, q, n)), c <= Whole(R)
  PROVE  Link(f, p, n, x, After(R, c) \o Q, a, enc, o)
<1> DEFINE z == Cardinality(Flew(f, x, q, p))
<1>1. /\ Behind(f, x, p, n) /\ c \in 0..z
      /\ Cardinality(Flew(f, x, n, p)) = z - c
  BY LinkTakes
<1>2. On(R \o Q, a, enc, o, z, p, Len(f))
  BY DEF Link
<1> HIDE DEF z
<1>3. On(SubSeq(R \o Q, 2 * c + 1, Len(R \o Q)), a, enc, o, z - c, p, Len(f))
  BY <1>1, <1>2, OnTake
<1>4. 2 * c \in 0..Len(R)
  <2>1. Whole(R) \in Nat /\ 2 * Whole(R) <= Len(R) /\ Len(R) \in Nat /\ z \in Nat
    <3>1. Whole(R) \in Nat /\ 2 * Whole(R) <= Len(R) /\ Len(R) \in Nat
      BY WholeFacts
    <3>2. z \in Nat
      BY <1>2, OnFacts, Zenon
    <3> QED
      BY <3>1, <3>2
  <2> DEFINE w == Whole(R)
             r == Len(R)
  <2>2. w \in Nat /\ 2 * w <= r /\ r \in Nat /\ z \in Nat /\ c <= w /\ c \in 0..z
    BY <1>1, <2>1
  <2> HIDE DEF w, r
  <2>3. 2 * c \in 0..r
    BY <2>2
  <2> QED
    BY <2>3 DEF r
<1>5. After(R, c) \o Q = SubSeq(R \o Q, 2 * c + 1, Len(R \o Q))
  BY <1>4, TailJoin DEF After
<1> QED
  BY <1>1, <1>3, <1>5 DEF Link, z

(* The handshake is done, and bio is what it has left. *)
Opens(f, p, x, bio, Q, a, enc, o) ==
    \E d \in Nat : /\ a <= d /\ d <= o /\ Decrypted(bio) = Piece(a, d)
                  /\ Link(f, p, Len(f), x, After(bio, Whole(bio)) \o Q, d, enc, o)

LEMMA LinkOpen ==
  ASSUME NEW f, NEW p \in Nat, NEW q \in Nat, NEW x, NEW R \in Seq(Unit), NEW Q \in Seq(Unit),
         NEW a, NEW enc, NEW o \in Nat, Link(f, p, q, x, R \o Q, a, enc, o),
         Len(f) \in Nat, p <= Len(f), q <= Len(f),
         NEW c, c = Cardinality(Flew(f, x, q, Len(f))), c <= Whole(R),
         NEW bio, bio = After(R, c)
  PROVE  Opens(f, p, x, bio, Q, a, enc, o)
<1> DEFINE z == Cardinality(Flew(f, x, q, p))
           L == Len(f)
           w == Whole(bio)
           r == Len(R)
           J == R \o Q
<1>1. /\ Behind(f, x, p, L) /\ c \in 0..z
      /\ Cardinality(Flew(f, x, L, p)) = z - c /\ c = z
  <2>1. L \in q..L /\ Cardinality(Flew(f, x, q, L)) <= Whole(R)
    OBVIOUS
  <2>2. /\ Behind(f, x, p, L)
        /\ Cardinality(Flew(f, x, q, L)) \in 0..Cardinality(Flew(f, x, q, p))
        /\ Cardinality(Flew(f, x, L, p))
             = Cardinality(Flew(f, x, q, p)) - Cardinality(Flew(f, x, q, L))
        /\ L = Len(f) => Cardinality(Flew(f, x, q, L)) = Cardinality(Flew(f, x, q, p))
    BY <2>1, LinkTakes
  <2> QED
    BY <2>2
<1>2. On(J, a, enc, o, z, p, Len(f))
  BY DEF Link
<1> HIDE DEF z, L
<1>3. z \in Nat /\ z - c = 0
  BY <1>1, <1>2, OnFacts
<1>4. r \in Nat /\ 2 * c \in 0..r
  <2>1. Whole(R) \in Nat /\ 2 * Whole(R) <= r /\ r \in Nat
    BY WholeFacts
  <2> DEFINE v == Whole(R)
  <2>2. v \in Nat /\ c <= v /\ 2 * v <= r /\ r \in Nat /\ c \in Nat
    BY <1>1, <1>3, <2>1
  <2> HIDE DEF v, r
  <2> QED
    BY <2>2
<1>5. /\ bio \in Seq(Unit) /\ Len(bio) = r - 2 * c
      /\ \A i \in 1..(r - 2 * c) : bio[i] = R[2 * c + i]
  BY <1>4, TailFacts DEF After
<1>6. w \in Nat /\ 2 * w <= r - 2 * c
  BY <1>5, WholeFacts
<1>7. /\ J \in Seq(Unit) /\ Len(J) = r + Len(Q) /\ Len(Q) \in Nat
      /\ \A i \in 1..r : J[i] = R[i]
  BY Joined
<1> HIDE DEF J, r
<1>8. 2 * (z + w) <= Len(J) /\ 2 * c + 2 * w = 2 * (z + w) /\ 2 * (z + w) \in 0..r
      /\ 2 * c + 2 * w <= r
  <2> DEFINE j == Len(J)
             l == Len(Q)
  <2>1. w \in Nat /\ r \in Nat /\ z \in Nat /\ l \in Nat
    BY <1>3, <1>4, <1>6, <1>7
  <2>2. c = z /\ 2 * w <= r - 2 * c /\ j = r + l
    BY <1>1, <1>6, <1>7
  <2> HIDE DEF w, j, l
  <2>3. 2 * c + 2 * w = 2 * (z + w) /\ 2 * c + 2 * w <= r
    BY <2>1, <2>2
  <2>4. 2 * (z + w) <= j /\ 2 * (z + w) \in 0..r
    BY <2>1, <2>2
  <2> QED
    BY <2>3, <2>4 DEF j
<1>9. Whole(bio) = w
  OBVIOUS
<1> HIDE DEF w
<1>10. \A k \in 1..w : bio[2 * k] = J[2 * (z + k)]
  <2>1. ASSUME NEW k \in 1..w
        PROVE  bio[2 * k] = J[2 * (z + k)]
    <3>1. 2 * k \in 1..(r - 2 * c) /\ 2 * c + 2 * k \in 1..r /\ 2 * c + 2 * k = 2 * (z + k)
      BY <1>1, <1>3, <1>4, <1>6
    <3> QED
      BY <1>5, <1>7, <3>1
  <2> QED
    BY <2>1
<1>11. PICK d \in Nat : /\ a <= d /\ d <= o /\ Decrypted(bio) = Piece(a, d)
                        /\ On(SubSeq(J, 2 * (z + w) + 1, Len(J)), d, enc, o, 0, p, Len(f))
  <2>1. Opened(bio, J, a, enc, o, p, Len(f), z + w)
    BY <1>2, <1>6, <1>8, <1>9, <1>10, OnOpen
  <2> QED
    BY <2>1 DEF Opened
<1>12. After(bio, w) \o Q = SubSeq(J, 2 * (z + w) + 1, Len(J))
  <2>1. After(bio, w) = SubSeq(R, (2 * c + 2 * w) + 1, Len(R))
    <3> DEFINE e == 2 * c
               g == 2 * w
    <3>1. e \in Nat /\ g \in Nat /\ e + g <= Len(R)
      BY <1>4, <1>6, <1>8 DEF r
    <3>2. bio = SubSeq(R, e + 1, Len(R)) /\ After(bio, w) = SubSeq(bio, g + 1, Len(bio))
      BY DEF After
    <3> HIDE DEF e, g
    <3>3. SubSeq(bio, g + 1, Len(bio)) = SubSeq(R, e + g + 1, Len(R))
      BY <3>1, <3>2, TailTail
    <3> QED
      BY <3>2, <3>3 DEF e, g
  <2>2. 2 * (z + w) \in 0..Len(R)
    BY <1>8 DEF r
  <2> QED
    BY <1>8, <2>1, <2>2, TailJoin DEF J
<1>13. Link(f, p, L, x, After(bio, w) \o Q, d, enc, o)
  BY <1>1, <1>3, <1>11, <1>12 DEF Link
<1> QED
  BY <1>9, <1>11, <1>13 DEF L, Opens

LEMMA LinkEnqueue ==
  ASSUME NEW f, NEW p, NEW q, NEW x, NEW P, NEW a, NEW enc, NEW o \in Nat,
         Link(f, p, q, x, P, a, enc, o), NEW k \in Nat
  PROVE  Link(f, p, q, x, P, a, enc \o Piece(o, o + k), o + k)
BY OnEnqueue DEF Link

LEMMA LinkEncrypt ==
  ASSUME NEW f, NEW p, NEW q, NEW x, NEW P, NEW a, NEW enc, NEW o \in Nat,
         Link(f, p, q, x, P, a, enc, o), p = Len(f)
  PROVE  Link(f, p, q, x, P \o Message(enc), a, <<>>, o)
<1> DEFINE z == Cardinality(Flew(f, x, q, p))
<1>1. On(P, a, enc, o, z, p, Len(f)) /\ Behind(f, x, p, q)
  BY DEF Link
<1> HIDE DEF z
<1>2. On(P \o Message(enc), a, <<>>, o, z, p, Len(f))
  BY <1>1, OnEncrypt
<1> QED
  BY <1>1, <1>2 DEF Link, z

LEMMA LinkFacts ==
  ASSUME NEW f, NEW p, NEW q, NEW x, NEW P, NEW a, NEW enc, NEW o \in Nat,
         Link(f, p, q, x, P, a, enc, o)
  PROVE  P \in Seq(Unit) /\ a \in 0..o /\ enc \in Seq(Nat)
<1> DEFINE z == Cardinality(Flew(f, x, q, p))
<1>1. On(P, a, enc, o, z, p, Len(f))
  BY DEF Link
<1> HIDE DEF z
<1> QED
  BY <1>1, OnFacts

-----------------------------------------------------------------------------
(* The invariant. *)

Types ==
    /\ flights \in Seq(Side)
    /\ state \in [Side -> {"new", "up", "failed", "removed"}]
    /\ steps \in [Side -> 0..Len(flights)]
    /\ rbio \in [Side -> Seq(Unit)] /\ wbio \in [Side -> Seq(Unit)]
    /\ unsent \in [Side -> Seq(Unit)] /\ wire \in [Side -> Seq(Unit)]
    /\ encrypting \in [Side -> Seq(Nat)] /\ delivered \in [Side -> Seq(Nat)]
    /\ offered \in [Side -> Nat]

(* What a side has written and the other one has not used. *)
Pending(s) == (rbio[Other(s)] \o wire[s]) \o unsent[s]

(* As long as the receiver goes on, nothing on its way is lost, cut, or     *)
(* out of order.                                                            *)
Way(s) ==
    state[Other(s)] # "failed" =>
      Link(flights, steps[s], steps[Other(s)], s, Pending(s), Len(delivered[Other(s)]),
           encrypting[s], offered[s])

(* Only the alert of a side that failed stays in its wbio_. *)
Flushed == \A s \in Side : state[s] # "failed" => wbio[s] = <<>>

TlsInv == Types /\ Flushed /\ \A s \in Side : Way(s)

(* A step of the stream that s offers. *)
Streams(s) ==
    \/ offered'[s] > offered[s] /\ delivered'[Other(s)] = delivered[Other(s)]
    \/ /\ offered'[s] = offered[s]
       /\ \E n \in 1..(offered[s] - Len(delivered[Other(s)])) :
            delivered'[Other(s)] = delivered[Other(s)]
                                     \o [i \in 1..n |-> Len(delivered[Other(s)]) + i]
    \/ offered'[s] = offered[s] /\ delivered'[Other(s)] = delivered[Other(s)]

LEMMA Sides ==
  ASSUME NEW s \in Side
  PROVE  /\ Other(s) \in Side /\ Other(s) # s /\ Other(Other(s)) = s
         /\ \A x \in Side : x = s \/ x = Other(s)
BY DEF Side, Other

LEMMA Changed ==
  ASSUME NEW S, NEW V, NEW f \in [S -> V], NEW s \in S, NEW v \in V
  PROVE  /\ [f EXCEPT ![s] = v] \in [S -> V] /\ [f EXCEPT ![s] = v][s] = v
         /\ \A x \in S : x # s => [f EXCEPT ![s] = v][x] = f[x]
OBVIOUS

LEMMA MessageUnits ==
  ASSUME NEW data \in Seq(Nat)
  PROVE  Message(data) \in Seq(Unit)
BY DEF Message, Unit

(* A direction that a step leaves alone. *)
LEMMA WayKept ==
  ASSUME NEW s \in Side, Way(s), flights' = flights,
         steps'[s] = steps[s], steps'[Other(s)] = steps[Other(s)],
         rbio'[Other(s)] = rbio[Other(s)], wire'[s] = wire[s], unsent'[s] = unsent[s],
         delivered'[Other(s)] = delivered[Other(s)],
         encrypting'[s] = encrypting[s], offered'[s] = offered[s],
         state'[Other(s)] # "failed" => state[Other(s)] # "failed"
  PROVE  Way(s)' /\ Streams(s)
<1>1. Pending(s)' = Pending(s)
  BY DEF Pending
<1>2. Way(s)'
  BY <1>1, Zenon DEF Way
<1>3. Streams(s)
  BY DEF Streams
<1> QED
  BY <1>2, <1>3

(* Enqueueing. *)
LEMMA ChunkIsPiece ==
  ASSUME Types, NEW s \in Side, NEW n \in Chunks
  PROVE  /\ n \in Nat /\ n > 0 /\ offered[s] \in Nat
         /\ Chunk(s, n) = Piece(offered[s], offered[s] + n) /\ Chunk(s, n) \in Seq(Nat)
<1> DEFINE o == offered[s]
<1>1. n \in Nat /\ n > 0 /\ o \in Nat /\ (o + n) - o = n /\ o + n \in Nat /\ o <= o + n
  BY TlsAssumption DEF Types
<1>2. Chunk(s, n) = [k \in 1..n |-> o + k]
  BY DEF Chunk
<1>3. Piece(o, o + n) = [i \in 1..((o + n) - o) |-> o + i]
  BY DEF Piece
<1> HIDE DEF o
<1>4. Chunk(s, n) = Piece(o, o + n) /\ Piece(o, o + n) \in Seq(Nat)
  BY <1>1, <1>2, <1>3, PieceFacts
<1> QED
  BY <1>1, <1>4 DEF o

Enqueues(s) == UNCHANGED <<encrypting, offered>> \/ \E n \in Chunks : Enqueue(s, n)

LEMMA EnqueueFacts ==
  ASSUME Types, NEW s \in Side, Enqueues(s)
  PROVE  /\ encrypting' \in [Side -> Seq(Nat)] /\ offered' \in [Side -> Nat]
         /\ encrypting'[Other(s)] = encrypting[Other(s)] /\ offered'[Other(s)] = offered[Other(s)]
         /\ offered'[s] > offered[s] \/ offered'[s] = offered[s]
         /\ \A f, p, q, P, a : Link(f, p, q, s, P, a, encrypting[s], offered[s])
              => Link(f, p, q, s, P, a, encrypting'[s], offered'[s])
<1>1. Other(s) \in Side /\ Other(s) # s
  BY Sides
<1>2. encrypting \in [Side -> Seq(Nat)] /\ offered \in [Side -> Nat]
  BY DEF Types
<1>3. CASE UNCHANGED <<encrypting, offered>>
  BY <1>2, <1>3
<1>4. ASSUME NEW n \in Chunks, Enqueue(s, n)
      PROVE  /\ encrypting' \in [Side -> Seq(Nat)] /\ offered' \in [Side -> Nat]
             /\ encrypting'[Other(s)] = encrypting[Other(s)]
             /\ offered'[Other(s)] = offered[Other(s)]
             /\ offered'[s] > offered[s]
             /\ \A f, p, q, P, a : Link(f, p, q, s, P, a, encrypting[s], offered[s])
                  => Link(f, p, q, s, P, a, encrypting'[s], offered'[s])
  <2> DEFINE o == offered[s]
             e == encrypting[s]
  <2>1. /\ n \in Nat /\ n > 0 /\ o \in Nat /\ e \in Seq(Nat)
        /\ Chunk(s, n) = Piece(o, o + n) /\ Chunk(s, n) \in Seq(Nat)
    BY <1>2, ChunkIsPiece
  <2>2. o + n \in Nat /\ o + n > o
    BY <2>1
  <2>3. e \o Chunk(s, n) \in Seq(Nat)
    BY <2>1
  <2>4. /\ encrypting' = [encrypting EXCEPT ![s] = e \o Chunk(s, n)]
        /\ offered' = [offered EXCEPT ![s] = o + n]
    BY <1>4 DEF Enqueue
  <2> HIDE DEF o, e
  <2>5. /\ encrypting' \in [Side -> Seq(Nat)] /\ encrypting'[s] = e \o Chunk(s, n)
        /\ encrypting'[Other(s)] = encrypting[Other(s)]
    BY <1>1, <1>2, <2>3, <2>4, Changed
  <2>6. /\ offered' \in [Side -> Nat] /\ offered'[s] = o + n
        /\ offered'[Other(s)] = offered[Other(s)]
    BY <1>1, <1>2, <2>2, <2>4, Changed
  <2>7. ASSUME NEW f, NEW p, NEW q, NEW P, NEW a, Link(f, p, q, s, P, a, e, o)
        PROVE  Link(f, p, q, s, P, a, encrypting'[s], offered'[s])
    <3>1. Link(f, p, q, s, P, a, e \o Piece(o, o + n), o + n)
      BY <2>1, <2>7, LinkEnqueue
    <3> QED
      BY <2>1, <2>5, <2>6, <3>1
  <2> QED
    BY <2>2, <2>5, <2>6, <2>7 DEF o, e
<1> QED
  BY <1>3, <1>4 DEF Enqueues

(* The transport's buffer grows. *)
LEMMA PendingGrows ==
  ASSUME Types, NEW s \in Side, NEW w \in Seq(Unit), unsent' = [unsent EXCEPT ![s] = @ \o w],
         wire'[s] = wire[s], rbio'[Other(s)] = rbio[Other(s)]
  PROVE  /\ unsent' \in [Side -> Seq(Unit)] /\ unsent'[Other(s)] = unsent[Other(s)]
         /\ Pending(s)' = Pending(s) \o w
<1>1. Other(s) \in Side /\ Other(s) # s
  BY Sides
<1>2. unsent \in [Side -> Seq(Unit)] /\ unsent[s] \in Seq(Unit)
  BY DEF Types
<1>3. unsent[s] \o w \in Seq(Unit) /\ unsent' = [unsent EXCEPT ![s] = unsent[s] \o w]
  BY <1>2
<1>4. /\ unsent' \in [Side -> Seq(Unit)] /\ unsent'[s] = unsent[s] \o w
      /\ unsent'[Other(s)] = unsent[Other(s)]
  BY <1>1, <1>2, <1>3, Changed
<1>5. rbio[Other(s)] \o wire[s] \in Seq(Unit)
  <2>1. rbio[Other(s)] \in Seq(Unit) /\ wire[s] \in Seq(Unit)
    BY <1>1 DEF Types
  <2> QED
    BY <2>1, ConcatProperties
<1>6. Pending(s)' = (rbio[Other(s)] \o wire[s]) \o (unsent[s] \o w)
  BY <1>4 DEF Pending
<1>7. Pending(s)' = ((rbio[Other(s)] \o wire[s]) \o unsent[s]) \o w
  <2> DEFINE r == rbio[Other(s)] \o wire[s]
             u == unsent[s]
  <2>1. r \in Seq(Unit) /\ u \in Seq(Unit) /\ Pending(s)' = r \o (u \o w)
    BY <1>2, <1>5, <1>6
  <2> HIDE DEF r, u
  <2>2. (r \o u) \o w = r \o (u \o w)
    BY <2>1, ConcatAssociative
  <2> QED
    BY <2>1, <2>2 DEF r, u
<1> QED
  BY <1>4, <1>7 DEF Pending

(* What a side does in a handshake: it goes on to flight n, takes c flights *)
(* of the other side from bio, and sends its own, with t tickets.           *)
Shakes(s, hs, bio, n, c, t) ==
    /\ n \in steps[s]..Len(flights) /\ hs.steps = n
    /\ c = Cardinality(Flew(flights, Other(s), steps[s], n)) /\ c \in Nat /\ c <= Whole(bio)
    /\ hs.rbio = After(bio, c)
    /\ t \in Nat /\ (t # 0 => n = Len(flights) /\ steps[s] # Len(flights))
    /\ hs.wbio = Empty(Cardinality(Flew(flights, s, steps[s], n)) + t)
    /\ hs.wbio \in Seq(Unit)

LEMMA HandshakeFacts ==
  ASSUME Types, NEW s \in Side, NEW bio \in Seq(Unit)
  PROVE  \E n, c, t : Shakes(s, Handshake(s, bio), bio, n, c, t)
<1> DEFINE hs == Handshake(s, bio)
           n == Reached(s, bio)
           c == Cardinality(FlightsOf(Other(s), s, n))
           k == Cardinality(FlightsOf(s, s, n))
           t == IF s = "server" /\ n = Len(flights) /\ ~Finished(s) THEN Tickets ELSE 0
<1>1. hs.steps = n /\ hs.rbio = After(bio, c) /\ hs.wbio = Empty(k + t)
  BY DEF Handshake
<1>2. Len(flights) \in Nat /\ steps[s] \in 0..Len(flights) /\ Whole(bio) \in Nat
  BY WholeFacts DEF Types
<1>3. n \in steps[s]..Len(flights) /\ c <= Whole(bio)
  BY <1>2, ReachedFacts
<1>4. \A x : FlightsOf(x, s, n) = Flew(flights, x, steps[s], n)
  BY DEF FlightsOf, Flew
<1>5. c \in Nat /\ k \in Nat
  <2>1. steps[s] \in Nat /\ n \in Nat
    BY <1>2, <1>3
  <2> HIDE DEF n
  <2> QED
    BY <1>4, <2>1, FlewFacts
<1>6. t \in Nat /\ (t # 0 => n = Len(flights) /\ steps[s] # Len(flights))
  BY TlsAssumption DEF Finished
<1> HIDE DEF hs, n, t
<1>7. k + t \in Nat
  BY <1>5, <1>6
<1>8. hs.wbio \in Seq(Unit)
  BY <1>1, <1>7, EmptyUnits
<1>9. Shakes(s, hs, bio, n, c, t)
  BY <1>1, <1>3, <1>4, <1>5, <1>6, <1>8 DEF Shakes
<1> QED
  BY <1>9 DEF hs

(* The direction in which a side sends in its handshake. *)
LEMMA ShakesOut ==
  ASSUME Types, NEW s \in Side, Way(s), NEW hs, NEW bio, NEW n, NEW c, NEW t,
         Shakes(s, hs, bio, n, c, t), state[Other(s)] # "failed"
  PROVE  Link(flights, n, steps[Other(s)], s, Pending(s) \o hs.wbio, Len(delivered[Other(s)]),
              encrypting[s], offered[s])
<1> DEFINE k == Cardinality(Flew(flights, s, steps[s], n))
           a == Len(delivered[Other(s)])
           p == steps[s]
           q == steps[Other(s)]
           o == offered[s]
<1>1. Link(flights, p, q, s, Pending(s), a, encrypting[s], o)
  BY DEF Way
<1>2. /\ n \in p..Len(flights) /\ t \in Nat /\ (t # 0 => n = Len(flights) /\ p # Len(flights))
      /\ hs.wbio = Empty(k + t)
  BY DEF Shakes
<1>3. /\ Len(flights) \in Nat /\ p \in Nat /\ p <= Len(flights) /\ q \in Nat /\ o \in Nat
  BY Sides DEF Types
<1> HIDE DEF a, p, q, o
<1>4. Link(flights, n, q, s, Pending(s) \o Empty(Cardinality(Flew(flights, s, p, n)) + t), a,
           encrypting[s], o)
  BY <1>1, <1>2, <1>3, LinkSend
<1> QED
  BY <1>2, <1>4 DEF a, q, o, p

(* The direction from which it takes: what it has got is R, Q is to come. *)
LEMMA ShakesIn ==
  ASSUME Types, NEW s \in Side, Way(Other(s)), state[s] # "failed",
         NEW R \in Seq(Unit), NEW Q \in Seq(Unit), Pending(Other(s)) = R \o Q,
         NEW hs, NEW n, NEW c, NEW t, Shakes(s, hs, R, n, c, t)
  PROVE  /\ Link(flights, steps[Other(s)], n, Other(s), hs.rbio \o Q, Len(delivered[s]),
                 encrypting[Other(s)], offered[Other(s)])
         /\ n = Len(flights) =>
              Opens(flights, steps[Other(s)], Other(s), hs.rbio, Q, Len(delivered[s]),
                    encrypting[Other(s)], offered[Other(s)])
<1> DEFINE x == Other(s)
           a == Len(delivered[s])
           p == steps[x]
           q == steps[s]
           o == offered[x]
           e == encrypting[x]
<1>1. Link(flights, p, q, x, R \o Q, a, e, o)
  BY Sides DEF Way
<1>2. /\ n \in q..Len(flights) /\ hs.rbio = After(R, c) /\ c <= Whole(R)
      /\ c = Cardinality(Flew(flights, x, q, n))
  BY DEF Shakes
<1>3. /\ Len(flights) \in Nat /\ p \in Nat /\ p <= Len(flights) /\ q \in Nat
      /\ q <= Len(flights) /\ o \in Nat
  BY Sides DEF Types
<1> HIDE DEF x, a, p, q, o, e
<1>4. Link(flights, p, n, x, After(R, c) \o Q, a, e, o)
  BY <1>1, <1>2, <1>3, LinkTake
<1>5. ASSUME n = Len(flights)
      PROVE  Opens(flights, p, x, hs.rbio, Q, a, e, o)
  BY <1>1, <1>2, <1>3, <1>5, LinkOpen
<1> QED
  BY <1>2, <1>4, <1>5 DEF x, a, p, q, o, e

(* What consume() gives to the application is a piece of the stream. *)
LEMMA DeliveredFacts ==
  ASSUME NEW y \in Seq(Nat), NEW o \in Nat, NEW d \in Nat, Len(y) <= d, d <= o
  PROVE  /\ y \o Piece(Len(y), d) \in Seq(Nat) /\ Len(y \o Piece(Len(y), d)) = d
         /\ \/ y \o Piece(Len(y), d) = y
            \/ \E n \in 1..(o - Len(y)) :
                 y \o Piece(Len(y), d) = y \o [i \in 1..n |-> Len(y) + i]
<1> DEFINE a == Len(y)
           w == Piece(a, d)
           v == y \o w
<1>1. a \in Nat /\ a <= d
  OBVIOUS
<1>2. w \in Seq(Nat) /\ Len(w) = d - a
  BY <1>1, PieceFacts
<1>3. w = [i \in 1..(d - a) |-> a + i]
  BY DEF Piece
<1>4. v \in Seq(Nat) /\ Len(v) = a + (d - a)
  <2> HIDE DEF w
  <2>1. v \in Seq(Nat) /\ Len(v) = Len(y) + Len(w)
    BY <1>2, ConcatProperties
  <2> QED
    BY <1>2, <2>1
<1> HIDE DEF a
<1>5. a + (d - a) = d
  BY <1>1
<1>6. CASE d = a
  <2>1. w = <<>>
    BY <1>1, <1>6, PieceEmpty
  <2>2. v = y
    BY <2>1, ConcatEmptySeq
  <2> QED
    BY <1>4, <1>5, <2>2 DEF a
<1>7. CASE d # a
  <2>1. d - a \in 1..(o - a)
    BY <1>1, <1>7
  <2>2. \E n \in 1..(o - a) : v = y \o [i \in 1..n |-> a + i]
    BY <1>3, <2>1
  <2> QED
    BY <1>4, <1>5, <2>2 DEF a
<1> QED
  BY <1>6, <1>7

-----------------------------------------------------------------------------
(* The steps. *)

Preserved == TlsInv' /\ \A x \in Side : Streams(x)

LEMMA BothKept ==
  ASSUME NEW s \in Side, Types', Flushed', Way(s)' /\ Streams(s),
         Way(Other(s))' /\ Streams(Other(s))
  PROVE  Preserved
<1>1. \A x \in Side : x = s \/ x = Other(s)
  BY Sides
<1>2. ASSUME NEW x \in Side
      PROVE  Way(x)' /\ Streams(x)
  BY <1>1, Zenon
<1> QED
  BY <1>2 DEF Preserved, TlsInv

LEMMA EndOfStreamKeeps ==
  ASSUME TlsInv, NEW s \in Side, EndOfStream(s)
  PROVE  Preserved
<1>1. Types /\ Flushed /\ Way(s) /\ Way(Other(s)) /\ Other(s) \in Side /\ Other(Other(s)) = s
      /\ Other(s) # s
  BY Sides DEF TlsInv
<1>2. /\ state[s] = "up" /\ state' = [state EXCEPT ![s] = "removed"]
      /\ flights' = flights /\ steps' = steps /\ rbio' = rbio /\ wbio' = wbio
      /\ encrypting' = encrypting /\ offered' = offered /\ delivered' = delivered
      /\ unsent' = unsent /\ wire' = wire
  BY DEF EndOfStream, appVars, connVars
<1>3. /\ state' \in [Side -> {"new", "up", "failed", "removed"}]
      /\ \A x \in Side : state'[x] # "failed" => state[x] # "failed"
  BY <1>1, <1>2 DEF Types
<1>4. Types'
  BY <1>1, <1>2, <1>3 DEF Types
<1>5. Flushed'
  BY <1>1, <1>2, <1>3 DEF Flushed
<1>6. Way(s)' /\ Streams(s)
  BY <1>1, <1>2, <1>3, WayKept
<1>7. Way(Other(s))' /\ Streams(Other(s))
  BY <1>1, <1>2, <1>3, WayKept
<1> QED
  BY <1>4, <1>5, <1>6, <1>7, BothKept

LEMMA HandleTimeoutKeeps ==
  ASSUME TlsInv, NEW s \in Side, HandleTimeout(s)
  PROVE  Preserved
<1>1. Types /\ Flushed /\ Way(s) /\ Way(Other(s)) /\ Other(s) \in Side /\ Other(Other(s)) = s
  BY Sides DEF TlsInv
<1>2. /\ Enqueues(s) /\ state' = state /\ flights' = flights /\ steps' = steps
      /\ rbio' = rbio /\ wbio' = wbio /\ delivered' = delivered
      /\ unsent' = unsent /\ wire' = wire
  BY DEF HandleTimeout, Replies, Enqueues
<1>3. /\ encrypting' \in [Side -> Seq(Nat)] /\ offered' \in [Side -> Nat]
      /\ encrypting'[Other(s)] = encrypting[Other(s)] /\ offered'[Other(s)] = offered[Other(s)]
      /\ offered'[s] > offered[s] \/ offered'[s] = offered[s]
      /\ \A f, p, q, P, a : Link(f, p, q, s, P, a, encrypting[s], offered[s])
           => Link(f, p, q, s, P, a, encrypting'[s], offered'[s])
  BY <1>1, <1>2, EnqueueFacts
<1>4. Types'
  BY <1>1, <1>2, <1>3 DEF Types
<1>5. Flushed'
  BY <1>1, <1>2 DEF Flushed
<1>6. Way(s)'
  <2>1. Pending(s)' = Pending(s)
    BY <1>2 DEF Pending
  <2> QED
    BY <1>1, <1>2, <1>3, <2>1, Zenon DEF Way
<1>7. Streams(s)
  BY <1>2, <1>3 DEF Streams
<1>8. Way(Other(s))' /\ Streams(Other(s))
  BY <1>1, <1>2, <1>3, WayKept
<1> QED
  BY <1>4, <1>5, <1>6, <1>7, <1>8, BothKept

LEMMA WriteKeeps ==
  ASSUME TlsInv, NEW s \in Side, Write(s)
  PROVE  Preserved
<1>1. Types /\ Flushed /\ Way(s) /\ Way(Other(s)) /\ Other(s) \in Side /\ Other(Other(s)) = s
      /\ Other(s) # s
  BY Sides DEF TlsInv
<1>2. /\ state' = state /\ flights' = flights /\ steps' = steps
      /\ rbio' = rbio /\ wbio' = wbio /\ delivered' = delivered
      /\ encrypting' = encrypting /\ offered' = offered
      /\ wire' = [wire EXCEPT ![s] = wire[s] \o unsent[s]]
      /\ unsent' = [unsent EXCEPT ![s] = <<>>]
  BY DEF Write, appVars
<1>3. /\ rbio[Other(s)] \in Seq(Unit) /\ wire[s] \in Seq(Unit) /\ unsent[s] \in Seq(Unit)
      /\ <<>> \in Seq(Unit)
      /\ wire \in [Side -> Seq(Unit)] /\ unsent \in [Side -> Seq(Unit)]
  BY <1>1, EmptySeq DEF Types
<1>4. wire[s] \o unsent[s] \in Seq(Unit)
  BY <1>3, ConcatProperties
<1>5. /\ wire' \in [Side -> Seq(Unit)] /\ wire'[s] = wire[s] \o unsent[s]
      /\ wire'[Other(s)] = wire[Other(s)]
  BY <1>1, <1>2, <1>3, <1>4, Changed
<1>6. /\ unsent' \in [Side -> Seq(Unit)] /\ unsent'[s] = <<>>
      /\ unsent'[Other(s)] = unsent[Other(s)]
  BY <1>1, <1>2, <1>3, Changed
<1>7. Types'
  BY <1>1, <1>2, <1>5, <1>6 DEF Types
<1>8. Flushed'
  BY <1>1, <1>2 DEF Flushed
<1>9. Pending(s)' = Pending(s)
  <2> DEFINE r == rbio[Other(s)]
             w == wire[s]
             u == unsent[s]
  <2>1. r \in Seq(Unit) /\ w \in Seq(Unit) /\ u \in Seq(Unit)
    BY <1>3
  <2>2. Pending(s)' = (r \o (w \o u)) \o <<>>
    BY <1>2, <1>5, <1>6 DEF Pending
  <2>3. Pending(s) = (r \o w) \o u
    BY DEF Pending
  <2> HIDE DEF r, w, u
  <2>4. w \o u \in Seq(Unit) /\ r \o (w \o u) \in Seq(Unit)
    <3>1. w \o u \in Seq(Unit)
      BY <2>1, ConcatProperties
    <3> QED
      BY <2>1, <3>1, ConcatProperties
  <2>5. (r \o (w \o u)) \o <<>> = r \o (w \o u)
    BY <2>4, ConcatEmptySeq
  <2>6. (r \o w) \o u = r \o (w \o u)
    BY <2>1, ConcatAssociative
  <2> QED
    BY <2>2, <2>3, <2>5, <2>6
<1>10. Way(s)'
  BY <1>1, <1>2, <1>9, Zenon DEF Way
<1>11. Streams(s)
  BY <1>2 DEF Streams
<1>12. Way(Other(s))' /\ Streams(Other(s))
  BY <1>1, <1>2, <1>5, <1>6, WayKept
<1> QED
  BY <1>7, <1>8, <1>10, <1>11, <1>12, BothKept

LEMMA PendingUnits ==
  ASSUME Types, NEW s \in Side
  PROVE  Pending(s) \in Seq(Unit)
<1>1. rbio[Other(s)] \in Seq(Unit) /\ wire[s] \in Seq(Unit) /\ unsent[s] \in Seq(Unit)
  BY Sides DEF Types
<1>2. rbio[Other(s)] \o wire[s] \in Seq(Unit)
  BY <1>1, ConcatProperties
<1> QED
  BY <1>1, <1>2, ConcatProperties DEF Pending

(* Nothing has been received when a side starts: no flight is taken. *)
LEMMA NothingTaken ==
  ASSUME NEW s, NEW hs, NEW n, NEW c, NEW t, Shakes(s, hs, <<>>, n, c, t)
  PROVE  hs.rbio = <<>>
<1>1. c \in Nat /\ c <= Whole(<<>>) /\ hs.rbio = After(<<>>, c)
  BY DEF Shakes
<1>2. Whole(<<>>) = 0 /\ Len(<<>>) = 0
  <2>1. Len(<<>>) = 0
    BY EmptySeq
  <2> QED
    BY <2>1 DEF Whole
<1>3. c = 0
  BY <1>1, <1>2
<1>4. After(<<>>, 0) = SubSeq(<<>>, 1, 0)
  BY <1>2 DEF After
<1>5. SubSeq(<<>>, 1, 0) = <<>>
  BY SubSeqEmpty
<1> QED
  BY <1>1, <1>3, <1>4, <1>5

LEMMA StartKeeps ==
  ASSUME TlsInv, NEW s \in Side, Start(s)
  PROVE  Preserved
<1> DEFINE x == Other(s)
           hs == Handshake(s, <<>>)
           m == IF s = "client" THEN hs.steps ELSE steps[s]
           w == IF s = "client" THEN hs.wbio ELSE <<>>
<1>1. /\ Types /\ Flushed /\ Way(s) /\ Way(x) /\ x \in Side /\ Other(x) = s /\ x # s
      /\ \A y \in Side : y = s \/ y = x
  BY Sides DEF TlsInv
<1>2. /\ state[s] = "new" /\ state' = [state EXCEPT ![s] = "up"]
      /\ steps' = [steps EXCEPT ![s] = m]
      /\ wbio' = [wbio EXCEPT ![s] = <<>>]
      /\ unsent' = [unsent EXCEPT ![s] = @ \o w]
      /\ wire' = wire /\ flights' = flights /\ rbio' = rbio /\ delivered' = delivered
      /\ Enqueues(s)
  BY DEF Start, ReadAllFromSsl, Replies, Enqueues, appVars
<1>3. <<>> \in Seq(Unit)
  BY EmptySeq
<1>4. PICK n, c, t : Shakes(s, hs, <<>>, n, c, t)
  BY <1>1, <1>3, HandshakeFacts
<1> HIDE DEF hs
<1>5. hs.rbio = <<>> /\ hs.wbio \in Seq(Unit) /\ hs.steps = n /\ n \in steps[s]..Len(flights)
  BY <1>4, NothingTaken DEF Shakes
<1>6. /\ steps \in [Side -> 0..Len(flights)] /\ steps[s] \in 0..Len(flights)
      /\ Len(flights) \in Nat
  <2>1. flights \in Seq(Side) /\ steps \in [Side -> 0..Len(flights)]
    BY <1>1 DEF Types
  <2> QED
    BY <2>1
<1>7. w \in Seq(Unit) /\ m \in 0..Len(flights)
  <2>1. w \in Seq(Unit)
    BY <1>3, <1>5
  <2>2. n \in 0..Len(flights)
    BY <1>5, <1>6
  <2>3. m = n \/ m = steps[s]
    BY <1>5
  <2> HIDE DEF m
  <2> QED
    BY <1>6, <2>1, <2>2, <2>3
<1>8. /\ steps' \in [Side -> 0..Len(flights)] /\ steps'[s] = m /\ steps'[x] = steps[x]
  BY <1>1, <1>2, <1>6, <1>7, Changed
<1>9. /\ unsent' \in [Side -> Seq(Unit)] /\ unsent'[x] = unsent[x]
      /\ Pending(s)' = Pending(s) \o w
  <2> HIDE DEF w, m
  <2> QED
    BY <1>1, <1>2, <1>7, PendingGrows
<1>10. /\ encrypting' \in [Side -> Seq(Nat)] /\ offered' \in [Side -> Nat]
       /\ encrypting'[x] = encrypting[x] /\ offered'[x] = offered[x]
       /\ offered'[s] > offered[s] \/ offered'[s] = offered[s]
       /\ \A f, p, q, P, a : Link(f, p, q, s, P, a, encrypting[s], offered[s])
            => Link(f, p, q, s, P, a, encrypting'[s], offered'[s])
  BY <1>1, <1>2, EnqueueFacts
<1>11. /\ state' \in [Side -> {"new", "up", "failed", "removed"}] /\ state'[s] = "up"
       /\ state'[x] = state[x]
  BY <1>1, <1>2 DEF Types
<1>12. /\ wbio' \in [Side -> Seq(Unit)] /\ wbio'[s] = <<>> /\ wbio'[x] = wbio[x]
  BY <1>1, <1>2, <1>3, Changed DEF Types
<1>13. Types'
  <2> HIDE DEF w, m
  <2> QED
    BY <1>1, <1>2, <1>8, <1>9, <1>10, <1>11, <1>12 DEF Types
<1>14. Flushed'
  <2>1. ASSUME NEW y \in Side, state'[y] # "failed"
        PROVE  wbio'[y] = <<>>
    <3>1. CASE y = s
      BY <1>12, <3>1
    <3>2. CASE y = x
      <4>1. state[y] # "failed"
        BY <1>11, <2>1, <3>2
      <4> QED
        BY <1>1, <1>12, <3>2, <4>1 DEF Flushed
    <3> QED
      BY <1>1, <3>1, <3>2
  <2> QED
    BY <2>1 DEF Flushed
<1>15. Way(s)'
  <2> SUFFICES ASSUME state'[x] # "failed"
               PROVE  Link(flights, m, steps[x], s, Pending(s) \o w, Len(delivered[x]),
                           encrypting'[s], offered'[s])
    <3> HIDE DEF w, m
    <3> QED
      BY <1>2, <1>8, <1>9 DEF Way
  <2>1. state[x] # "failed"
    BY <1>11
  <2>2. CASE s = "client"
    <3>1. Link(flights, n, steps[x], s, Pending(s) \o hs.wbio, Len(delivered[x]),
               encrypting[s], offered[s])
      BY <1>1, <1>4, <2>1, ShakesOut
    <3>2. m = n /\ w = hs.wbio
      BY <1>5, <2>2
    <3> QED
      BY <1>10, <3>1, <3>2
  <2>3. CASE s # "client"
    <3>1. Link(flights, steps[s], steps[x], s, Pending(s), Len(delivered[x]),
               encrypting[s], offered[s])
      BY <1>1, <2>1 DEF Way
    <3>2. Pending(s) \o <<>> = Pending(s)
      BY <1>1, PendingUnits, ConcatEmptySeq
    <3>3. m = steps[s] /\ w = <<>>
      BY <2>3
    <3> QED
      BY <1>10, <3>1, <3>2, <3>3
  <2> QED
    BY <2>2, <2>3
<1>16. Streams(s)
  BY <1>2, <1>10 DEF Streams
<1>17. Way(x)'
  <2>1. Pending(x)' = Pending(x)
    BY <1>1, <1>2, <1>9 DEF Pending
  <2>2. Link(flights, steps[x], m, x, Pending(x), Len(delivered[s]), encrypting[x], offered[x])
    <3>1. CASE s = "client"
      <4>1. <<>> \o Pending(x) = Pending(x) /\ Pending(x) \in Seq(Unit)
        BY <1>1, PendingUnits, ConcatEmptySeq
      <4>2. state[s] # "failed"
        BY <1>2
      <4>3. Link(flights, steps[x], n, x, hs.rbio \o Pending(x), Len(delivered[s]),
                 encrypting[x], offered[x])
        BY <1>1, <1>3, <1>4, <4>1, <4>2, ShakesIn
      <4>4. m = n
        BY <1>5, <3>1
      <4> QED
        BY <1>5, <4>1, <4>3, <4>4
    <3>2. CASE s # "client"
      <4>1. m = steps[s]
        BY <3>2
      <4> QED
        BY <1>1, <1>2, <4>1 DEF Way
    <3> QED
      BY <3>1, <3>2
  <2> HIDE DEF w, m
  <2> QED
    BY <1>1, <1>2, <1>8, <1>10, <2>1, <2>2 DEF Way
<1>18. Streams(x)
  BY <1>1, <1>2, <1>10 DEF Streams
<1> QED
  BY <1>13, <1>14, <1>15, <1>16, <1>17, <1>18, BothKept

(* produce(): all that there is goes into one record. *)
LEMMA EncryptFacts ==
  ASSUME TlsInv, NEW s \in Side, state[s] # "failed",
         NEW plain \in Seq(Nat), NEW o \in Nat, Encrypt(s, plain),
         NEW a, state[Other(s)] # "failed" =>
           Link(flights, steps[s], steps[Other(s)], s, Pending(s), a, plain, o),
         rbio' = rbio, state' = state
  PROVE  /\ encrypting' \in [Side -> Seq(Nat)] /\ encrypting'[Other(s)] = encrypting[Other(s)]
         /\ wbio' \in [Side -> Seq(Unit)] /\ Flushed'
         /\ unsent' \in [Side -> Seq(Unit)] /\ unsent'[Other(s)] = unsent[Other(s)]
         /\ wire' = wire
         /\ state[Other(s)] # "failed" =>
              Link(flights, steps[s], steps[Other(s)], s, Pending(s)', a, encrypting'[s], o)
<1> DEFINE x == Other(s)
<1>1. Types /\ Flushed /\ x \in Side /\ x # s /\ \A y \in Side : y = s \/ y = x
  BY Sides DEF TlsInv
<1>2. /\ encrypting \in [Side -> Seq(Nat)] /\ wbio \in [Side -> Seq(Unit)] /\ wbio[s] = <<>>
      /\ unsent \in [Side -> Seq(Unit)] /\ <<>> \in Seq(Nat) /\ <<>> \in Seq(Unit)
  BY <1>1, EmptySeq DEF Types, Flushed
<1> HIDE DEF x
<1>3. CASE Finished(s)
  <2> DEFINE w == IF plain = <<>> THEN wbio[s] ELSE wbio[s] \o Message(plain)
  <2>1. /\ encrypting' = [encrypting EXCEPT ![s] = <<>>]
        /\ wbio' = [wbio EXCEPT ![s] = <<>>]
        /\ unsent' = [unsent EXCEPT ![s] = @ \o w] /\ wire' = wire
    BY <1>3 DEF Encrypt, ReadAllFromSsl
  <2>2. Message(plain) \in Seq(Unit)
    BY MessageUnits
  <2>3. w = IF plain = <<>> THEN <<>> ELSE Message(plain)
    BY <1>2, <2>2, ConcatEmptySeq
  <2>4. w \in Seq(Unit)
    BY <1>2, <2>2, <2>3
  <2>5. /\ encrypting' \in [Side -> Seq(Nat)] /\ encrypting'[s] = <<>>
        /\ encrypting'[x] = encrypting[x]
    BY <1>1, <1>2, <2>1, Changed
  <2>6. wbio' \in [Side -> Seq(Unit)] /\ wbio'[s] = <<>> /\ wbio'[x] = wbio[x]
    BY <1>1, <1>2, <2>1, Changed
  <2>7. /\ unsent' \in [Side -> Seq(Unit)] /\ unsent'[x] = unsent[x]
        /\ Pending(s)' = Pending(s) \o w
    <3> HIDE DEF w
    <3> QED
      BY <1>1, <2>1, <2>4, PendingGrows DEF x
  <2>8. Flushed'
    BY <1>1, <2>6 DEF Flushed
  <2>9. ASSUME state[x] # "failed"
        PROVE  Link(flights, steps[s], steps[x], s, Pending(s) \o w, a, <<>>, o)
    <3>1. Link(flights, steps[s], steps[x], s, Pending(s), a, plain, o)
      BY <2>9 DEF x
    <3>2. CASE plain = <<>>
      <4>1. Pending(s) \o <<>> = Pending(s)
        BY <1>1, PendingUnits, ConcatEmptySeq
      <4> QED
        BY <2>3, <3>1, <3>2, <4>1
    <3>3. CASE plain # <<>>
      <4>1. Link(flights, steps[s], steps[x], s, Pending(s) \o Message(plain), a, <<>>, o)
        BY <1>3, <3>1, LinkEncrypt DEF Finished
      <4> QED
        BY <2>3, <3>3, <4>1
    <3> QED
      BY <3>2, <3>3
  <2> HIDE DEF w
  <2> QED
    BY <2>1, <2>5, <2>6, <2>7, <2>8, <2>9 DEF x
<1>4. CASE ~Finished(s)
  <2>1. /\ encrypting' = [encrypting EXCEPT ![s] = plain]
        /\ wbio' = wbio /\ unsent' = unsent /\ wire' = wire
    BY <1>4 DEF Encrypt, connVars
  <2>2. /\ encrypting' \in [Side -> Seq(Nat)] /\ encrypting'[s] = plain
        /\ encrypting'[x] = encrypting[x]
    BY <1>1, <1>2, <2>1, Changed
  <2>3. Pending(s)' = Pending(s)
    BY <2>1 DEF Pending
  <2>4. Flushed'
    BY <1>1, <2>1 DEF Flushed
  <2> QED
    BY <1>2, <2>1, <2>2, <2>3, <2>4 DEF x
<1> QED
  BY <1>3, <1>4

LEMMA ProduceKeeps ==
  ASSUME TlsInv, NEW s \in Side, Produce(s)
  PROVE  Preserved
<1> DEFINE x == Other(s)
           o == offered[s]
           a == Len(delivered[x])
<1>1. /\ Types /\ Flushed /\ Way(s) /\ Way(x) /\ x \in Side /\ Other(x) = s /\ x # s
  BY Sides DEF TlsInv
<1>2. /\ state[s] = "up" /\ state' = state /\ flights' = flights /\ steps' = steps
      /\ rbio' = rbio /\ delivered' = delivered
  BY DEF Produce
<1>3. /\ encrypting[s] \in Seq(Nat) /\ o \in Nat /\ offered \in [Side -> Nat]
  BY <1>1 DEF Types
<1>4. state[x] # "failed" =>
        Link(flights, steps[s], steps[x], s, Pending(s), a, encrypting[s], o)
  BY <1>1 DEF Way
<1>5. \E plain \in Seq(Nat), p \in Nat :
        /\ Encrypt(s, plain)
        /\ offered' \in [Side -> Nat] /\ offered'[s] = p /\ offered'[x] = offered[x]
        /\ p > o \/ p = o
        /\ state[x] # "failed" =>
             Link(flights, steps[s], steps[x], s, Pending(s), a, plain, p)
  <2>1. CASE Encrypt(s, encrypting[s]) /\ offered' = offered
    BY <1>3, <1>4, <2>1
  <2>2. ASSUME NEW n \in Chunks, offered' = [offered EXCEPT ![s] = @ + n],
               Encrypt(s, encrypting[s] \o Chunk(s, n))
        PROVE  \E plain \in Seq(Nat), p \in Nat :
                 /\ Encrypt(s, plain)
                 /\ offered' \in [Side -> Nat] /\ offered'[s] = p /\ offered'[x] = offered[x]
                 /\ p > o \/ p = o
                 /\ state[x] # "failed" =>
                      Link(flights, steps[s], steps[x], s, Pending(s), a, plain, p)
    <3> DEFINE plain == encrypting[s] \o Chunk(s, n)
               p == o + n
    <3>1. /\ n \in Nat /\ n > 0 /\ Chunk(s, n) = Piece(o, p) /\ Chunk(s, n) \in Seq(Nat)
      BY <1>1, ChunkIsPiece
    <3>2. p \in Nat /\ p > o
      BY <1>3, <3>1
    <3>3. plain \in Seq(Nat)
      BY <1>3, <3>1, ConcatProperties
    <3>4. offered' = [offered EXCEPT ![s] = p]
      BY <2>2
    <3>5. offered' \in [Side -> Nat] /\ offered'[s] = p /\ offered'[x] = offered[x]
      <4> HIDE DEF p, x, o
      <4> QED
        BY <1>1, <1>3, <3>2, <3>4, Changed
    <3>6. ASSUME state[x] # "failed"
          PROVE  Link(flights, steps[s], steps[x], s, Pending(s), a, plain, p)
      <4>1. Link(flights, steps[s], steps[x], s, Pending(s), a, encrypting[s], o)
        BY <1>4, <3>6
      <4> HIDE DEF a, o, x
      <4>2. Link(flights, steps[s], steps[x], s, Pending(s), a, encrypting[s] \o Piece(o, o + n),
                 o + n)
        BY <1>3, <3>1, <4>1, LinkEnqueue
      <4> QED
        BY <3>1, <4>2
    <3> HIDE DEF plain, p, x, o, a
    <3>7. Encrypt(s, plain)
      BY <2>2 DEF plain
    <3> QED
      BY <3>2, <3>3, <3>5, <3>6, <3>7
  <2> QED
    BY <2>1, <2>2 DEF Produce
<1>6. PICK plain \in Seq(Nat), p \in Nat :
        /\ Encrypt(s, plain)
        /\ offered' \in [Side -> Nat] /\ offered'[s] = p /\ offered'[x] = offered[x]
        /\ p > o \/ p = o
        /\ state[x] # "failed" =>
             Link(flights, steps[s], steps[x], s, Pending(s), a, plain, p)
  BY <1>5
<1>7. state[s] # "failed" /\ state[Other(s)] # "failed" =>
        Link(flights, steps[s], steps[Other(s)], s, Pending(s), a, plain, p)
  BY <1>6
<1>8. /\ encrypting' \in [Side -> Seq(Nat)] /\ encrypting'[x] = encrypting[x]
      /\ wbio' \in [Side -> Seq(Unit)] /\ Flushed'
      /\ unsent' \in [Side -> Seq(Unit)] /\ unsent'[x] = unsent[x]
      /\ wire' = wire
      /\ state[x] # "failed" =>
           Link(flights, steps[s], steps[x], s, Pending(s)', a, encrypting'[s], p)
  <2>1. state[s] # "failed"
    BY <1>2
  <2>2. state[Other(s)] # "failed" =>
          Link(flights, steps[s], steps[Other(s)], s, Pending(s), a, plain, p)
    BY <1>6
  <2> HIDE DEF a, o
  <2> QED
    BY <1>2, <1>6, <2>1, <2>2, EncryptFacts
<1>9. Types'
  BY <1>1, <1>2, <1>6, <1>8 DEF Types
<1>10. Way(s)'
  BY <1>2, <1>6, <1>8, Zenon DEF Way
<1>11. Streams(s)
  BY <1>2, <1>6 DEF Streams
<1>12. Way(x)' /\ Streams(x)
  BY <1>1, <1>2, <1>6, <1>8, WayKept
<1> QED
  BY <1>8, <1>9, <1>10, <1>11, <1>12, BothKept

(* What a side has received, and what is still to come. *)
LEMMA Regroup ==
  ASSUME Types, NEW s \in Side, NEW n \in 1..Len(wire[Other(s)])
  PROVE  /\ Received(s, n) \in Seq(Unit)
         /\ SubSeq(wire[Other(s)], n + 1, Len(wire[Other(s)])) \in Seq(Unit)
         /\ SubSeq(wire[Other(s)], n + 1, Len(wire[Other(s)])) \o unsent[Other(s)] \in Seq(Unit)
         /\ Pending(Other(s))
              = Received(s, n) \o
                  (SubSeq(wire[Other(s)], n + 1, Len(wire[Other(s)])) \o unsent[Other(s)])
<1> DEFINE x == Other(s)
           r == rbio[s]
           w == wire[x]
           u == unsent[x]
           h == SubSeq(w, 1, n)
           t == SubSeq(w, n + 1, Len(w))
<1>1. x \in Side /\ Other(x) = s
  BY Sides
<1>2. r \in Seq(Unit) /\ w \in Seq(Unit) /\ u \in Seq(Unit)
  BY <1>1 DEF Types
<1>3. Pending(x) = (r \o w) \o u /\ Received(s, n) = r \o h
  BY <1>1 DEF Pending, Received
<1>4. n \in 1..Len(w)
  OBVIOUS
<1> HIDE DEF r, w, u, x
<1>5. h \in Seq(Unit) /\ t \in Seq(Unit)
  <2>1. Len(w) \in Nat /\ n \in Nat /\ n + 1 \in Int /\ \A i \in 1..Len(w) : w[i] \in Unit
    BY <1>2, <1>4
  <2>2. (\A i \in 1..n : w[i] \in Unit) /\ \A i \in (n + 1)..Len(w) : w[i] \in Unit
    BY <1>4, <2>1
  <2>3. h \in Seq(Unit)
    BY <2>1, <2>2, SubSeqProperties
  <2>4. t \in Seq(Unit)
    BY <2>1, <2>2, SubSeqProperties
  <2> QED
    BY <2>3, <2>4
<1>6. h \o t = w
  <2>1. n \in 0..Len(w) /\ 1 \in 1..(Len(w) + 1) /\ n \in (1 - 1)..Len(w)
        /\ Len(w) \in n..Len(w)
    BY <1>2, <1>4
  <2>2. SubSeq(w, 1, n) \o SubSeq(w, n + 1, Len(w)) = SubSeq(w, 1, Len(w))
    BY <1>2, <2>1, ConcatAdjacentSubSeq
  <2>3. SubSeq(w, 1, Len(w)) = w
    BY <1>2, SubSeqFull
  <2> QED
    BY <2>2, <2>3
<1> HIDE DEF h, t
<1>7. r \o h \in Seq(Unit) /\ t \o u \in Seq(Unit)
  BY <1>2, <1>5, ConcatProperties
<1>8. (r \o (h \o t)) \o u = (r \o h) \o (t \o u)
  <2> DEFINE v == r \o h
  <2>1. r \in Seq(Unit) /\ h \in Seq(Unit) /\ t \in Seq(Unit)
    BY <1>2, <1>5
  <2>2. v \o t = r \o (h \o t)
    BY <2>1, ConcatAssociative
  <2>3. v \in Seq(Unit) /\ t \in Seq(Unit) /\ u \in Seq(Unit)
    BY <1>2, <1>5, <1>7
  <2> HIDE DEF v
  <2>4. (v \o t) \o u = v \o (t \o u)
    BY <2>3, ConcatAssociative
  <2> QED
    BY <2>2, <2>4 DEF v
<1> QED
  BY <1>3, <1>5, <1>6, <1>7, <1>8 DEF r, w, u, x, h, t

LEMMA AfterUnits ==
  ASSUME NEW q \in Seq(Unit), NEW c \in Nat, c <= Whole(q)
  PROVE  After(q, c) \in Seq(Unit)
<1> DEFINE w == Whole(q)
           n == Len(q)
<1>1. w \in Nat /\ 2 * w <= n /\ n \in Nat /\ c <= w
  BY WholeFacts
<1> HIDE DEF w, n
<1>2. 2 * c \in 0..n
  BY <1>1
<1> QED
  BY <1>2, TailFacts DEF After, n

(* consume(), in terms of what OpenSSL does with what has been received. *)
Rest(s, n) == SubSeq(wire[Other(s)], n + 1, Len(wire[Other(s)]))

Unused(hs) ==
    IF hs.steps = Len(flights) THEN After(hs.rbio, Whole(hs.rbio)) ELSE hs.rbio

Plain(hs) == IF hs.steps = Len(flights) THEN Decrypted(hs.rbio) ELSE <<>>

Consumes(s, n, hs) ==
    /\ n \in 1..Len(wire[Other(s)]) /\ state[s] = "up"
    /\ state' = state /\ flights' = flights
    /\ steps' = [steps EXCEPT ![s] = hs.steps]
    /\ rbio' = [rbio EXCEPT ![s] = Unused(hs)]
    /\ delivered' = [delivered EXCEPT ![s] = delivered[s] \o Plain(hs)]
    /\ wbio' = [wbio EXCEPT ![s] = <<>>]
    /\ unsent' = [unsent EXCEPT ![s] = @ \o (wbio[s] \o hs.wbio)]
    /\ wire' = [wire EXCEPT ![Other(s)] = Rest(s, n)]
    /\ Enqueues(s)

LEMMA ConsumeIs ==
  ASSUME NEW s \in Side, Consume(s)
  PROVE  \E n : Consumes(s, n, Handshake(s, Received(s, n)))
<1>1. PICK n \in 1..Len(wire[Other(s)]) :
        /\ Arriving(s, n)
        /\ steps' = [steps EXCEPT ![s] = Handshake(s, Received(s, n)).steps]
        /\ rbio' = [rbio EXCEPT ![s] = Unused(Handshake(s, Received(s, n)))]
        /\ delivered' = [delivered EXCEPT ![s] = @ \o Plain(Handshake(s, Received(s, n)))]
        /\ wbio' = [wbio EXCEPT ![s] = <<>>]
        /\ unsent' = [unsent EXCEPT ![s] =
                        @ \o (wbio[s] \o Handshake(s, Received(s, n)).wbio)]
        /\ UNCHANGED appVars \/ Replies(s)
        /\ wire' = [wire EXCEPT ![Other(s)] = SubSeq(@, n + 1, Len(@))]
        /\ UNCHANGED <<flights, state>>
  BY Zenon DEF Consume, Unused, Plain
<1>2. Enqueues(s)
  BY <1>1 DEF Replies, Enqueues, appVars
<1>3. delivered' = [delivered EXCEPT ![s] = delivered[s]
                                              \o Plain(Handshake(s, Received(s, n)))]
  BY <1>1
<1>4. wire' = [wire EXCEPT ![Other(s)] = Rest(s, n)]
  BY <1>1 DEF Rest
<1>5. Consumes(s, n, Handshake(s, Received(s, n)))
  BY <1>1, <1>2, <1>3, <1>4 DEF Consumes, Arriving
<1> QED
  BY <1>5

(* What is used of R is delivered; the rest stays in front of Q. *)
Uses(s, hs, Q, d) ==
    /\ d \in Nat /\ Len(delivered[s]) <= d /\ d <= offered[Other(s)]
    /\ Plain(hs) = Piece(Len(delivered[s]), d)
    /\ Unused(hs) \in Seq(Unit)
    /\ Link(flights, steps[Other(s)], hs.steps, Other(s), Unused(hs) \o Q, d,
            encrypting[Other(s)], offered[Other(s)])

LEMMA UsesFacts ==
  ASSUME Types, NEW s \in Side, Way(Other(s)), state[s] # "failed",
         NEW R \in Seq(Unit), NEW Q \in Seq(Unit), Pending(Other(s)) = R \o Q,
         NEW hs, NEW n, NEW c, NEW t, Shakes(s, hs, R, n, c, t)
  PROVE  \E d : Uses(s, hs, Q, d)
<1> DEFINE x == Other(s)
           a == Len(delivered[s])
<1>1. hs.rbio \in Seq(Unit) /\ hs.steps = n
  BY AfterUnits DEF Shakes
<1>2. /\ Link(flights, steps[x], n, x, hs.rbio \o Q, a, encrypting[x], offered[x])
      /\ n = Len(flights) =>
           Opens(flights, steps[x], x, hs.rbio, Q, a, encrypting[x], offered[x])
  BY ShakesIn
<1>3. a \in Nat /\ offered[x] \in Nat
  BY Sides DEF Types
<1>4. CASE n = Len(flights)
  <2>1. PICK d \in Nat :
          /\ a <= d /\ d <= offered[x] /\ Decrypted(hs.rbio) = Piece(a, d)
          /\ Link(flights, steps[x], Len(flights), x, After(hs.rbio, Whole(hs.rbio)) \o Q, d,
                  encrypting[x], offered[x])
    BY <1>2, <1>4 DEF Opens
  <2>2. Unused(hs) = After(hs.rbio, Whole(hs.rbio)) /\ Plain(hs) = Decrypted(hs.rbio)
    BY <1>1, <1>4 DEF Unused, Plain
  <2>3. Unused(hs) \in Seq(Unit)
    <3>1. Whole(hs.rbio) \in Nat /\ Whole(hs.rbio) <= Whole(hs.rbio)
      BY <1>1, WholeFacts
    <3> QED
      BY <1>1, <2>2, <3>1, AfterUnits
  <2>4. Uses(s, hs, Q, d)
    BY <1>1, <1>4, <2>1, <2>2, <2>3 DEF Uses
  <2> QED
    BY <2>4
<1>5. CASE n # Len(flights)
  <2>1. Unused(hs) = hs.rbio /\ Plain(hs) = <<>>
    BY <1>1, <1>5 DEF Unused, Plain
  <2>2. Plain(hs) = Piece(a, a) /\ a <= a
    BY <1>3, <2>1, PieceEmpty
  <2>3. a <= offered[x]
    <3> DEFINE o == offered[x]
    <3>1. a \in 0..o
      <4>1. o \in Nat /\ Link(flights, steps[x], n, x, hs.rbio \o Q, a, encrypting[x], o)
        BY <1>2, <1>3
      <4> HIDE DEF a, o, x
      <4> QED
        BY <4>1, LinkFacts
    <3> QED
      BY <3>1
  <2>4. Uses(s, hs, Q, a)
    BY <1>1, <1>2, <1>3, <2>1, <2>2, <2>3 DEF Uses
  <2> QED
    BY <2>4
<1> QED
  BY <1>4, <1>5

LEMMA ConsumeKeeps ==
  ASSUME TlsInv, NEW s \in Side, Consume(s)
  PROVE  Preserved
<1> DEFINE x == Other(s)
<1>1. /\ Types /\ Flushed /\ Way(s) /\ Way(x) /\ x \in Side /\ Other(x) = s /\ x # s
      /\ \A y \in Side : y = s \/ y = x
  BY Sides DEF TlsInv
<1>2. PICK n : Consumes(s, n, Handshake(s, Received(s, n)))
  BY ConsumeIs
<1> DEFINE R == Received(s, n)
           hs == Handshake(s, R)
           rest == Rest(s, n)
           Q == rest \o unsent[x]
           y == delivered[s]
           w == hs.wbio
<1>3. /\ n \in 1..Len(wire[x]) /\ state[s] = "up" /\ state' = state /\ flights' = flights
      /\ steps' = [steps EXCEPT ![s] = hs.steps]
      /\ rbio' = [rbio EXCEPT ![s] = Unused(hs)]
      /\ delivered' = [delivered EXCEPT ![s] = y \o Plain(hs)]
      /\ wbio' = [wbio EXCEPT ![s] = <<>>]
      /\ unsent' = [unsent EXCEPT ![s] = @ \o (wbio[s] \o w)]
      /\ wire' = [wire EXCEPT ![x] = rest]
      /\ Enqueues(s)
  BY <1>2 DEF Consumes
<1>4. /\ R \in Seq(Unit) /\ rest \in Seq(Unit) /\ Q \in Seq(Unit)
      /\ Pending(x) = R \o Q
  BY <1>1, <1>3, Regroup DEF Rest
<1>5. PICK m, c, t : Shakes(s, hs, R, m, c, t)
  <2> HIDE DEF R
  <2> QED
    BY <1>1, <1>4, HandshakeFacts
<1>6. state[s] # "failed"
  BY <1>3
<1> HIDE DEF R, hs, rest, Q, y, w
<1>7. hs.steps = m /\ m \in 0..Len(flights) /\ w \in Seq(Unit)
  <2>1. hs.steps = m /\ m \in steps[s]..Len(flights) /\ w \in Seq(Unit)
    BY <1>5 DEF Shakes, w
  <2>2. steps[s] \in 0..Len(flights) /\ Len(flights) \in Nat
    BY <1>1 DEF Types
  <2> QED
    BY <2>1, <2>2
<1>8. PICK d : Uses(s, hs, Q, d)
  BY <1>1, <1>4, <1>5, <1>6, UsesFacts
<1>9. /\ d \in Nat /\ Len(y) <= d /\ d <= offered[x] /\ Plain(hs) = Piece(Len(y), d)
      /\ Unused(hs) \in Seq(Unit)
      /\ Link(flights, steps[x], m, x, Unused(hs) \o Q, d, encrypting[x], offered[x])
  BY <1>7, <1>8 DEF Uses, y
<1>10. /\ flights \in Seq(Side) /\ state \in [Side -> {"new", "up", "failed", "removed"}]
       /\ steps \in [Side -> 0..Len(flights)]
       /\ rbio \in [Side -> Seq(Unit)] /\ wbio \in [Side -> Seq(Unit)]
       /\ wire \in [Side -> Seq(Unit)] /\ delivered \in [Side -> Seq(Nat)]
       /\ y \in Seq(Nat) /\ offered[x] \in Nat /\ unsent[x] \in Seq(Unit)
       /\ <<>> \in Seq(Unit) /\ wbio[s] = <<>>
  BY <1>1, <1>6, EmptySeq DEF Types, Flushed, y
<1> DEFINE z == y \o Plain(hs)
<1>11. /\ z \in Seq(Nat) /\ Len(z) = d
       /\ \/ z = y
          \/ \E i \in 1..(offered[x] - Len(y)) : z = y \o [j \in 1..i |-> Len(y) + j]
  <2> DEFINE o == offered[x]
  <2>1. y \in Seq(Nat) /\ o \in Nat /\ d \in Nat /\ Len(y) <= d /\ d <= o
    BY <1>9, <1>10
  <2> HIDE DEF o
  <2>2. /\ y \o Piece(Len(y), d) \in Seq(Nat) /\ Len(y \o Piece(Len(y), d)) = d
        /\ \/ y \o Piece(Len(y), d) = y
           \/ \E i \in 1..(o - Len(y)) :
                y \o Piece(Len(y), d) = y \o [j \in 1..i |-> Len(y) + j]
    BY <2>1, DeliveredFacts
  <2> QED
    BY <1>9, <2>2 DEF o
<1> HIDE DEF x, z
<1>12. steps' \in [Side -> 0..Len(flights)] /\ steps'[s] = m /\ steps'[x] = steps[x]
  BY <1>1, <1>3, <1>7, <1>10, Changed
<1>13. rbio' \in [Side -> Seq(Unit)] /\ rbio'[s] = Unused(hs) /\ rbio'[x] = rbio[x]
  BY <1>1, <1>3, <1>9, <1>10, Changed
<1>14. delivered' \in [Side -> Seq(Nat)] /\ delivered'[s] = z /\ delivered'[x] = delivered[x]
  BY <1>1, <1>3, <1>10, <1>11, Changed DEF z
<1>15. wbio' \in [Side -> Seq(Unit)] /\ wbio'[s] = <<>> /\ wbio'[x] = wbio[x]
  BY <1>1, <1>3, <1>10, Changed
<1>16. wire' \in [Side -> Seq(Unit)] /\ wire'[x] = rest /\ wire'[s] = wire[s]
  BY <1>1, <1>3, <1>4, <1>10, Changed
<1>17. /\ unsent' \in [Side -> Seq(Unit)] /\ unsent'[x] = unsent[x]
       /\ Pending(s)' = Pending(s) \o w
  <2>1. wbio[s] \o w = w
    BY <1>7, <1>10, ConcatEmptySeq
  <2>2. unsent' = [unsent EXCEPT ![s] = @ \o w]
    BY <1>3, <2>1
  <2>3. wire'[s] = wire[s] /\ rbio'[Other(s)] = rbio[Other(s)]
    BY <1>13, <1>16 DEF x
  <2> QED
    BY <1>1, <1>7, <2>2, <2>3, PendingGrows DEF x
<1>18. /\ encrypting' \in [Side -> Seq(Nat)] /\ offered' \in [Side -> Nat]
       /\ encrypting'[x] = encrypting[x] /\ offered'[x] = offered[x]
       /\ offered'[s] > offered[s] \/ offered'[s] = offered[s]
       /\ \A f, p, q, P, a : Link(f, p, q, s, P, a, encrypting[s], offered[s])
            => Link(f, p, q, s, P, a, encrypting'[s], offered'[s])
  BY <1>1, <1>3, EnqueueFacts DEF x
<1>19. Types'
  BY <1>3, <1>10, <1>12, <1>13, <1>14, <1>15, <1>16, <1>17, <1>18 DEF Types
<1>20. Flushed'
  <2>1. ASSUME NEW v \in Side, state'[v] # "failed"
        PROVE  wbio'[v] = <<>>
    <3>1. CASE v = s
      BY <1>15, <3>1
    <3>2. CASE v = x
      BY <1>1, <1>3, <1>15, <2>1, <3>2 DEF Flushed
    <3> QED
      BY <1>1, <3>1, <3>2
  <2> QED
    BY <2>1 DEF Flushed
<1>21. Way(s)'
  <2> SUFFICES ASSUME state'[x] # "failed"
               PROVE  Link(flights, m, steps[x], s, Pending(s) \o w, Len(delivered[x]),
                           encrypting'[s], offered'[s])
    BY <1>3, <1>12, <1>14, <1>17 DEF Way, x
  <2>1. Link(flights, m, steps[x], s, Pending(s) \o w, Len(delivered[x]), encrypting[s],
             offered[s])
    BY <1>1, <1>3, <1>5, ShakesOut DEF x, w
  <2> QED
    BY <1>18, <2>1
<1>22. Streams(s)
  BY <1>14, <1>18 DEF Streams, x
<1>23. Way(x)'
  <2>1. Pending(x)' = Unused(hs) \o Q
    <3>1. Pending(x)' = (Unused(hs) \o rest) \o unsent[x]
      BY <1>1, <1>13, <1>16, <1>17 DEF Pending
    <3> DEFINE u == unsent[x]
               v == Unused(hs)
    <3>2. v \in Seq(Unit) /\ rest \in Seq(Unit) /\ u \in Seq(Unit)
      BY <1>4, <1>9, <1>10
    <3> HIDE DEF u, v
    <3>3. (v \o rest) \o u = v \o (rest \o u)
      BY <3>2, ConcatAssociative
    <3> QED
      BY <3>1, <3>3 DEF u, v, Q
  <2>2. Link(flights, steps[x], m, x, Unused(hs) \o Q, Len(z), encrypting[x], offered[x])
    BY <1>9, <1>11
  <2> QED
    BY <1>1, <1>3, <1>12, <1>14, <1>18, <2>1, <2>2 DEF Way
<1>24. Streams(x)
  BY <1>1, <1>11, <1>14, <1>18 DEF Streams, y
<1> QED
  BY <1>1, <1>19, <1>20, <1>21, <1>22, <1>23, <1>24, BothKept DEF x

(* What has arrived, cut after the messages that were accepted. *)
LEMMA CutFacts ==
  ASSUME NEW q \in Seq(Unit), NEW k \in Nat, k <= Whole(q)
  PROVE  /\ SubSeq(q, 1, 2 * k) \in Seq(Unit)
         /\ SubSeq(q, 2 * k + 1, Len(q)) \in Seq(Unit)
         /\ q = SubSeq(q, 1, 2 * k) \o SubSeq(q, 2 * k + 1, Len(q))
<1> DEFINE w == Whole(q)
           n == Len(q)
           j == 2 * k
<1>1. w \in Nat /\ 2 * w <= n /\ n \in Nat /\ k <= w
  BY WholeFacts
<1> HIDE DEF w, n
<1>2. j \in 0..n /\ j \in (1 - 1)..n /\ 1 \in 1..(n + 1) /\ n \in j..n
  BY <1>1
<1> HIDE DEF j
<1>3. SubSeq(q, 1, j) \o SubSeq(q, j + 1, n) = SubSeq(q, 1, n)
  BY <1>2, ConcatAdjacentSubSeq DEF n
<1>4. SubSeq(q, 1, n) = q
  BY SubSeqFull DEF n
<1>5. SubSeq(q, j + 1, n) \in Seq(Unit)
  BY <1>2, TailFacts DEF n
<1>6. SubSeq(q, 1, j) \in Seq(Unit)
  <2>1. \A i \in 1..j : q[i] \in Unit
    BY <1>1, <1>2 DEF n
  <2> QED
    BY <1>2, <2>1, SubSeqProperties
<1> QED
  BY <1>3, <1>4, <1>5, <1>6 DEF n, j

(* Of n units that have arrived, the first k messages are accepted. *)
Accepts(s, n, k) ==
    /\ n \in 1..Len(wire[Other(s)]) /\ k \in 0..(Whole(Received(s, n)) - 1)
    /\ delivered' = [delivered EXCEPT ![s] =
          IF Handshake(s, SubSeq(Received(s, n), 1, 2 * k)).steps = Len(flights)
          THEN delivered[s] \o Decrypted(Handshake(s, SubSeq(Received(s, n), 1, 2 * k)).rbio)
          ELSE delivered[s]]

LEMMA ConsumeFailsIs ==
  ASSUME NEW s \in Side, ConsumeFails(s)
  PROVE  \E n, k : Accepts(s, n, k)
BY DEF ConsumeFails, Accepts

LEMMA ConsumeFailsKeeps ==
  ASSUME TlsInv, NEW s \in Side, ConsumeFails(s)
  PROVE  Preserved
<1> DEFINE x == Other(s)
           y == delivered[s]
<1>1. /\ Types /\ Flushed /\ Way(s) /\ Way(x) /\ x \in Side /\ Other(x) = s /\ x # s
      /\ \A v \in Side : v = s \/ v = x
  BY Sides DEF TlsInv
<1>2. /\ state[s] = "up" /\ state' = [state EXCEPT ![s] = "failed"]
      /\ wbio' = [wbio EXCEPT ![s] = @ \o Message(<<>>)]
      /\ flights' = flights /\ steps' = steps /\ rbio' = rbio /\ encrypting' = encrypting
      /\ offered' = offered /\ unsent' = unsent /\ wire' = wire
  BY DEF ConsumeFails, Arriving, appVars, connVars
<1>3. PICK n, k : Accepts(s, n, k)
  BY ConsumeFailsIs
<1> DEFINE all == Received(s, n)
           R == SubSeq(all, 1, 2 * k)
           rest == SubSeq(all, 2 * k + 1, Len(all))
           later == SubSeq(wire[x], n + 1, Len(wire[x])) \o unsent[x]
           Q == rest \o later
           hs == Handshake(s, R)
<1>4. all \in Seq(Unit) /\ later \in Seq(Unit) /\ Pending(x) = all \o later
  BY <1>1, <1>3, Regroup DEF Accepts
<1> HIDE DEF all, later
<1>5. R \in Seq(Unit) /\ rest \in Seq(Unit) /\ all = R \o rest
  <2>1. Whole(all) \in Nat
    BY <1>4, WholeFacts
  <2> DEFINE w == Whole(all)
  <2>2. k \in 0..(w - 1) /\ w \in Nat
    BY <1>3, <2>1 DEF Accepts, all
  <2> HIDE DEF w
  <2>3. k \in Nat /\ k <= w
    BY <2>2
  <2> QED
    BY <1>4, <2>3, CutFacts DEF w
<1> HIDE DEF R, rest
<1>6. Q \in Seq(Unit) /\ Pending(x) = R \o Q
  <2>1. (R \o rest) \o later = R \o (rest \o later)
    BY <1>4, <1>5, ConcatAssociative
  <2> QED
    BY <1>4, <1>5, <2>1, ConcatProperties
<1>7. PICK m, c, t : Shakes(s, hs, R, m, c, t)
  BY <1>1, <1>5, HandshakeFacts
<1> HIDE DEF Q, hs
<1>8. PICK d : Uses(s, hs, Q, d)
  <2>1. state[s] # "failed"
    BY <1>2
  <2> QED
    BY <1>1, <1>5, <1>6, <1>7, <2>1, UsesFacts
<1>9. d \in Nat /\ Len(y) <= d /\ d <= offered[x] /\ Plain(hs) = Piece(Len(y), d)
  BY <1>8 DEF Uses
<1>10. /\ state \in [Side -> {"new", "up", "failed", "removed"}]
       /\ wbio \in [Side -> Seq(Unit)] /\ delivered \in [Side -> Seq(Nat)]
       /\ y \in Seq(Nat) /\ offered[x] \in Nat /\ wbio[s] \in Seq(Unit)
  BY <1>1 DEF Types
<1> DEFINE z == y \o Plain(hs)
<1>11. delivered' = [delivered EXCEPT ![s] = z]
  <2>1. y \o <<>> = y
    BY <1>10, ConcatEmptySeq
  <2>2. z = IF hs.steps = Len(flights) THEN y \o Decrypted(hs.rbio) ELSE y
    BY <2>1 DEF Plain
  <2> HIDE DEF z
  <2> QED
    BY <1>3, <2>2 DEF Accepts, hs, R, all
<1> HIDE DEF y
<1>12. /\ z \in Seq(Nat)
       /\ \/ z = y
          \/ \E i \in 1..(offered[x] - Len(y)) : z = y \o [j \in 1..i |-> Len(y) + j]
  <2> DEFINE o == offered[x]
  <2>1. y \in Seq(Nat) /\ o \in Nat /\ d \in Nat /\ Len(y) <= d /\ d <= o
    BY <1>9, <1>10
  <2> HIDE DEF o
  <2>2. /\ y \o Piece(Len(y), d) \in Seq(Nat) /\ Len(y \o Piece(Len(y), d)) = d
        /\ \/ y \o Piece(Len(y), d) = y
           \/ \E i \in 1..(o - Len(y)) :
                y \o Piece(Len(y), d) = y \o [j \in 1..i |-> Len(y) + j]
    BY <2>1, DeliveredFacts
  <2> QED
    BY <1>9, <2>2 DEF o
<1> HIDE DEF x, z
<1>13. delivered' \in [Side -> Seq(Nat)] /\ delivered'[s] = z /\ delivered'[x] = delivered[x]
  BY <1>1, <1>10, <1>11, <1>12, Changed
<1>14. /\ state' \in [Side -> {"new", "up", "failed", "removed"}] /\ state'[s] = "failed"
       /\ state'[x] = state[x]
  BY <1>1, <1>2, <1>10
<1>15. wbio' \in [Side -> Seq(Unit)] /\ wbio'[x] = wbio[x]
  <2>1. <<>> \in Seq(Nat)
    BY EmptySeq
  <2>2. wbio[s] \o Message(<<>>) \in Seq(Unit)
    BY <1>10, <2>1, MessageUnits, ConcatProperties
  <2>3. wbio' = [wbio EXCEPT ![s] = wbio[s] \o Message(<<>>)]
    BY <1>2
  <2> QED
    BY <1>1, <1>10, <2>2, <2>3, Changed
<1>16. Types'
  BY <1>1, <1>2, <1>13, <1>14, <1>15 DEF Types
<1>17. Flushed'
  <2>1. ASSUME NEW v \in Side, state'[v] # "failed"
        PROVE  wbio'[v] = <<>>
    BY <1>1, <1>14, <1>15, <2>1 DEF Flushed
  <2> QED
    BY <2>1 DEF Flushed
<1>18. Way(s)' /\ Streams(s)
  BY <1>1, <1>2, <1>13, <1>14, WayKept DEF x
<1>19. Way(x)'
  BY <1>1, <1>14 DEF Way
<1>20. Streams(x)
  BY <1>1, <1>2, <1>12, <1>13 DEF Streams, y
<1> QED
  BY <1>1, <1>16, <1>17, <1>18, <1>19, <1>20, BothKept DEF x

-----------------------------------------------------------------------------
LEMMA TlsInit ==
  ASSUME Init
  PROVE  TlsInv
<1>1. flights \in Seq(Side) /\ Len(flights) \in Nat /\ 0 \in 0..Len(flights)
  <2>1. flights \in Seq(Side)
    BY TlsAssumption DEF Init
  <2> QED
    BY <2>1
<1>2. <<>> \in Seq(Unit) /\ <<>> \in Seq(Nat) /\ Len(<<>>) = 0
  BY EmptySeq
<1>3. Types
  BY <1>1, <1>2 DEF Init, Types
<1>4. Flushed
  BY DEF Init, Flushed
<1>5. ASSUME NEW s \in Side
      PROVE  Way(s)
  <2> DEFINE z == Cardinality(Flew(flights, s, 0, 0))
  <2>1. /\ steps[s] = 0 /\ steps[Other(s)] = 0 /\ encrypting[s] = <<>> /\ offered[s] = 0
        /\ delivered[Other(s)] = <<>> /\ rbio[Other(s)] = <<>> /\ wire[s] = <<>>
        /\ unsent[s] = <<>>
    BY Sides DEF Init
  <2>2. Pending(s) = <<>>
    BY <1>2, <2>1, ConcatEmptySeq DEF Pending
  <2>3. Flew(flights, s, 0, 0) = {}
    BY DEF Flew
  <2>4. z = 0
    BY FlewFacts
  <2>5. Carries(<<>>, 0, 0, 0, 0) /\ Piece(0, 0) = <<>>
    BY NothingRuns, PieceEmpty
  <2> HIDE DEF z
  <2>6. On(<<>>, 0, <<>>, 0, z, 0, Len(flights))
    BY <2>4, <2>5 DEF On
  <2>7. Link(flights, 0, 0, s, <<>>, 0, <<>>, 0)
    BY <2>3, <2>6 DEF Link, Behind, z
  <2> QED
    BY <1>2, <2>1, <2>2, <2>7 DEF Way
<1> QED
  BY <1>3, <1>4, <1>5 DEF TlsInv

LEMMA TlsSteps ==
  ASSUME TlsInv, [Next]_vars
  PROVE  Preserved
<1>1. ASSUME NEW s \in Side, Start(s)
      PROVE  Preserved
  BY <1>1, StartKeeps
<1>2. ASSUME NEW s \in Side, Produce(s)
      PROVE  Preserved
  BY <1>2, ProduceKeeps
<1>3. ASSUME NEW s \in Side, Write(s)
      PROVE  Preserved
  BY <1>3, WriteKeeps
<1>4. ASSUME NEW s \in Side, Consume(s)
      PROVE  Preserved
  BY <1>4, ConsumeKeeps
<1>5. ASSUME NEW s \in Side, ConsumeFails(s)
      PROVE  Preserved
  BY <1>5, ConsumeFailsKeeps
<1>6. ASSUME NEW s \in Side, EndOfStream(s)
      PROVE  Preserved
  BY <1>6, EndOfStreamKeeps
<1>7. ASSUME NEW s \in Side, HandleTimeout(s)
      PROVE  Preserved
  BY <1>7, HandleTimeoutKeeps
<1>8. ASSUME UNCHANGED vars
      PROVE  Preserved
  <2>1. /\ flights' = flights /\ state' = state /\ steps' = steps /\ rbio' = rbio
        /\ wbio' = wbio /\ encrypting' = encrypting /\ offered' = offered
        /\ delivered' = delivered /\ unsent' = unsent /\ wire' = wire
    BY <1>8 DEF vars, appVars, connVars
  <2>2. Types' /\ Flushed'
    BY <2>1 DEF TlsInv, Types, Flushed
  <2>3. ASSUME NEW x \in Side
        PROVE  Way(x)' /\ Streams(x)
    BY <2>1, WayKept DEF TlsInv
  <2> QED
    BY <2>2, <2>3 DEF Preserved, TlsInv
<1> QED
  BY <1>1, <1>2, <1>3, <1>4, <1>5, <1>6, <1>7, <1>8 DEF Next

(* For any order of flights, any number of tickets and any way in which the *)
(* units are cut into reads, each direction of the layer is a ByteStream:   *)
(* what one application enqueues, before the handshake is done or after it, *)
(* is what consume() gives to the other one, in order and once, also when a *)
(* side rejects a message after it has consumed records before it.          *)
THEOREM PlainIsByteStream == Spec => PlainInOrder
<1>1. Init => TlsInv /\ ToServer!Init /\ ToClient!Init
  <2> SUFFICES ASSUME Init
               PROVE  TlsInv /\ ToServer!Init /\ ToClient!Init
    OBVIOUS
  <2>1. /\ offered["client"] = 0 /\ offered["server"] = 0
        /\ delivered["client"] = <<>> /\ delivered["server"] = <<>>
    BY DEF Init, Side
  <2> QED
    BY <2>1, TlsInit DEF ToServer!Init, ToClient!Init
<1>2. TlsInv /\ [Next]_vars
        => TlsInv' /\ [ToServer!Next]_(ToServer!streamVars)
                   /\ [ToClient!Next]_(ToClient!streamVars)
  <2> SUFFICES ASSUME TlsInv, [Next]_vars
               PROVE  TlsInv' /\ [ToServer!Next]_(ToServer!streamVars)
                              /\ [ToClient!Next]_(ToClient!streamVars)
    OBVIOUS
  <2>1. TlsInv' /\ Streams("client") /\ Streams("server")
    BY TlsSteps DEF Preserved, Side
  <2>2. Other("client") = "server" /\ Other("server") = "client"
    BY DEF Other
  <2>3. [ToServer!Next]_(ToServer!streamVars)
    BY <2>1, <2>2
       DEF Streams, ToServer!Next, ToServer!Offer, ToServer!Deliver, ToServer!streamVars
  <2>4. [ToClient!Next]_(ToClient!streamVars)
    BY <2>1, <2>2
       DEF Streams, ToClient!Next, ToClient!Offer, ToClient!Deliver, ToClient!streamVars
  <2> QED
    BY <2>1, <2>3, <2>4
<1> QED
  BY <1>1, <1>2, PTL DEF Spec, PlainInOrder, ToServer!Spec, ToClient!Spec

=============================================================================
