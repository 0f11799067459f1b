------------------------ MODULE StreamTransportProofs ------------------------
(***************************************************************************)
(* Proofs about StreamTransport for any sizes of buffers, any policies and *)
(* any number of bytes: the input of the application, the registration for *)
(* writing, and what becomes of the write queue.  The recursive function   *)
(* of remove_written_data_from_queue() and the folds over the queue are    *)
(* reasoned about with DataInduction.                                      *)
(***************************************************************************)
EXTENDS StreamTransport, DataInduction, SequenceTheorems, TLAPS

(* What was read is consumed or in the read buffer, in order, until the     *)
(* application fails.                                                       *)
InInv ==
    /\ policy \in Policies
    /\ arrived \in Nat /\ taken \in 0..arrived
    /\ received \in Seq(Nat) /\ consumed \in Seq(Nat)
    /\ phase # "failed" =>
         /\ Len(consumed) + Len(received) = taken
         /\ \A i \in 1..Len(received) : received[i] = Len(consumed) + i

(* A policy asks for something, and for no more than fits into the buffer. *)
PoliciesFit == \A p \in Policies : p.min <= p.max /\ p.max > 0

Room == Len(received) < policy.max

-----------------------------------------------------------------------------
LEMMA MinOfTwo ==
  ASSUME NEW a \in Nat \ {0}, NEW b \in Nat \ {0}
  PROVE  Min({a, b}) \in Nat \ {0} /\ Min({a, b}) <= a /\ Min({a, b}) <= b
<1>1. \E x \in {a, b} : \A y \in {a, b} : x <= y
  OBVIOUS
<1>2. Min({a, b}) \in {a, b} /\ \A y \in {a, b} : Min({a, b}) <= y
  BY <1>1 DEF Min
<1> QED
  BY <1>2

(* What a read leaves in the buffer. *)
LEMMA GotFacts ==
  ASSUME InInv, Read
  PROVE  /\ Got \in Seq(Nat) /\ Len(Got) > Len(received)
         /\ Len(consumed) + Len(Got) = taken'
         /\ taken' \in 0..arrived
         /\ \A i \in 1..Len(Got) : Got[i] = Len(consumed) + i
<1> DEFINE k == Min({Available, Space})
           more == Bytes(taken, k)
<1>1. taken \in Nat /\ arrived \in Nat /\ Len(received) \in Nat
      /\ Len(consumed) \in Nat
  BY DEF InInv
<1>2. policy.max \in Nat
  BY StreamAssumption DEF InInv
<1>3. Available \in Nat \ {0} /\ Space \in Nat \ {0} /\ Available = arrived - taken
  BY <1>1, <1>2 DEF Read, Available, Space
<1>4. k \in Nat \ {0} /\ k <= arrived - taken
  BY <1>3, MinOfTwo
<1>5. taken' = taken + k /\ Got = received \o more
  BY DEF Read, Got
<1> HIDE DEF k
<1>6. more \in Seq(Nat) /\ Len(more) = k /\ \A i \in 1..k : more[i] = taken + i
  <2>1. more = [i \in 1..k |-> taken + i]
    BY DEF Bytes
  <2> HIDE DEF more
  <2>2. more \in [1..k -> Nat]
    BY <1>1, <1>4, <2>1
  <2>3. more \in Seq(Nat)
    BY <1>4, <2>2, SeqDef
  <2> QED
    BY <1>4, <2>1, <2>3
<1> HIDE DEF more
<1>7. /\ Got \in Seq(Nat) /\ Len(Got) = Len(received) + k
      /\ \A i \in 1..(Len(received) + k) :
           Got[i] = IF i <= Len(received) THEN received[i]
                    ELSE more[i - Len(received)]
  BY <1>4, <1>5, <1>6, ConcatProperties DEF InInv
<1>8. Len(consumed) + Len(received) = taken
      /\ \A i \in 1..Len(received) : received[i] = Len(consumed) + i
  BY DEF InInv, Read
<1>9. ASSUME NEW i \in 1..Len(Got) PROVE Got[i] = Len(consumed) + i
  <2>1. i \in 1..(Len(received) + k) /\ i \in Nat
    BY <1>1, <1>4, <1>7
  <2>2. CASE i <= Len(received)
    <3>1. i \in 1..Len(received) /\ Got[i] = received[i]
      BY <1>1, <1>7, <2>1, <2>2
    <3> QED
      BY <1>8, <3>1
  <2>3. CASE i > Len(received)
    <3>1. i - Len(received) \in 1..k
      BY <1>1, <1>4, <2>1, <2>3
    <3>2. Got[i] = more[i - Len(received)]
      BY <1>1, <1>7, <2>1, <2>3
    <3>3. Got[i] = taken + (i - Len(received))
      BY <1>6, <3>1, <3>2
    <3>4. Len(consumed) + Len(received) = taken
      BY <1>8
    <3> QED
      BY <1>1, <2>1, <3>3, <3>4
  <2> QED
    BY <1>1, <2>1, <2>2, <2>3
<1>10. Len(Got) > Len(received) /\ Len(consumed) + Len(Got) = taken'
       /\ taken' \in 0..arrived
  <2>1. Len(Got) = Len(received) + k /\ Len(consumed) + Len(received) = taken
    BY <1>7, <1>8
  <2> QED
    BY <1>1, <1>4, <1>5, <2>1
<1> QED
  BY <1>7, <1>9, <1>10

LEMMA InitInInv == Init => InInv
  BY DEF Init, InInv

LEMMA NextInInv == InInv /\ [Next]_vars => InInv'
<1> SUFFICES ASSUME InInv, [Next]_vars PROVE InInv'
  OBVIOUS
<1>1. CASE ReadPart
  <2>1. received' = Got /\ UNCHANGED <<policy, consumed, arrived>>
    BY <1>1 DEF ReadPart
  <2>2. Read
    BY <1>1 DEF ReadPart
  <2> QED
    BY <2>1, <2>2, GotFacts DEF InInv
<1>2. ASSUME Read, consumed' = consumed \o Got, policy' \in Policies,
             arrived' = arrived
      PROVE  /\ policy' \in Policies /\ arrived' \in Nat /\ taken' \in 0..arrived'
             /\ consumed' \in Seq(Nat) /\ Len(consumed') = taken'
  <2>1. Got \in Seq(Nat) /\ Len(consumed) + Len(Got) = taken'
        /\ taken' \in 0..arrived
    BY <1>2, GotFacts
  <2>2. consumed' \in Seq(Nat) /\ Len(consumed') = Len(consumed) + Len(Got)
    BY <1>2, <2>1, ConcatProperties DEF InInv
  <2> QED
    BY <1>2, <2>1, <2>2 DEF InInv
<1>3. CASE Consume
  <2>1. /\ Read /\ consumed' = consumed \o Got /\ policy' \in Policies
        /\ arrived' = arrived /\ received' = <<>>
    BY <1>3, Zenon DEF Consume, Reset
  <2>2. received' \in Seq(Nat) /\ Len(received') = 0
    BY <2>1
  <2>3. taken' \in Nat /\ 1..0 = {}
    BY <1>2, <2>1
  <2> QED
    BY <1>2, <2>1, <2>2, <2>3 DEF InInv
<1>4. CASE ConsumeFails
  <2>1. /\ Read /\ consumed' = consumed \o Got /\ policy' = policy
        /\ arrived' = arrived /\ received' = received /\ phase' = "failed"
    BY <1>4, Zenon DEF ConsumeFails
  <2> QED
    BY <1>2, <2>1 DEF InInv
<1>5. CASE PeerSend
  BY <1>5 DEF PeerSend, InInv, inVars, loopVars
<1>6. CASE HandleTimeout
  BY <1>6 DEF HandleTimeout, InInv, loopVars
<1>7. CASE /\ UNCHANGED <<policy, received, taken, consumed, arrived>>
           /\ phase = "failed" => phase' = "failed"
  BY <1>7 DEF InInv
<1> QED
  BY <1>1, <1>3, <1>4, <1>5, <1>6, <1>7 DEF Next, PeerClose, ReadEvent, ReadHandler,
     ReadWouldBlock, ReadFails, ReadDone, WriteEvent, WriteHandler, Produce, WriteDone,
     Fetching, Writing, Write, WriteWouldBlock, WriteFails, Quiet, Managed,
     vars, inVars, loopVars

LEMMA InInvHolds == Spec => []InInv
  BY InitInInv, NextInInv, PTL DEF Spec

-----------------------------------------------------------------------------
(* The space for the next read.                                             *)

LEMMA RoomStep ==
  ASSUME PoliciesFit, InInv, Room, [Next]_vars
  PROVE  Room'
<1>1. \A p \in Policies : p.min \in Nat /\ p.max \in Nat
                          /\ p.min <= p.max /\ p.max > 0
  BY StreamAssumption DEF PoliciesFit
<1>2. policy \in Policies
  BY DEF InInv
<1>3. CASE ReadPart
  <2>1. Read /\ received' = Got /\ policy' = policy /\ ~(Len(Got) >= policy.min)
    BY <1>3 DEF ReadPart, Enough
  <2>2. Len(Got) \in Nat
    BY <2>1, GotFacts
  <2> QED
    BY <1>1, <1>2, <2>1, <2>2 DEF Room
<1>4. CASE Consume
  <2>1. policy' \in Policies /\ received' = <<>>
    BY <1>4, Zenon DEF Consume, Reset
  <2> QED
    BY <1>1, <2>1 DEF Room
<1>5. CASE HandleTimeout
  <2>1. received' = received /\ (policy' = policy
                                 \/ (received = <<>> /\ policy' \in Policies))
    BY <1>5 DEF HandleTimeout
  <2> QED
    BY <1>1, <2>1 DEF Room
<1>6. CASE UNCHANGED <<policy, received>>
  BY <1>6 DEF Room
<1> QED
  BY <1>3, <1>4, <1>5, <1>6 DEF Next, PeerSend, PeerClose, ReadEvent,
     ReadHandler, ReadWouldBlock, ReadFails, ReadDone, ConsumeFails, WriteEvent,
     WriteHandler, Produce, WriteDone, Write, WriteWouldBlock, WriteFails,
     Quiet, vars, inVars

(* recv() is never called without space, whatever the application consumes  *)
(* and whenever it changes its policy, as long as every policy asks for no  *)
(* more than its buffer holds: partial input is not taken for the end of    *)
(* the stream.                                                              *)
THEOREM AlwaysRoomToRead ==
  ASSUME PoliciesFit
  PROVE  Spec => []RoomToRead
<1>1. Init => Room
  <2> SUFFICES ASSUME Init PROVE Room
    OBVIOUS
  <2>1. policy.max \in Nat /\ policy.max > 0 /\ received = <<>>
    BY StreamAssumption DEF Init, PoliciesFit
  <2> QED
    BY <2>1 DEF Room
<1>2. InInv /\ Room /\ [Next]_vars => Room'
  BY RoomStep
<1>3. Room => RoomToRead
  BY DEF Room, RoomToRead
<1> QED
  BY <1>1, <1>2, <1>3, InInvHolds, PTL DEF Spec

-----------------------------------------------------------------------------
(* The registration for writing.                                            *)

LEMMA LeftStep ==
  ASSUME left \in Nat, [Next]_vars
  PROVE  left' \in Nat
<1>1. CASE Produce
  <2>1. PICK n \in Chunks : n <= left /\ left' = left - n
    BY <1>1 DEF Produce
  <2> QED
    BY <2>1, StreamAssumption
<1>2. CASE UNCHANGED left
  BY <1>2
<1> QED
  BY <1>1, <1>2 DEF Next, PeerSend, PeerClose, ReadEvent, ReadHandler,
     ReadWouldBlock, ReadFails, ReadDone, ReadPart, Consume, ConsumeFails, WriteEvent,
     WriteHandler, WriteDone, Write, WriteWouldBlock, WriteFails,
     HandleTimeout, Quiet, vars, outVars

LEMMA ScheduledStep ==
  ASSUME DisabledBy["read"] = "read", left \in Nat, OutputScheduled,
         [Next]_vars
  PROVE  OutputScheduled'
<1>1. CASE ReadDone
  <2>1. mask' = mask \ {"read"} /\ UNCHANGED <<queue, left>> /\ Managed
    BY <1>1 DEF ReadDone, Done, outVars, Managed
  <2> QED
    BY <2>1 DEF OutputScheduled
<1>2. CASE Consume
  <2>1. Managed /\ left' = left /\ phase' # "gone"
    BY <1>2 DEF Consume, Read, ReadAgain, Managed
  <2>2. UNCHANGED <<mask, queue>> \/ "write" \in mask'
    BY <1>2 DEF Consume, Enqueue
  <2> QED
    BY <2>1, <2>2 DEF OutputScheduled
<1>3. CASE Produce
  BY <1>3 DEF Produce, Enqueue, OutputScheduled
<1>4. CASE HandleTimeout
  <2>1. UNCHANGED <<phase, left>>
    BY <1>4 DEF HandleTimeout, loopVars
  <2>2. UNCHANGED <<mask, queue>> \/ "write" \in mask'
    BY <1>4 DEF HandleTimeout, Enqueue
  <2> QED
    BY <2>1, <2>2 DEF OutputScheduled, Managed
<1>5. CASE WriteDone
  <2>1. queue = <<>> /\ left = 0 /\ UNCHANGED <<queue, left>>
    BY <1>5 DEF WriteDone, DoneWriting, outVars
  <2> QED
    BY <2>1 DEF OutputScheduled
<1>6. CASE Write
  <2>1. Managed /\ ~(queue = <<>> /\ left = 0) /\ left' = left
    BY <1>6 DEF Write, Writing, DoneWriting, Managed
  <2>2. mask' = mask \/ (queue' = <<>> /\ left = 0)
    BY <1>6 DEF Write, DoneWriting
  <2>3. "write" \in mask
    BY <2>1 DEF OutputScheduled
  <2> QED
    BY <2>1, <2>2, <2>3 DEF OutputScheduled
<1>7. CASE UNCHANGED <<mask, queue, left>> /\ (Managed' => Managed)
  BY <1>7 DEF OutputScheduled
<1> QED
  BY <1>1, <1>2, <1>3, <1>4, <1>5, <1>6, <1>7 DEF Next, PeerSend, PeerClose,
     ReadEvent, ReadHandler, ReadWouldBlock, ReadFails, ReadPart, Read, ReadAgain,
     ConsumeFails, WriteEvent, WriteHandler, Writing, WriteWouldBlock,
     WriteFails, Quiet, Managed, vars, inVars, outVars, loopVars

(* Queued output and an application that has more keep the manager          *)
(* registered for writing, through every result of either handler, when the *)
(* loop disables reading for a read handler that is done.                   *)
THEOREM OutputStaysScheduled ==
  ASSUME DisabledBy["read"] = "read"
  PROVE  Spec => []OutputScheduled
<1> DEFINE Scheduled == left \in Nat /\ OutputScheduled
<1>1. Init => Scheduled
  BY StreamAssumption DEF Init, OutputScheduled
<1>2. Scheduled /\ [Next]_vars => Scheduled'
  BY LeftStep, ScheduledStep
<1>3. Scheduled => OutputScheduled
  OBVIOUS
<1> HIDE DEF Scheduled
<1> QED
  BY <1>1, <1>2, <1>3, PTL DEF Spec

-----------------------------------------------------------------------------
(* The input is a ByteStream.                                               *)

LEMMA InStep ==
  ASSUME InInv, [Next]_vars
  PROVE  [In!Next]_(In!streamVars)
<1>1. CASE PeerSend
  BY <1>1 DEF PeerSend, InInv, inVars, In!Next, In!Offer
<1>2. CASE Consume \/ ConsumeFails
  <2>1. /\ Read /\ consumed' = consumed \o Got /\ arrived' = arrived
    BY <1>2, Zenon DEF Consume, ConsumeFails
  <2>2. /\ Got \in Seq(Nat) /\ Len(Got) > Len(received)
        /\ Len(consumed) + Len(Got) = taken'
        /\ taken' \in 0..arrived
        /\ \A i \in 1..Len(Got) : Got[i] = Len(consumed) + i
    BY <2>1, GotFacts
  <2>3. Len(received) \in Nat /\ Len(consumed) \in Nat /\ arrived \in Nat
    BY DEF InInv
  <2> DEFINE n == Len(Got)
  <2>4. n \in 1..(arrived - Len(consumed))
    BY <2>2, <2>3
  <2>5. Got = [i \in 1..n |-> Len(consumed) + i]
    <3>1. Got \in [1..n -> Nat]
      BY <2>2, LenProperties
    <3> HIDE DEF n
    <3> QED
      BY <2>2, <3>1 DEF n
  <2>6. consumed' = consumed \o [i \in 1..n |-> Len(consumed) + i]
    BY <2>1, <2>5, Zenon
  <2> HIDE DEF n
  <2> QED
    BY <2>1, <2>4, <2>6, Zenon DEF In!Next, In!Deliver
<1>3. CASE UNCHANGED <<consumed, arrived>>
  BY <1>3 DEF In!streamVars
<1> QED
  BY <1>1, <1>2, <1>3 DEF Next, PeerClose, ReadEvent, ReadHandler,
     ReadWouldBlock, ReadFails, ReadDone, ReadPart, WriteEvent, WriteHandler, Produce,
     WriteDone, Write, WriteWouldBlock, WriteFails, HandleTimeout, Quiet,
     vars, inVars

(* The application consumes exactly the bytes the peer sent, each of them   *)
(* once and in order, for every sequence of short reads, policies and       *)
(* writes in between.                                                       *)
THEOREM InputIsByteStream == Spec => InputInOrder
<1>1. Init => In!Init
  BY DEF Init, In!Init
<1>2. InInv /\ [Next]_vars => [In!Next]_(In!streamVars)
  BY InStep
<1> QED
  BY <1>1, <1>2, InInvHolds, PTL DEF Spec, InputInOrder, In!Spec

-----------------------------------------------------------------------------
(* The write queue.  The buffers of a queue continue each other: e[k - 1]   *)
(* and e[k] are the ends of the stream before and after buffer k.           *)
Piece(a, b) == [mem |-> Bytes(a, b - a), size |-> b - a, len |-> b - a]

Chain(q, e) ==
    /\ q \in Seq(Buffer) /\ e \in [0..Len(q) -> Nat]
    /\ \A k \in 1..Len(q) : e[k - 1] < e[k] /\ q[k] = Piece(e[k - 1], e[k])

LEMMA BytesFacts ==
  ASSUME NEW a \in Nat, NEW n \in Nat
  PROVE  /\ Bytes(a, n) \in Seq(Nat) /\ Len(Bytes(a, n)) = n
         /\ \A i \in 1..n : Bytes(a, n)[i] = a + i
         /\ SubSeq(Bytes(a, n), 1, n) = Bytes(a, n)
<1> DEFINE s == Bytes(a, n)
<1>1. s = [i \in 1..n |-> a + i]
  BY DEF Bytes
<1> HIDE DEF s
<1>2. s \in [1..n -> Nat]
  BY <1>1
<1>3. s \in Seq(Nat) /\ Len(s) = n
  BY <1>2, SeqDef
<1>4. SubSeq(s, 1, n) = s
  BY <1>3, SubSeqFull
<1>5. \A i \in 1..n : s[i] = a + i
  BY <1>1
<1> QED
  BY <1>3, <1>4, <1>5 DEF s

LEMMA BytesJoin ==
  ASSUME NEW a \in Nat, NEW b \in Nat, NEW c \in Nat, a <= b, b <= c
  PROVE  Bytes(a, b - a) \o Bytes(b, c - b) = Bytes(a, c - a)
<1> DEFINE s == Bytes(a, b - a)
           t == Bytes(b, c - b)
           u == Bytes(a, c - a)
           m == b - a
           n == c - b
<1>1. m \in Nat /\ n \in Nat /\ c - a = m + n /\ b = a + m
  OBVIOUS
<1>2. /\ s \in Seq(Nat) /\ Len(s) = m /\ \A i \in 1..m : s[i] = a + i
      /\ t \in Seq(Nat) /\ Len(t) = n /\ \A i \in 1..n : t[i] = b + i
      /\ u \in Seq(Nat) /\ Len(u) = m + n /\ \A i \in 1..(m + n) : u[i] = a + i
  <2>1. c - a \in Nat
    OBVIOUS
  <2>2. s \in Seq(Nat) /\ Len(s) = m /\ \A i \in 1..m : s[i] = a + i
    BY <1>1, BytesFacts
  <2>3. t \in Seq(Nat) /\ Len(t) = n /\ \A i \in 1..n : t[i] = b + i
    BY <1>1, BytesFacts
  <2>4. u \in Seq(Nat) /\ Len(u) = c - a /\ \A i \in 1..(c - a) : u[i] = a + i
    BY <2>1, BytesFacts
  <2> QED
    BY <1>1, <2>2, <2>3, <2>4
<1> HIDE DEF s, t, u, m, n
<1>3. /\ s \o t \in Seq(Nat) /\ Len(s \o t) = m + n
      /\ \A i \in 1..(m + n) : (s \o t)[i] = IF i <= m THEN s[i] ELSE t[i - m]
  BY <1>2, ConcatProperties
<1>4. ASSUME NEW i \in 1..(m + n)
      PROVE  (s \o t)[i] = u[i]
  <2>1. CASE i <= m
    BY <1>1, <1>2, <1>3, <2>1
  <2>2. CASE ~(i <= m)
    <3>1. i - m \in 1..n /\ ~(i <= m) /\ b + (i - m) = a + i
      BY <1>1, <2>2
    <3>2. t[i - m] = b + (i - m)
      BY <1>2, <3>1
    <3> QED
      BY <1>2, <1>3, <3>1, <3>2
  <2> QED
    BY <2>1, <2>2
<1>5. s \o t = u
  BY <1>2, <1>3, <1>4, SeqEqual
<1> QED
  BY <1>5 DEF s, t, u

(* The ends grow. *)
LEMMA ChainGrows ==
  ASSUME NEW q, NEW e, Chain(q, e)
  PROVE  \A i, j \in 0..Len(q) : i < j => e[i] < e[j]
<1> DEFINE N == {n \in Nat : n \in 0..Len(q) => \A i \in 0..Len(q) : i < n => e[i] < e[n]}
<1>1. Len(q) \in Nat /\ \A k \in 0..Len(q) : e[k] \in Nat
  BY DEF Chain
<1>2. 0 \in N
  BY <1>1
<1>3. ASSUME NEW n \in N
      PROVE  n + 1 \in N
  <2> SUFFICES ASSUME n + 1 \in 0..Len(q), NEW i \in 0..Len(q), i < n + 1
               PROVE  e[i] < e[n + 1]
    OBVIOUS
  <2>1. n \in 0..Len(q) /\ n + 1 \in 1..Len(q) /\ (n + 1) - 1 = n
    BY <1>1
  <2>2. e[n] < e[n + 1]
    BY <2>1 DEF Chain
  <2>3. i = n \/ e[i] < e[n]
    BY <1>1, <2>1
  <2> QED
    BY <1>1, <2>1, <2>2, <2>3
<1> HIDE DEF N
<1>4. \A n \in Nat : n \in N
  BY <1>2, <1>3, Inductive DEF N
<1> QED
  BY <1>1, <1>4 DEF N

(* The sizes of the first k buffers. *)
LEMMA ChainTotal ==
  ASSUME NEW q, NEW e, Chain(q, e), NEW g, \A k \in 1..Len(q) : g[k] = e[k] - e[k - 1]
  PROVE  /\ \A k \in 1..Len(q) : g[k] \in Nat
         /\ \A k \in 0..Len(q) : IsFiniteSet(1..k) /\ Total(g, 1..k) = e[k] - e[0]
<1>1. Len(q) \in Nat /\ \A k \in 0..Len(q) : e[k] \in Nat
  BY DEF Chain
<1>2. ASSUME NEW k \in 1..Len(q)
      PROVE  g[k] \in Nat
  <2>1. k \in 0..Len(q) /\ k - 1 \in 0..Len(q) /\ e[k - 1] < e[k]
    BY <1>1 DEF Chain
  <2> QED
    BY <1>1, <2>1
<1> DEFINE S == 1..Len(q)
           N == {n \in Nat : n \in 0..Len(q) => Total(g, 1..n) = e[n] - e[0]}
<1>3. IsFiniteSet(S) /\ \A k \in 0..Len(q) : IsFiniteSet(1..k)
  BY <1>1, FS_Interval
<1>4. /\ Total(g, {}) = 0 /\ \A s \in SUBSET S : Total(g, s) \in Nat
      /\ \A s \in SUBSET S, x \in S : x \notin s => Total(g, s \cup {x}) = Total(g, s) + g[x]
  <2> HIDE DEF S
  <2>1. \A x \in S : g[x] \in Nat
    BY <1>2 DEF S
  <2>2. IsFiniteSet(S)
    BY <1>3
  <2>3. Total(g, {}) = 0
    BY <2>1, <2>2, TotalAdds
  <2>4. \A s \in SUBSET S : Total(g, s) \in Nat
    BY <2>1, <2>2, TotalAdds
  <2>5. \A s \in SUBSET S, x \in S : x \notin s => Total(g, s \cup {x}) = Total(g, s) + g[x]
    BY <2>1, <2>2, TotalAdds
  <2> QED
    BY <2>3, <2>4, <2>5
<1>5. 0 \in N
  <2>1. 1..0 = {}
    OBVIOUS
  <2> QED
    BY <1>1, <1>4, <2>1
<1>6. ASSUME NEW n \in N
      PROVE  n + 1 \in N
  <2> SUFFICES ASSUME n + 1 \in 0..Len(q)
               PROVE  Total(g, 1..(n + 1)) = e[n + 1] - e[0]
    OBVIOUS
  <2>1. n \in 0..Len(q) /\ n + 1 \in S /\ (n + 1) - 1 = n
    BY <1>1
  <2>2. 1..n \in SUBSET S /\ n + 1 \in S /\ n + 1 \notin 1..n /\ (1..n) \cup {n + 1} = 1..(n + 1)
    BY <1>1, <2>1
  <2>3. Total(g, 1..(n + 1)) = Total(g, 1..n) + g[n + 1]
    <3>1. Total(g, (1..n) \cup {n + 1}) = Total(g, 1..n) + g[n + 1]
      BY <1>4, <2>2
    <3> QED
      BY <2>2, <3>1, Zenon
  <2>4. Total(g, 1..n) = e[n] - e[0] /\ g[n + 1] = e[n + 1] - e[n]
    BY <2>1
  <2> QED
    BY <1>1, <2>1, <2>3, <2>4
<1> HIDE DEF N
<1>7. \A n \in Nat : n \in N
  BY <1>5, <1>6, Inductive DEF N
<1>8. \A k \in 0..Len(q) : Total(g, 1..k) = e[k] - e[0]
  BY <1>1, <1>7 DEF N
<1> QED
  BY <1>2, <1>3, <1>8

LEMMA TotalOfSizes ==
  ASSUME NEW q, NEW S, IsFiniteSet(S), NEW g, \A k \in S : g[k] = q[k].size /\ g[k] \in Nat
  PROVE  MapThenSumSet(LAMBDA k : q[k].size, S) = Total(g, S)
<1> DEFINE P(F) == F = [s \in SUBSET S |-> IF s = {} THEN 0
                                           ELSE q[AnyOf(s)].size + F[s \ {AnyOf(s)}]]
<1>1. MapThenSumSet(LAMBDA k : q[k].size, S) = (CHOOSE F : P(F))[S]
  BY DEF MapThenSumSet, MapThenFoldSet, AnyOf
<1>2. ASSUME NEW F
      PROVE  P(F) <=> AddsUp(F, g, S)
  <2>1. ASSUME NEW s \in SUBSET S
        PROVE  (IF s = {} THEN 0 ELSE q[AnyOf(s)].size + F[s \ {AnyOf(s)}])
                 = (IF s = {} THEN 0 ELSE g[AnyOf(s)] + F[s \ {AnyOf(s)}])
    <3>1. s # {} => AnyOf(s) \in S
      BY DEF AnyOf
    <3> QED
      BY <3>1
  <2> QED
    BY <2>1 DEF AddsUp
<1>3. \E F : AddsUp(F, g, S)
  BY TotalExists
<1>4. AddsUp(CHOOSE F : P(F), g, S)
  <2> HIDE DEF P
  <2> QED
    BY <1>2, <1>3
<1> HIDE DEF P
<1> QED
  BY <1>1, <1>4, TotalUnique

LEMMA TotalOfLengths ==
  ASSUME NEW q, NEW S, IsFiniteSet(S), NEW g, \A k \in S : g[k] = q[k].len /\ g[k] \in Nat
  PROVE  MapThenSumSet(LAMBDA j : q[j].len, S) = Total(g, S)
<1> DEFINE P(F) == F = [s \in SUBSET S |-> IF s = {} THEN 0
                                           ELSE q[AnyOf(s)].len + F[s \ {AnyOf(s)}]]
<1>1. MapThenSumSet(LAMBDA j : q[j].len, S) = (CHOOSE F : P(F))[S]
  BY DEF MapThenSumSet, MapThenFoldSet, AnyOf
<1>2. ASSUME NEW F
      PROVE  P(F) <=> AddsUp(F, g, S)
  <2>1. ASSUME NEW s \in SUBSET S
        PROVE  (IF s = {} THEN 0 ELSE q[AnyOf(s)].len + F[s \ {AnyOf(s)}])
                 = (IF s = {} THEN 0 ELSE g[AnyOf(s)] + F[s \ {AnyOf(s)}])
    <3>1. s # {} => AnyOf(s) \in S
      BY DEF AnyOf
    <3> QED
      BY <3>1
  <2> QED
    BY <2>1 DEF AddsUp
<1>3. \E F : AddsUp(F, g, S)
  BY TotalExists
<1>4. AddsUp(CHOOSE F : P(F), g, S)
  <2> HIDE DEF P
  <2> QED
    BY <1>2, <1>3
<1> HIDE DEF P
<1> QED
  BY <1>1, <1>4, TotalUnique

(* What the buffers of a queue hold. *)
LEMMA ChainPieces ==
  ASSUME NEW q, NEW e, Chain(q, e), NEW k \in 1..Len(q)
  PROVE  /\ Len(q) \in Nat /\ k - 1 \in 0..Len(q) /\ k \in 0..Len(q)
         /\ e[k - 1] \in Nat /\ e[k] \in Nat /\ e[k - 1] < e[k] /\ e[k] - e[k - 1] \in Nat \ {0}
         /\ q[k].size = e[k] - e[k - 1] /\ q[k].len = e[k] - e[k - 1]
         /\ q[k].mem = Bytes(e[k - 1], e[k] - e[k - 1])
         /\ q[k].mem \in Seq(Nat) /\ Len(q[k].mem) = e[k] - e[k - 1]
         /\ SubSeq(q[k].mem, 1, q[k].len) = Bytes(e[k - 1], e[k] - e[k - 1])
<1>1. /\ Len(q) \in Nat /\ k - 1 \in 0..Len(q) /\ k \in 0..Len(q)
      /\ e[k - 1] \in Nat /\ e[k] \in Nat /\ e[k - 1] < e[k]
  BY DEF Chain
<1> DEFINE n == e[k] - e[k - 1]
<1>2. n \in Nat \ {0}
  BY <1>1
<1> HIDE DEF n
<1>3. q[k] = [mem |-> Bytes(e[k - 1], n), size |-> n, len |-> n]
  BY DEF Chain, Piece, n
<1>4. /\ Bytes(e[k - 1], n) \in Seq(Nat) /\ Len(Bytes(e[k - 1], n)) = n
      /\ SubSeq(Bytes(e[k - 1], n), 1, n) = Bytes(e[k - 1], n)
  BY <1>1, <1>2, BytesFacts
<1>5. q[k].mem = Bytes(e[k - 1], n) /\ q[k].size = n /\ q[k].len = n
  BY <1>3
<1>6. /\ q[k].mem \in Seq(Nat) /\ Len(q[k].mem) = n
      /\ SubSeq(q[k].mem, 1, q[k].len) = Bytes(e[k - 1], n)
  BY <1>4, <1>5, Zenon
<1> QED
  BY <1>1, <1>2, <1>5, <1>6 DEF n

LEMMA ChainSizes ==
  ASSUME NEW q, NEW e, Chain(q, e)
  PROVE  /\ MapThenSumSet(LAMBDA k : q[k].size, 1..Len(q)) = e[Len(q)] - e[0]
         /\ \A k \in 0..Len(q) : MapThenSumSet(LAMBDA j : q[j].len, 1..k) = e[k] - e[0]
<1> DEFINE g == [k \in 1..Len(q) |-> e[k] - e[k - 1]]
<1>1. \A k \in 1..Len(q) : g[k] = e[k] - e[k - 1]
  OBVIOUS
<1> HIDE DEF g
<1>2. /\ \A k \in 1..Len(q) : g[k] \in Nat
      /\ \A k \in 0..Len(q) : IsFiniteSet(1..k) /\ Total(g, 1..k) = e[k] - e[0]
  BY <1>1, ChainTotal
<1>3. \A k \in 1..Len(q) : g[k] = q[k].size /\ g[k] = q[k].len
  BY <1>1, ChainPieces
<1>4. Len(q) \in Nat /\ Len(q) \in 0..Len(q)
  BY DEF Chain
<1>5. MapThenSumSet(LAMBDA k : q[k].size, 1..Len(q)) = Total(g, 1..Len(q))
  <2> DEFINE S == 1..Len(q)
  <2>1. IsFiniteSet(S) /\ \A k \in S : g[k] = q[k].size /\ g[k] \in Nat
    BY <1>2, <1>3, <1>4
  <2> HIDE DEF S
  <2>2. MapThenSumSet(LAMBDA k : q[k].size, S) = Total(g, S)
    BY <2>1, TotalOfSizes
  <2> QED
    BY <2>2 DEF S
<1>6. ASSUME NEW k \in 0..Len(q)
      PROVE  MapThenSumSet(LAMBDA j : q[j].len, 1..k) = Total(g, 1..k)
  <2> DEFINE S == 1..k
  <2>1. IsFiniteSet(S) /\ \A j \in S : g[j] = q[j].len /\ g[j] \in Nat
    BY <1>2, <1>3, <1>4
  <2> HIDE DEF S
  <2>2. MapThenSumSet(LAMBDA j : q[j].len, S) = Total(g, S)
    BY <2>1, TotalOfLengths
  <2> QED
    BY <2>2 DEF S
<1> QED
  BY <1>2, <1>4, <1>5, <1>6

(* sendmsg() is given the bytes that were enqueued, in order. *)
LEMMA ChainGathered ==
  ASSUME NEW q, NEW e, Chain(q, e)
  PROVE  Gathered(q) = Bytes(e[0], e[Len(q)] - e[0])
<1>1. /\ Len(q) \in Nat /\ \A k \in 0..Len(q) : e[k] \in Nat
      /\ DOMAIN q = 1..Len(q) /\ 0 \in 0..Len(q) /\ Len(q) \in 0..Len(q)
  BY DEF Chain
<1> DEFINE seqs == [k \in DOMAIN q |-> SubSeq(q[k].mem, 1, q[k].len)]
           whole == [k \in 1..Len(q) |-> Bytes(e[0], e[k] - e[0])]
<1>2. Gathered(q) = FlattenSeq(seqs)
  BY DEF Gathered
<1>3. \A k \in 1..Len(q) : seqs[k] = Bytes(e[k - 1], e[k] - e[k - 1])
  BY <1>1, ChainPieces
<1>4. Len(seqs) = Len(q) /\ (Len(q) = 0 => seqs = <<>>)
  <2>1. DOMAIN seqs = 1..Len(q)
    BY <1>1
  <2>2. seqs \in [1..Len(q) -> {seqs[k] : k \in 1..Len(q)}]
    BY <1>1
  <2> HIDE DEF seqs
  <2>3. seqs \in Seq({seqs[k] : k \in 1..Len(q)}) /\ Len(seqs) = Len(q)
    BY <1>1, <2>2, SeqDef
  <2> QED
    BY <2>3
<1>5. CASE Len(q) = 0
  <2>1. Gathered(q) = <<>>
    BY <1>2, <1>4, <1>5 DEF FlattenSeq
  <2>2. e[Len(q)] - e[0] = 0
    BY <1>1, <1>5
  <2>3. Len(Bytes(e[0], 0)) = 0 /\ Bytes(e[0], 0) \in Seq(Nat)
    BY <1>1, BytesFacts
  <2>4. Bytes(e[0], 0) = <<>>
    BY <2>3, EmptySeq
  <2> QED
    BY <2>1, <2>2, <2>4
<1>6. CASE Len(q) # 0
  <2> DEFINE P(f) == f = [i \in 1..Len(seqs) |-> IF i = 1 THEN seqs[i]
                                                 ELSE f[i - 1] \o seqs[i]]
             flatten == CHOOSE f : P(f)
  <2>1. Gathered(q) = flatten[Len(seqs)]
    BY <1>2, <1>4, <1>6 DEF FlattenSeq
  <2>2. ASSUME NEW k \in 1..Len(q)
        PROVE  whole[k] = IF k = 1 THEN seqs[k] ELSE whole[k - 1] \o seqs[k]
    <3>1. seqs[k] = Bytes(e[k - 1], e[k] - e[k - 1])
      BY <1>3
    <3>2. CASE k = 1
      BY <1>1, <3>1, <3>2
    <3>3. CASE k # 1
      <4>1. k - 1 \in 1..Len(q) /\ 0 \in 0..Len(q) /\ k - 1 \in 0..Len(q) /\ k \in 0..Len(q)
            /\ 0 < k - 1 /\ k - 1 < k
        BY <1>1, <3>3
      <4>2. e[0] < e[k - 1] /\ e[k - 1] < e[k]
        BY <4>1, ChainGrows
      <4>3. Bytes(e[0], e[k - 1] - e[0]) \o Bytes(e[k - 1], e[k] - e[k - 1])
              = Bytes(e[0], e[k] - e[0])
        <5> DEFINE a == e[0]
                   b == e[k - 1]
                   c == e[k]
        <5>1. a \in Nat /\ b \in Nat /\ c \in Nat /\ a <= b /\ b <= c
          BY <1>1, <4>1, <4>2
        <5> HIDE DEF a, b, c
        <5>2. Bytes(a, b - a) \o Bytes(b, c - b) = Bytes(a, c - a)
          BY <5>1, BytesJoin
        <5> QED
          BY <5>2 DEF a, b, c
      <4>4. whole[k - 1] = Bytes(e[0], e[k - 1] - e[0]) /\ whole[k] = Bytes(e[0], e[k] - e[0])
        BY <4>1
      <4> HIDE DEF whole, seqs
      <4> QED
        BY <3>1, <3>3, <4>3, <4>4
    <3> QED
      BY <3>2, <3>3
  <2>3. P(whole)
    <3>1. whole = [k \in 1..Len(q) |-> whole[k]]
      OBVIOUS
    <3> HIDE DEF whole, seqs
    <3> QED
      BY <1>4, <2>2, <3>1
  <2>4. P(flatten)
    <3> HIDE DEF P
    <3> QED
      BY <2>3
  <2>5. \A k \in 1..Len(q) : flatten[k] = IF k = 1 THEN seqs[k] ELSE flatten[k - 1] \o seqs[k]
    <3> HIDE DEF flatten, seqs
    <3> QED
      BY <1>4, <2>4
  <2> HIDE DEF flatten, whole, seqs
  <2>6. \A k \in 1..Len(q) : flatten[k] = whole[k]
    <3>1. Alike(flatten, whole, Len(q))
      BY <2>2, <2>5 DEF Alike
    <3> QED
      BY <1>1, <3>1, StepByStep
  <2>7. Len(q) \in 1..Len(q)
    BY <1>1, <1>6
  <2>8. whole[Len(q)] = Bytes(e[0], e[Len(q)] - e[0])
    BY <2>7 DEF whole
  <2> QED
    BY <1>4, <2>1, <2>6, <2>7, <2>8
<1> QED
  BY <1>5, <1>6

(* remove_written_data_from_queue() removes the buffers that were sent and  *)
(* nothing else. *)
LEMMA ChainRemoved ==
  ASSUME NEW q, NEW e, Chain(q, e), NEW j \in 1..Len(q)
  PROVE  RemoveWritten(q, e[j] - e[0]) = SubSeq(q, j + 1, Len(q))
<1> DEFINE n == e[j] - e[0]
           P(f) == f = [k \in 1..Len(q) |->
                          IF k = 1 THEN n
                          ELSE IF q[k - 1].size <= f[k - 1]
                               THEN f[k - 1] - q[k - 1].size ELSE f[k - 1]]
           left_over == CHOOSE f : P(f)
           reached == {k \in DOMAIN q : left_over[k] > 0}
           cleared == {k \in reached : q[k].size <= left_over[k]}
           rest == [k \in DOMAIN q |->
                       IF k \in cleared
                       THEN [q[k] EXCEPT !.size = 0, !.mem = [i \in 1..Len(@) |-> 0]]
                       ELSE IF k \in reached THEN Shift(q[k], left_over[k])
                       ELSE q[k]]
           lo == [k \in 1..Len(q) |-> IF k <= j THEN e[j] - e[k - 1] ELSE 0]
<1>1. /\ Len(q) \in Nat /\ \A k \in 0..Len(q) : e[k] \in Nat
      /\ q \in Seq(Buffer) /\ DOMAIN q = 1..Len(q) /\ 0 \in 0..Len(q) /\ Len(q) \in 0..Len(q)
  BY DEF Chain
<1>2. RemoveWritten(q, n) = SubSeq(rest, Cardinality(cleared) + 1, Len(q))
  BY DEF RemoveWritten
<1>3. \A k \in 1..Len(q) :
        /\ k - 1 \in 0..Len(q) /\ k \in 0..Len(q) /\ e[k - 1] < e[k]
        /\ q[k].size = e[k] - e[k - 1]
  BY ChainPieces
<1>4. \A i, k \in 0..Len(q) : i < k => e[i] < e[k]
  BY ChainGrows
<1> HIDE DEF n
<1>5. ASSUME NEW k \in 1..Len(q)
      PROVE  lo[k] = IF k = 1 THEN n
                     ELSE IF q[k - 1].size <= lo[k - 1]
                          THEN lo[k - 1] - q[k - 1].size ELSE lo[k - 1]
  <2>1. CASE k = 1
    <3>1. k <= j /\ k - 1 = 0
      BY <1>1, <2>1
    <3> QED
      BY <2>1, <3>1 DEF n
  <2>2. CASE k # 1
    <3>1. k - 1 \in 1..Len(q) /\ (k - 1) - 1 \in 0..Len(q) /\ k - 1 \in 0..Len(q) /\ j \in 0..Len(q)
      BY <1>1, <2>2
    <3> DEFINE a == e[(k - 1) - 1]
               b == e[k - 1]
               c == e[j]
               s == q[k - 1].size
    <3>2. a \in Nat /\ b \in Nat /\ c \in Nat /\ a < b /\ s = b - a
      BY <1>1, <1>3, <3>1
    <3>3. lo[k - 1] = IF k - 1 <= j THEN c - a ELSE 0
      BY <3>1
    <3>4. lo[k] = IF k <= j THEN c - b ELSE 0
      OBVIOUS
    <3>5. k - 1 < j => b < c
      BY <1>4, <3>1
    <3>6. k - 1 = j => b = c
      OBVIOUS
    <3>7. k \in Int /\ j \in Int
      BY <1>1
    <3> HIDE DEF a, b, c, s, lo
    <3>8. CASE k - 1 < j
      BY <3>2, <3>3, <3>4, <3>5, <3>7, <3>8, <2>2 DEF s
    <3>9. CASE k - 1 = j
      BY <3>2, <3>3, <3>4, <3>6, <3>7, <3>9, <2>2 DEF s
    <3>10. CASE k - 1 > j
      <4>1. lo[k - 1] = 0 /\ lo[k] = 0
        BY <3>3, <3>4, <3>7, <3>10
      <4> QED
        BY <2>2, <3>2, <4>1 DEF s
    <3> QED
      BY <3>7, <3>8, <3>9, <3>10
  <2> QED
    BY <2>1, <2>2
<1>6. P(lo)
  <2>1. lo = [k \in 1..Len(q) |-> lo[k]]
    OBVIOUS
  <2> HIDE DEF lo
  <2> QED
    BY <1>5, <2>1
<1>7. P(left_over)
  <2> HIDE DEF P
  <2> QED
    BY <1>6
<1>8. \A k \in 1..Len(q) :
        left_over[k] = IF k = 1 THEN n
                       ELSE IF q[k - 1].size <= left_over[k - 1]
                            THEN left_over[k - 1] - q[k - 1].size ELSE left_over[k - 1]
  <2> HIDE DEF left_over
  <2> QED
    BY <1>7
<1>9. \A k \in 1..Len(q) : left_over[k] = lo[k]
  <2> HIDE DEF left_over, lo
  <2>1. Alike(left_over, lo, Len(q))
    BY <1>5, <1>8 DEF Alike
  <2> QED
    BY <1>1, <2>1, StepByStep
<1> HIDE DEF left_over, P
<1>10. ASSUME NEW k \in 1..Len(q)
       PROVE  /\ left_over[k] > 0 <=> k <= j
              /\ k <= j => q[k].size <= left_over[k]
  <2>1. /\ j \in 0..Len(q) /\ k - 1 \in 0..Len(q) /\ k \in 0..Len(q)
        /\ left_over[k] = IF k <= j THEN e[j] - e[k - 1] ELSE 0
    BY <1>1, <1>9
  <2>2. k <= j => e[k - 1] < e[j] /\ (k = j \/ e[k] < e[j])
    BY <1>4, <2>1
  <2>3. q[k].size = e[k] - e[k - 1]
    BY <1>3
  <2> QED
    BY <1>1, <2>1, <2>2, <2>3
<1>11. reached = 1..j /\ cleared = 1..j
  BY <1>1, <1>10
<1>12. Cardinality(cleared) = j
  <2>1. j \in Nat /\ ~(1 > j) /\ j - 1 + 1 = j
    BY <1>1
  <2>2. Cardinality(1..j) = j
    BY <2>1, FS_Interval
  <2> QED
    BY <1>11, <2>2
<1>13. \A k \in 1..Len(q) : k > j => rest[k] = q[k]
  <2> SUFFICES ASSUME NEW k \in 1..Len(q), k > j
               PROVE  rest[k] = q[k]
    OBVIOUS
  <2>1. k \notin cleared /\ k \notin reached
    BY <1>11
  <2> HIDE DEF cleared, reached
  <2> QED
    BY <1>1, <2>1
<1> HIDE DEF rest, cleared, reached, lo
<1>14. SubSeq(rest, j + 1, Len(q)) = SubSeq(q, j + 1, Len(q))
  <2>1. \A k \in (j + 1)..Len(q) : rest[k] = q[k] /\ q[k] \in Buffer
    <3> SUFFICES ASSUME NEW k \in (j + 1)..Len(q)
                 PROVE  rest[k] = q[k] /\ q[k] \in Buffer
      OBVIOUS
    <3>1. k \in 1..Len(q) /\ k > j
      BY <1>1
    <3> QED
      BY <1>1, <1>13, <3>1
  <2> DEFINE s == SubSeq(rest, j + 1, Len(q))
             t == SubSeq(q, j + 1, Len(q))
             m == j + 1
             L == Len(q)
  <2>2. m \in Int /\ L \in Int
    BY <1>1
  <2> HIDE DEF m, L
  <2>3. /\ SubSeq(rest, m, L) \in Seq(Buffer) /\ SubSeq(q, m, L) \in Seq(Buffer)
        /\ Len(SubSeq(rest, m, L)) = IF m <= L THEN L - m + 1 ELSE 0
        /\ Len(SubSeq(q, m, L)) = IF m <= L THEN L - m + 1 ELSE 0
        /\ \A i \in 1..(L - m + 1) : /\ SubSeq(rest, m, L)[i] = rest[m + i - 1]
                                     /\ SubSeq(q, m, L)[i] = q[m + i - 1]
    <3>1. \A k \in m..L : rest[k] \in Buffer /\ q[k] \in Buffer
      BY <2>1 DEF m, L
    <3> QED
      BY <2>2, <3>1, SubSeqProperties
  <2>4. ASSUME NEW i \in 1..(L - m + 1)
        PROVE  SubSeq(rest, m, L)[i] = SubSeq(q, m, L)[i]
    <3>1. m + i - 1 \in m..L
      BY <2>2
    <3>2. rest[m + i - 1] = q[m + i - 1]
      BY <2>1, <3>1 DEF m, L
    <3> QED
      BY <2>3, <3>2
  <2>5. SubSeq(rest, m, L) = SubSeq(q, m, L)
    <3>1. \A i \in 1..Len(SubSeq(rest, m, L)) : SubSeq(rest, m, L)[i] = SubSeq(q, m, L)[i]
      BY <2>2, <2>3, <2>4
    <3> QED
      BY <2>3, <3>1, SeqEqual
  <2> QED
    BY <2>5 DEF m, L
<1> QED
  BY <1>2, <1>12, <1>14 DEF n

-----------------------------------------------------------------------------
(* What was enqueued is on the wire or, in whole buffers, in the queue.     *)
OutInv ==
    /\ offered \in Nat
    /\ wire \in Seq(Nat) /\ \A i \in 1..Len(wire) : wire[i] = i
    /\ \E e : Chain(queue, e) /\ e[0] = Len(wire) /\ e[Len(queue)] = offered

LEMMA EnqueueKeeps ==
  ASSUME OutInv, NEW n \in Chunks, Enqueue(n), wire' = wire
  PROVE  OutInv' /\ offered' > offered
<1> DEFINE L == Len(queue)
           b == [mem |-> Bytes(offered, n), size |-> n, len |-> n]
<1>1. n \in Nat \ {0}
  BY StreamAssumption
<1>2. PICK e : Chain(queue, e) /\ e[0] = Len(wire) /\ e[L] = offered
  BY DEF OutInv
<1>3. /\ queue \in Seq(Buffer) /\ L \in Nat /\ e \in [0..L -> Nat] /\ offered \in Nat
      /\ \A k \in 1..L : e[k - 1] < e[k] /\ queue[k] = Piece(e[k - 1], e[k])
  BY <1>2 DEF Chain, OutInv
<1>4. queue' = Append(queue, b) /\ offered' = offered + n
  BY DEF Enqueue
<1>5. b \in Buffer /\ b = Piece(offered, offered + n)
  <2>1. (offered + n) - offered = n
    BY <1>1, <1>3
  <2>2. Bytes(offered, n) \in Seq(Nat)
    BY <1>1, <1>3, BytesFacts
  <2>3. b \in Buffer
    BY <1>1, <2>2 DEF Buffer
  <2>4. b = Piece(offered, offered + n)
    BY <2>1, Zenon DEF Piece
  <2> QED
    BY <2>3, <2>4
<1> HIDE DEF b
<1>6. /\ queue' \in Seq(Buffer) /\ Len(queue') = L + 1 /\ queue'[L + 1] = b
      /\ \A k \in 1..L : queue'[k] = queue[k]
  BY <1>3, <1>4, <1>5, AppendProperties
<1> HIDE DEF L
<1> DEFINE g == [k \in 0..(L + 1) |-> IF k <= L THEN e[k] ELSE offered + n]
<1>7. /\ g \in [0..(L + 1) -> Nat] /\ g[0] = e[0] /\ g[L + 1] = offered + n
      /\ \A k \in 0..L : g[k] = e[k]
  BY <1>1, <1>3
<1> HIDE DEF g
<1>8. ASSUME NEW k \in 1..(L + 1)
      PROVE  g[k - 1] < g[k] /\ queue'[k] = Piece(g[k - 1], g[k])
  <2>1. CASE k \in 1..L
    <3>1. k - 1 \in 0..L /\ k \in 0..L
      BY <1>3, <2>1
    <3> QED
      BY <1>3, <1>6, <1>7, <2>1, <3>1
  <2>2. CASE k = L + 1
    <3>1. k - 1 = L /\ L \in 0..L
      BY <1>3, <2>2
    <3>2. g[k - 1] = offered /\ g[k] = offered + n
      BY <1>2, <1>7, <2>2, <3>1 DEF L
    <3> QED
      BY <1>1, <1>3, <1>5, <1>6, <2>2, <3>2
  <2> QED
    BY <1>3, <2>1, <2>2
<1>9. Chain(queue', g)
  BY <1>6, <1>7, <1>8 DEF Chain
<1>10. g[0] = Len(wire') /\ g[Len(queue')] = offered' /\ offered' \in Nat /\ offered' > offered
  BY <1>1, <1>2, <1>3, <1>4, <1>6, <1>7
<1> QED
  BY <1>9, <1>10 DEF OutInv

(* The queue without its first j buffers. *)
Rest(q, j) == SubSeq(q, j + 1, Len(q))

LEMMA ChainRest ==
  ASSUME NEW q, NEW e, Chain(q, e), NEW j \in 1..Len(q), NEW r, r = Rest(q, j)
  PROVE  \E g : Chain(r, g) /\ g[0] = e[j] /\ g[Len(r)] = e[Len(q)]
<1> DEFINE L == Len(q)
           m == L - j
<1>1. /\ q \in Seq(Buffer) /\ L \in Nat /\ e \in [0..L -> Nat] /\ DOMAIN q = 1..L
      /\ \A k \in 1..L : e[k - 1] < e[k] /\ q[k] = Piece(e[k - 1], e[k]) /\ q[k] \in Buffer
  BY DEF Chain
<1>2. m \in Nat /\ j \in Nat /\ L = j + m
  BY <1>1
<1> HIDE DEF m
<1>3. r \in Seq(Buffer) /\ Len(r) = m /\ \A i \in 1..m : r[i] = q[j + i]
  <2>1. \A i \in (j + 1)..L : q[i] \in Buffer
    BY <1>1, <1>2
  <2> HIDE DEF L
  <2>2. j + 1 \in Int /\ L \in Int
    BY <1>1, <1>2
  <2>3. /\ r \in Seq(Buffer) /\ Len(r) = IF j + 1 <= L THEN L - (j + 1) + 1 ELSE 0
        /\ \A i \in 1..(L - (j + 1) + 1) : r[i] = q[(j + 1) + i - 1]
    <3>1. r = SubSeq(q, j + 1, L)
      BY DEF L, Rest
    <3> QED
      BY <2>1, <2>2, <3>1, SubSeqProperties
  <2>4. Len(r) = m /\ L - (j + 1) + 1 = m
    BY <1>2, <2>3
  <2>5. \A i \in 1..m : (j + 1) + i - 1 = j + i
    BY <1>2
  <2> QED
    BY <2>3, <2>4, <2>5
<1> HIDE DEF L
<1> DEFINE g == [k \in 0..m |-> e[j + k]]
<1>4. \A k \in 0..m : j + k \in 0..L
  BY <1>2
<1>5. g \in [0..m -> Nat] /\ \A k \in 0..m : g[k] = e[j + k]
  BY <1>1, <1>4
<1> HIDE DEF g
<1>6. ASSUME NEW k \in 1..m
      PROVE  g[k - 1] < g[k] /\ r[k] = Piece(g[k - 1], g[k])
  <2>1. k - 1 \in 0..m /\ k \in 0..m /\ j + k \in 1..L /\ (j + k) - 1 = j + (k - 1)
    BY <1>2
  <2> QED
    BY <1>1, <1>3, <1>5, <2>1
<1>7. Chain(r, g)
  BY <1>3, <1>5, <1>6 DEF Chain
<1>8. g[0] = e[j] /\ g[Len(r)] = e[L]
  <2>1. 0 \in 0..m /\ m \in 0..m /\ j + 0 = j /\ j + m = L
    BY <1>2
  <2> QED
    BY <1>3, <1>5, <2>1
<1> QED
  BY <1>7, <1>8 DEF L

(* How much there is to write. *)
LEMMA ChainEnds ==
  ASSUME NEW q, NEW e, Chain(q, e)
  PROVE  /\ Len(q) \in Nat /\ e[0] \in Nat /\ e[Len(q)] \in Nat /\ e[0] <= e[Len(q)]
         /\ \A j \in 1..Len(q) : /\ e[j] \in Nat /\ e[0] < e[j] /\ e[j] <= e[Len(q)]
<1>1. Len(q) \in Nat /\ \A k \in 0..Len(q) : e[k] \in Nat
  BY DEF Chain
<1>2. \A i, k \in 0..Len(q) : i < k => e[i] < e[k]
  BY ChainGrows
<1>3. 0 \in 0..Len(q) /\ Len(q) \in 0..Len(q)
  BY <1>1
<1>4. e[0] <= e[Len(q)]
  BY <1>1, <1>2, <1>3
<1>5. ASSUME NEW j \in 1..Len(q)
      PROVE  e[j] \in Nat /\ e[0] < e[j] /\ e[j] <= e[Len(q)]
  <2>1. j \in 0..Len(q) /\ 0 < j /\ (j < Len(q) \/ j = Len(q))
    BY <1>1
  <2> QED
    BY <1>1, <1>2, <1>3, <2>1
<1> QED
  BY <1>1, <1>3, <1>4, <1>5

(* A write takes buffers from the queue to the wire. *)
LEMMA WriteKeeps ==
  ASSUME WholeBuffers = TRUE, OutInv, Write
  PROVE  /\ OutInv' /\ offered' = offered
         /\ \E n \in 1..(offered - Len(wire)) :
              /\ wire' = wire \o Bytes(Len(wire), n)
              /\ Len(wire') = Len(wire) + n /\ enqueued' = (enqueued - n) % Word
<1> DEFINE L == Len(queue)
           w == Len(wire)
<1>1. PICK e : Chain(queue, e) /\ e[0] = w /\ e[L] = offered
  BY DEF OutInv
<1>2. PICK n \in Sendable(queue) :
        /\ wire' = wire \o SubSeq(Gathered(queue), 1, n)
        /\ queue' = RemoveWritten(queue, n)
        /\ enqueued' = (enqueued - n) % Word
  BY DEF Write
<1>3. PICK j \in DOMAIN queue : n = MapThenSumSet(LAMBDA i : queue[i].len, 1..j)
  BY <1>2 DEF Sendable
<1>4. /\ queue \in Seq(Buffer) /\ L \in Nat /\ j \in 1..L /\ j \in 0..L
      /\ wire \in Seq(Nat) /\ w \in Nat /\ offered \in Nat
      /\ \A i \in 1..w : wire[i] = i
  BY <1>1 DEF Chain, OutInv
<1>5. n = e[j] - e[0]
  BY <1>1, <1>3, <1>4, ChainSizes
<1>6. e[j] \in Nat /\ w < e[j] /\ e[j] <= offered /\ w <= offered
  BY <1>1, <1>4, ChainEnds
<1>7. n \in 1..(offered - w) /\ n \in Nat /\ e[j] = w + n
  <2> DEFINE x == e[j]
  <2>1. x \in Nat /\ w < x /\ x <= offered /\ n = x - w
    BY <1>1, <1>5, <1>6
  <2> HIDE DEF x, w
  <2>2. n \in 1..(offered - w) /\ n \in Nat /\ x = w + n
    BY <1>4, <2>1
  <2> QED
    BY <2>2 DEF x
<1> HIDE DEF w, L
<1>8. SubSeq(Gathered(queue), 1, n) = Bytes(w, n)
  <2> DEFINE d == offered - w
  <2>1. d \in Nat /\ n \in 1..d
    BY <1>4, <1>6, <1>7
  <2>2. Gathered(queue) = Bytes(w, d)
    BY <1>1, ChainGathered DEF L
  <2> HIDE DEF d
  <2>3. /\ Bytes(w, d) \in Seq(Nat) /\ Len(Bytes(w, d)) = d
        /\ \A i \in 1..d : Bytes(w, d)[i] = w + i
        /\ Bytes(w, n) \in Seq(Nat) /\ Len(Bytes(w, n)) = n
        /\ \A i \in 1..n : Bytes(w, n)[i] = w + i
    BY <1>4, <1>7, <2>1, BytesFacts
  <2> DEFINE a == Bytes(w, d)
             b == Bytes(w, n)
             c == SubSeq(a, 1, n)
  <2>4. a \in Seq(Nat) /\ Len(a) = d /\ \A i \in 1..d : a[i] = w + i /\ a[i] \in Nat
    BY <1>4, <2>1, <2>3
  <2>5. b \in Seq(Nat) /\ Len(b) = n /\ \A i \in 1..n : b[i] = w + i
    BY <2>3
  <2> HIDE DEF a, b
  <2>6. /\ c \in Seq(Nat) /\ Len(c) = IF 1 <= n THEN n - 1 + 1 ELSE 0
        /\ \A i \in 1..(n - 1 + 1) : c[i] = a[1 + i - 1]
    <3>1. 1 \in Int /\ n \in Int /\ \A i \in 1..n : a[i] \in Nat
      BY <1>7, <2>1, <2>4
    <3> QED
      BY <3>1, SubSeqProperties
  <2> HIDE DEF c
  <2>7. Len(c) = n
    BY <1>7, <2>6
  <2>8. ASSUME NEW i \in 1..n
        PROVE  c[i] = b[i]
    <3>1. i \in 1..(n - 1 + 1) /\ 1 + i - 1 = i /\ i \in 1..d
      BY <1>7, <2>1
    <3> QED
      BY <2>4, <2>5, <2>6, <3>1
  <2>9. c = b
    BY <2>5, <2>6, <2>7, <2>8, SeqEqual
  <2> QED
    BY <2>2, <2>9 DEF a, b, c
<1>9. /\ wire' \in Seq(Nat) /\ Len(wire') = w + n /\ \A i \in 1..(w + n) : wire'[i] = i
  <2> DEFINE t == Bytes(w, n)
  <2>1. t \in Seq(Nat) /\ Len(t) = n /\ \A i \in 1..n : t[i] = w + i
    BY <1>4, <1>7, BytesFacts
  <2>2. wire' = wire \o t
    BY <1>2, <1>8
  <2> HIDE DEF t
  <2>3. /\ wire' \in Seq(Nat) /\ Len(wire') = w + n
        /\ \A i \in 1..(w + n) : wire'[i] = IF i <= w THEN wire[i] ELSE t[i - w]
    BY <1>4, <2>1, <2>2, ConcatProperties DEF w
  <2>4. ASSUME NEW i \in 1..(w + n)
        PROVE  wire'[i] = i
    <3>1. CASE i <= w
      <4>1. i \in 1..w
        BY <1>4, <1>7, <3>1
      <4>2. wire'[i] = wire[i]
        BY <2>3, <3>1
      <4> QED
        BY <1>4, <4>1, <4>2
    <3>2. CASE ~(i <= w)
      <4>1. i - w \in 1..n /\ w + (i - w) = i
        BY <1>4, <1>7, <3>2
      <4> QED
        BY <2>1, <2>3, <3>2, <4>1
    <3> QED
      BY <3>1, <3>2
  <2> QED
    BY <2>3, <2>4
<1>10. queue' = SubSeq(queue, j + 1, L)
  BY <1>1, <1>2, <1>4, <1>5, ChainRemoved DEF L
<1>11. offered' = offered
  BY DEF Write
<1>12. \E g : Chain(queue', g) /\ g[0] = Len(wire') /\ g[Len(queue')] = offered'
  <2>1. PICK g : Chain(queue', g) /\ g[0] = e[j] /\ g[Len(queue')] = e[L]
    <3> DEFINE r == Rest(queue, j)
    <3>1. r = Rest(queue, j) /\ queue' = r /\ j \in 1..Len(queue)
      BY <1>4, <1>10 DEF L, Rest
    <3> HIDE DEF r
    <3>2. \E g : Chain(r, g) /\ g[0] = e[j] /\ g[Len(r)] = e[Len(queue)]
      BY <1>1, <3>1, ChainRest
    <3> QED
      BY <3>1, <3>2 DEF L
  <2> QED
    BY <1>1, <1>7, <1>9, <1>11, <2>1
<1>13. OutInv'
  BY <1>4, <1>9, <1>11, <1>12 DEF OutInv
<1> QED
  BY <1>2, <1>7, <1>8, <1>9, <1>11, <1>13 DEF w

-----------------------------------------------------------------------------
(* What a step can do to the output: enqueue, write, or leave it alone. *)
LEMMA OutSteps ==
  ASSUME [Next]_vars
  PROVE  \/ \E n \in Chunks : Enqueue(n) /\ wire' = wire
         \/ Write
         \/ UNCHANGED <<offered, queue, enqueued, wire>>
<1>1. CASE Consume
  BY <1>1 DEF Consume
<1>2. CASE Produce
  BY <1>2 DEF Produce
<1>3. CASE HandleTimeout
  BY <1>3 DEF HandleTimeout
<1>4. CASE UNCHANGED <<offered, queue, enqueued, wire>>
  BY <1>4
<1> QED
  BY <1>1, <1>2, <1>3, <1>4 DEF Next, PeerSend, PeerClose, ReadEvent, ReadHandler,
     ReadWouldBlock, ReadFails, ReadDone, ReadPart, ConsumeFails, WriteEvent, WriteHandler,
     WriteDone, WriteWouldBlock, WriteFails, Quiet, vars, outVars

LEMMA InitOutInv == Init => OutInv
<1> SUFFICES ASSUME Init PROVE OutInv
  OBVIOUS
<1> DEFINE e == [k \in 0..0 |-> 0]
<1>1. queue = <<>> /\ wire = <<>> /\ offered = 0
  BY DEF Init
<1>2. queue \in Seq(Buffer) /\ Len(queue) = 0 /\ wire \in Seq(Nat) /\ Len(wire) = 0
  BY <1>1
<1>3. e \in [0..0 -> Nat] /\ e[0] = 0 /\ 1..0 = {}
  OBVIOUS
<1> HIDE DEF e
<1>4. Chain(queue, e)
  BY <1>2, <1>3 DEF Chain
<1> QED
  BY <1>1, <1>2, <1>3, <1>4 DEF OutInv

LEMMA NextOutInv ==
  ASSUME WholeBuffers = TRUE, OutInv, [Next]_vars
  PROVE  OutInv'
<1>1. CASE \E n \in Chunks : Enqueue(n) /\ wire' = wire
  BY <1>1, EnqueueKeeps
<1>2. CASE Write
  BY <1>2, WriteKeeps
<1>3. CASE UNCHANGED <<offered, queue, enqueued, wire>>
  <2>1. offered' = offered /\ queue' = queue /\ wire' = wire
    BY <1>3
  <2> QED
    BY <2>1 DEF OutInv
<1> QED
  BY <1>1, <1>2, <1>3, OutSteps

LEMMA OutInvHolds ==
  ASSUME WholeBuffers = TRUE
  PROVE  Spec => []OutInv
<1>1. OutInv /\ [Next]_vars => OutInv'
  BY NextOutInv
<1> QED
  BY <1>1, InitOutInv, PTL DEF Spec

(* The output is a ByteStream. *)
LEMMA OutStep ==
  ASSUME WholeBuffers = TRUE, OutInv, [Next]_vars
  PROVE  [Out!Next]_(Out!streamVars)
<1>1. CASE \E n \in Chunks : Enqueue(n) /\ wire' = wire
  <2>1. offered' > offered /\ wire' = wire
    BY <1>1, EnqueueKeeps
  <2> QED
    BY <2>1 DEF Out!Next, Out!Offer
<1>2. CASE Write
  <2>1. /\ offered' = offered
        /\ \E n \in 1..(offered - Len(wire)) : wire' = wire \o Bytes(Len(wire), n)
    BY <1>2, WriteKeeps
  <2> QED
    BY <2>1 DEF Out!Next, Out!Deliver, Bytes
<1>3. CASE UNCHANGED <<offered, queue, enqueued, wire>>
  BY <1>3 DEF Out!streamVars
<1> QED
  BY <1>1, <1>2, <1>3, OutSteps

(* The peer receives exactly the bytes that were enqueued, each of them     *)
(* once and in order, for buffers of any sizes and writes of any number of  *)
(* them, when the socket takes whole buffers: what                          *)
(* remove_written_data_from_queue() erases is what sendmsg() has taken.     *)
THEOREM OutputIsByteStream ==
  ASSUME WholeBuffers = TRUE
  PROVE  Spec => OutputInOrder
<1>1. Init => Out!Init
  BY DEF Init, Out!Init
<1>2. OutInv /\ [Next]_vars => [Out!Next]_(Out!streamVars)
  BY OutStep
<1> QED
  BY <1>1, <1>2, OutInvHolds, PTL DEF Spec, OutputInOrder, Out!Spec

-----------------------------------------------------------------------------
(* num_enqueued_bytes_.                                                     *)

(* The bytes in the queue fit into a size_t. *)
Fits == offered - Len(wire) < Word

Counted == enqueued = offered - Len(wire)

LEMMA SmallRemainder ==
  ASSUME NEW x \in Nat, NEW m \in Nat \ {0}, x < m
  PROVE  x % m = x
OBVIOUS

LEMMA CountedStep ==
  ASSUME WholeBuffers = TRUE, OutInv, Counted, [Next]_vars, Fits'
  PROVE  Counted'
<1>1. offered \in Nat /\ Len(wire) \in Nat /\ Word \in Nat \ {0} /\ Len(wire) <= offered
  <2>1. PICK e : Chain(queue, e) /\ e[0] = Len(wire) /\ e[Len(queue)] = offered
    BY DEF OutInv
  <2> QED
    BY <2>1, ChainEnds, StreamAssumption DEF OutInv
<1> DEFINE w == Len(wire)
           v == Len(wire')
<1> USE DEF Counted, Fits
<1>2. CASE \E n \in Chunks : Enqueue(n) /\ wire' = wire
  <2>1. PICK n \in Chunks : Enqueue(n) /\ wire' = wire
    BY <1>2
  <2>2. n \in Nat /\ enqueued' = (enqueued + n) % Word /\ offered' = offered + n /\ v = w
    BY <2>1, StreamAssumption DEF Enqueue
  <2> DEFINE x == enqueued + n
  <2>3. x = offered' - v /\ x \in Nat /\ x < Word
    BY <1>1, <2>2
  <2> HIDE DEF x
  <2>4. x % Word = x
    BY <1>1, <2>3, SmallRemainder
  <2> QED
    BY <2>2, <2>3, <2>4 DEF x
<1>3. CASE Write
  <2>1. PICK n \in 1..(offered - w) :
          v = w + n /\ enqueued' = (enqueued - n) % Word
    BY <1>3, WriteKeeps
  <2>2. offered' = offered
    BY <1>3, WriteKeeps
  <2> DEFINE x == enqueued - n
  <2> HIDE DEF w, v
  <2>3. x = offered' - v /\ x \in Nat
    BY <1>1, <2>1, <2>2 DEF w
  <2>4. x < Word
    BY <2>3 DEF v
  <2> HIDE DEF x
  <2>5. x % Word = x
    BY <1>1, <2>3, <2>4, SmallRemainder
  <2> QED
    BY <2>1, <2>3, <2>5 DEF x, v
<1>4. CASE UNCHANGED <<offered, queue, enqueued, wire>>
  BY <1>4
<1> QED
  BY <1>2, <1>3, <1>4, OutSteps

LEMMA Matches ==
  ASSUME OutInv, Counted
  PROVE  QueueMatches
<1>1. PICK e : Chain(queue, e) /\ e[0] = Len(wire) /\ e[Len(queue)] = offered
  BY DEF OutInv
<1>2. DOMAIN queue = 1..Len(queue)
  BY <1>1 DEF Chain
<1>3. \A k \in DOMAIN queue :
        queue[k].size = queue[k].len /\ queue[k].len = Len(queue[k].mem)
  BY <1>1, <1>2, ChainPieces
<1>4. MapThenSumSet(LAMBDA k : queue[k].size, DOMAIN queue) = offered - Len(wire)
  BY <1>1, <1>2, ChainSizes
<1>5. Gathered(queue) = Bytes(Len(wire), offered - Len(wire))
  BY <1>1, ChainGathered
<1> QED
  BY <1>3, <1>4, <1>5 DEF Counted, QueueMatches

(* The write queue, its iovecs and num_enqueued_bytes_ stay in step through *)
(* every interleaving of what the application enqueues and what the socket  *)
(* takes, when that is whole buffers, and when the bytes in the queue are   *)
(* fewer than a size_t can count.                                           *)
THEOREM QueueStaysMatched ==
  ASSUME WholeBuffers = TRUE
  PROVE  Spec /\ [](offered - Len(wire) < Word) => []QueueMatches
<1>1. Init => Counted
  <2> SUFFICES ASSUME Init PROVE Counted
    OBVIOUS
  <2>1. wire = <<>> /\ offered = 0 /\ enqueued = 0
    BY DEF Init
  <2>2. enqueued = 0 /\ offered = 0 /\ Len(wire) = 0
    BY <2>1
  <2> QED
    BY <2>2 DEF Counted
<1>2. OutInv /\ Counted /\ [Next]_vars /\ Fits' => Counted'
  BY CountedStep
<1>3. OutInv /\ Counted => QueueMatches
  BY Matches
<1>4. (offered - Len(wire) < Word) <=> Fits
  BY DEF Fits
<1> QED
  BY <1>1, <1>2, <1>3, <1>4, OutInvHolds, PTL DEF Spec

-----------------------------------------------------------------------------
(* Types.                                                                   *)

(* The part of TypeOK that neither direction's invariant says. *)
Bounded ==
    /\ mask \subseteq {"read", "write"}
    /\ phase \in {"idle", "read", "fetch", "gone", "failed"}
    /\ turn \in Nat /\ fetches \in 0..MaxFetches
    /\ Len(received) <= policy.max
    /\ arrived \in 0..MaxArrived
    /\ left \in 0..MaxProduced /\ replies \in 0..MaxReplies
    /\ enqueued \in 0..(Word - 1)
    /\ peer \in {"open", "closed"}

LEMMA GotFits ==
  ASSUME InInv, Read
  PROVE  Len(Got) <= policy.max
<1> DEFINE k == Min({Available, Space})
           more == Bytes(taken, k)
<1>1. /\ taken \in Nat /\ arrived \in Nat /\ Len(received) \in Nat
      /\ policy.max \in Nat /\ received \in Seq(Nat)
  BY StreamAssumption DEF InInv
<1>2. /\ Available \in Nat \ {0} /\ Space \in Nat \ {0}
      /\ Space = policy.max - Len(received)
  BY <1>1 DEF Read, InInv, Available, Space
<1>3. k \in Nat \ {0} /\ k <= Space
  BY <1>2, MinOfTwo
<1> HIDE DEF k
<1>4. more \in Seq(Nat) /\ Len(more) = k
  BY <1>1, <1>3, BytesFacts
<1> HIDE DEF more
<1>5. Got = received \o more
  BY DEF Got, more, k
<1>6. Len(Got) = Len(received) + k
  BY <1>1, <1>4, <1>5, ConcatProperties
<1> QED
  BY <1>1, <1>2, <1>3, <1>6

LEMMA InitBounded == Init => Bounded
<1> SUFFICES ASSUME Init PROVE Bounded
  OBVIOUS
<1>1. policy.max \in Nat /\ Len(received) = 0
  <2>1. received = <<>> /\ policy \in Policies
    BY DEF Init
  <2> QED
    BY <2>1, StreamAssumption
<1> QED
  BY <1>1, StreamAssumption DEF Init, Bounded

LEMMA EnqueueBounded ==
  ASSUME Bounded, NEW n \in Chunks, Enqueue(n)
  PROVE  mask' \subseteq {"read", "write"} /\ enqueued' \in 0..(Word - 1)
<1>1. enqueued + n \in Nat /\ Word \in Nat \ {0}
  BY StreamAssumption DEF Bounded
<1>2. enqueued' = (enqueued + n) % Word /\ mask' = mask \cup {"write"}
  BY DEF Enqueue
<1> QED
  BY <1>1, <1>2 DEF Bounded

LEMMA DoneBounded ==
  ASSUME Bounded, NEW op, Done(op)
  PROVE  mask' \subseteq {"read", "write"} /\ phase' \in {"gone", "idle"}
BY DEF Done, Bounded

LEMMA NextBounded ==
  ASSUME WholeBuffers = TRUE, InInv, OutInv, Bounded, [Next]_vars
  PROVE  Bounded'
<1>1. CASE PeerSend
  BY <1>1, StreamAssumption DEF PeerSend, Bounded, inVars, loopVars, outVars
<1>2. CASE PeerClose
  BY <1>2 DEF PeerClose, Bounded, inVars, loopVars, outVars
<1>3. CASE ReadEvent \/ ReadWouldBlock
  <2>1. turn' \in {turn, 0} /\ phase' \in {"read", "idle"}
    BY <1>3 DEF ReadEvent, ReadWouldBlock
  <2>2. UNCHANGED <<mask, fetches, policy, received, arrived, left, replies, enqueued, peer>>
    BY <1>3 DEF ReadEvent, ReadWouldBlock, inVars, outVars
  <2> QED
    BY <2>1, <2>2 DEF Bounded
<1>4. CASE ReadDone
  <2>1. mask' \subseteq {"read", "write"} /\ phase' \in {"gone", "idle"}
    BY <1>4, DoneBounded DEF ReadDone
  <2> QED
    BY <1>4, <2>1 DEF ReadDone, Bounded, inVars, outVars
<1>5. CASE ReadPart
  <2>1. Read /\ Len(Got) <= policy.max
    BY <1>5, GotFits DEF ReadPart
  <2>2. received' = Got /\ turn' = turn + 1 /\ phase' \in {"read", "idle"}
    BY <1>5 DEF ReadPart, Read, ReadAgain
  <2> QED
    BY <1>5, <2>1, <2>2 DEF ReadPart, Bounded, outVars
<1>6. CASE Consume
  <2>1. received' = <<>> /\ policy' \in Policies
    BY <1>6, Zenon DEF Consume, Reset
  <2>2. Len(received') <= policy'.max
    BY <2>1, StreamAssumption
  <2>3. turn' = turn + 1 /\ phase' \in {"read", "idle"}
    BY <1>6 DEF Consume, Read, ReadAgain
  <2>4. /\ mask' \subseteq {"read", "write"} /\ enqueued' \in 0..(Word - 1)
        /\ replies' \in 0..MaxReplies
    <3>1. CASE UNCHANGED <<mask, queue, enqueued, offered, replies>>
      BY <3>1 DEF Bounded
    <3>2. CASE /\ replies < MaxReplies /\ replies' = replies + 1
               /\ \E n \in Chunks : Enqueue(n)
      <4>1. replies' \in 0..MaxReplies
        BY <3>2, StreamAssumption DEF Bounded
      <4> QED
        BY <3>2, <4>1, EnqueueBounded
    <3> QED
      BY <1>6, <3>1, <3>2 DEF Consume
  <2>5. UNCHANGED <<fetches, arrived, left, peer>>
    BY <1>6 DEF Consume
  <2> QED
    BY <2>2, <2>3, <2>4, <2>5 DEF Bounded
<1>7. CASE ConsumeFails
  BY <1>7 DEF ConsumeFails, Read, Bounded, outVars
<1>8. CASE WriteEvent
  BY <1>8, StreamAssumption DEF WriteEvent, Bounded, inVars, outVars
<1>9. CASE Produce
  <2>1. PICK n \in Chunks : n <= left /\ left' = left - n /\ Enqueue(n)
    BY <1>9 DEF Produce
  <2>2. mask' \subseteq {"read", "write"} /\ enqueued' \in 0..(Word - 1)
    BY <2>1, EnqueueBounded
  <2>3. left' \in 0..MaxProduced /\ fetches' \in 0..MaxFetches
    BY <1>9, <2>1, StreamAssumption DEF Produce, Fetching, Bounded
  <2> QED
    BY <1>9, <2>2, <2>3 DEF Produce, Bounded, inVars
<1>10. CASE WriteDone
  <2>1. mask' \subseteq {"read", "write"} /\ phase' \in {"gone", "idle"}
    BY <1>10, DoneBounded DEF WriteDone
  <2> QED
    BY <1>10, <2>1 DEF WriteDone, Bounded, inVars, outVars
<1>11. CASE Write
  <2>1. PICK n \in 1..(offered - Len(wire)) : enqueued' = (enqueued - n) % Word
    BY <1>11, WriteKeeps
  <2>2. enqueued' \in 0..(Word - 1)
    <3>1. n \in Int /\ enqueued \in Int /\ Word \in Nat \ {0}
      BY StreamAssumption DEF Bounded
    <3> DEFINE x == enqueued - n
    <3>2. x \in Int
      BY <3>1
    <3> HIDE DEF x
    <3>3. x % Word \in 0..(Word - 1)
      BY <3>1, <3>2
    <3> QED
      BY <2>1, <3>3 DEF x
  <2>3. /\ mask' \subseteq {"read", "write"}
        /\ phase' \in {"fetch", "gone", "idle"}
    BY <1>11 DEF Write, Done, Bounded
  <2>4. turn' = turn + 1 /\ fetches' = 0 /\ UNCHANGED <<policy, received, arrived, left, replies, peer>>
    BY <1>11 DEF Write, inVars
  <2> QED
    BY <2>2, <2>3, <2>4, StreamAssumption DEF Bounded
<1>12. CASE WriteWouldBlock \/ WriteFails \/ ReadFails
  BY <1>12 DEF WriteWouldBlock, WriteFails, ReadFails, Bounded, inVars, outVars
<1>13. CASE HandleTimeout
  <2>1. Len(received') <= policy'.max
    <3>1. CASE policy' = policy
      BY <1>13, <3>1 DEF HandleTimeout, Bounded
    <3>2. CASE received = <<>> /\ policy' \in Policies
      BY <1>13, <3>2, StreamAssumption DEF HandleTimeout
    <3> QED
      BY <1>13, <3>1, <3>2 DEF HandleTimeout
  <2>2. /\ mask' \subseteq {"read", "write"} /\ enqueued' \in 0..(Word - 1)
        /\ replies' \in 0..MaxReplies
    <3>1. CASE UNCHANGED <<mask, queue, enqueued, offered, replies>>
      BY <3>1 DEF Bounded
    <3>2. CASE /\ replies < MaxReplies /\ replies' = replies + 1
               /\ \E n \in Chunks : Enqueue(n)
      <4>1. replies' \in 0..MaxReplies
        BY <3>2, StreamAssumption DEF Bounded
      <4> QED
        BY <3>2, <4>1, EnqueueBounded
    <3> QED
      BY <1>13, <3>1, <3>2 DEF HandleTimeout
  <2> QED
    BY <1>13, <2>1, <2>2 DEF HandleTimeout, Bounded, loopVars
<1>14. CASE UNCHANGED vars
  BY <1>14 DEF vars, Bounded, inVars, outVars, loopVars
<1> QED
  BY <1>1, <1>2, <1>3, <1>4, <1>5, <1>6, <1>7, <1>8, <1>9, <1>10, <1>11, <1>12,
     <1>13, <1>14 DEF Next, ReadHandler, WriteHandler, Quiet

(* The transport's state is well formed: the buffers of the queue and their *)
(* counter, the number of fetches, the mask, and an input buffer that never *)
(* holds more than its policy's maximum.                                    *)
THEOREM StreamTypeCorrect ==
  ASSUME WholeBuffers = TRUE
  PROVE  Spec => []TypeOK
<1>1. InInv /\ OutInv /\ Bounded /\ [Next]_vars => Bounded'
  BY NextBounded
<1>2. InInv /\ OutInv /\ Bounded => TypeOK
  <2> SUFFICES ASSUME InInv, OutInv, Bounded PROVE TypeOK
    OBVIOUS
  <2>1. queue \in Seq(Buffer)
    BY DEF OutInv, Chain
  <2> QED
    BY <2>1 DEF InInv, OutInv, Bounded, TypeOK
<1> QED
  BY <1>1, <1>2, InitBounded, InInvHolds, OutInvHolds, PTL DEF Spec
=============================================================================
