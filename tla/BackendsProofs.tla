--------------------------- MODULE BackendsProofs ---------------------------
(***************************************************************************)
(* Both loops, for any number of connections, any order of completions and *)
(* any failures.  io_uring: a manager reads into its buffer once at a      *)
(* time, and what its mask says has been submitted, as long as the ring    *)
(* has room.  kqueue: what a mask says is on in the kernel, or is going to *)
(* be once the list of changes has been worked off.                        *)
(***************************************************************************)
EXTENDS Backends, DataInduction, SequenceTheorems, TLAPS

Masks == {"read", "write", "accept"}
Submission == [mgr : Handle, op : Masks \cup {"poll_read", "poll_write"}]
Multiplexer ==
    [managers : SUBSET Handle, mask : [Handle -> SUBSET Masks],
     running : BOOLEAN, shutting_down : BOOLEAN, queue : Seq(Submission)]

Reading == {"read", "poll_read", "accept"}
Reads(s) == s.op \in Reading

(* Of the sequence of submissions f: no manager reads twice; manager h does *)
(* not read; manager h has submitted nothing.                               *)
Single(f) ==
    \A j, k \in DOMAIN f : Reads(f[j]) /\ Reads(f[k]) /\ f[j].mgr = f[k].mgr => j = k
NotReading(h, f) == \A k \in DOMAIN f : f[k].mgr = h => ~Reads(f[k])
Absent(h, f) == \A k \in DOMAIN f : f[k].mgr # h

(* The submissions q that the kernel does not have yet and those it has, f. *)
Sole(q, f) ==
    /\ Single(q) /\ Single(f)
    /\ \A k \in DOMAIN q : Reads(q[k]) => NotReading(q[k].mgr, f)

(* A connection in the pipe p is there once and has submitted nothing.      *)
Waits(h, p) == h # "shutdown" /\ \E k \in DOMAIN p : p[k] = h
Waiting(p, q, f) ==
    /\ \A k \in DOMAIN p : p[k] # "shutdown" => Absent(p[k], q) /\ Absent(p[k], f)
    /\ \A j, k \in DOMAIN p : p[j] # "shutdown" /\ p[j] = p[k] => j = k

(* OneReader needs the connections in the pipe: whoever is added may read   *)
(* only because nothing of an earlier life of the descriptor is left.       *)
Orderly(m, f, p) ==
    /\ m \in Multiplexer /\ f \in Seq(Submission) /\ p \in Seq(Conn \cup {"shutdown"})
    /\ Sole(m.queue, f)
    /\ Waiting(p, m.queue, f)

UringInv == backend = "uring" => Orderly(mpx, inflight, pipe)

-----------------------------------------------------------------------------
(* Sequences of submissions. *)

(* A submission at the end. *)
LEMMA Appended ==
    ASSUME NEW q \in Seq(Submission), NEW s \in Submission
    PROVE  /\ Append(q, s) \in Seq(Submission)
           /\ DOMAIN Append(q, s) = DOMAIN q \cup {Len(q) + 1}
           /\ Append(q, s)[Len(q) + 1] = s
           /\ Len(q) + 1 \notin DOMAIN q
           /\ \A k \in DOMAIN q : Append(q, s)[k] = q[k]
  OBVIOUS

(* The elements of a concatenation, and of what is left of a sequence from  *)
(* an index on or up to one.                                                *)
LEMMA Concatenated ==
    ASSUME NEW a \in Seq(Submission), NEW b \in Seq(Submission)
    PROVE  /\ a \o b \in Seq(Submission) /\ Len(a \o b) = Len(a) + Len(b)
           /\ \A j \in 1..(Len(a) + Len(b)) :
                (a \o b)[j] = IF j <= Len(a) THEN a[j] ELSE b[j - Len(a)]
  BY ConcatProperties

LEMMA Taken ==
    ASSUME NEW f \in Seq(Submission), NEW k \in DOMAIN f
    PROVE  /\ SubSeq(f, 1, k - 1) \in Seq(Submission) /\ Len(SubSeq(f, 1, k - 1)) = k - 1
           /\ \A j \in 1..(k - 1) : SubSeq(f, 1, k - 1)[j] = f[j]
           /\ SubSeq(f, k + 1, Len(f)) \in Seq(Submission)
           /\ Len(SubSeq(f, k + 1, Len(f))) = Len(f) - k
           /\ \A j \in 1..(Len(f) - k) : SubSeq(f, k + 1, Len(f))[j] = f[j + k]
  <1>1. k \in 1..Len(f) /\ Len(f) \in Nat
    OBVIOUS
  <1>2. \A i \in 1..Len(f) : f[i] \in Submission
    OBVIOUS
  <1>3. /\ SubSeq(f, 1, k - 1) \in Seq(Submission)
        /\ Len(SubSeq(f, 1, k - 1)) = k - 1
        /\ \A j \in 1..(k - 1) : SubSeq(f, 1, k - 1)[j] = f[j]
    <2>1. 1 \in Int /\ k - 1 \in Int /\ \A i \in 1..(k - 1) : f[i] \in Submission
      BY <1>1, <1>2
    <2>2. /\ SubSeq(f, 1, k - 1) \in Seq(Submission)
          /\ Len(SubSeq(f, 1, k - 1)) = IF 1 <= k - 1 THEN (k - 1) - 1 + 1 ELSE 0
          /\ \A j \in 1..((k - 1) - 1 + 1) : SubSeq(f, 1, k - 1)[j] = f[1 + j - 1]
      BY <2>1, SubSeqProperties
    <2> QED
      BY <1>1, <2>2
  <1>4. /\ SubSeq(f, k + 1, Len(f)) \in Seq(Submission)
        /\ Len(SubSeq(f, k + 1, Len(f))) = Len(f) - k
        /\ \A j \in 1..(Len(f) - k) : SubSeq(f, k + 1, Len(f))[j] = f[j + k]
    <2>1. k + 1 \in Int /\ Len(f) \in Int /\ \A i \in (k + 1)..Len(f) : f[i] \in Submission
      BY <1>1, <1>2
    <2>2. /\ SubSeq(f, k + 1, Len(f)) \in Seq(Submission)
          /\ Len(SubSeq(f, k + 1, Len(f))) = IF k + 1 <= Len(f) THEN Len(f) - (k + 1) + 1 ELSE 0
          /\ \A j \in 1..(Len(f) - (k + 1) + 1) :
               SubSeq(f, k + 1, Len(f))[j] = f[(k + 1) + j - 1]
      BY <2>1, SubSeqProperties
    <2> QED
      BY <1>1, <2>2
  <1> QED
    BY <1>3, <1>4

(* A completed submission is taken out. *)
LEMMA Removed ==
    ASSUME NEW f \in Seq(Submission), NEW k \in DOMAIN f
    PROVE  /\ RemoveAt(f, k) \in Seq(Submission)
           /\ \A j \in DOMAIN RemoveAt(f, k) :
                \E i \in DOMAIN f : RemoveAt(f, k)[j] = f[i] /\ i # k
                                    /\ i = IF j < k THEN j ELSE j + 1
           /\ \A i \in DOMAIN f : i # k =>
                \E j \in DOMAIN RemoveAt(f, k) : RemoveAt(f, k)[j] = f[i]
  <1>1. k \in 1..Len(f) /\ Len(f) \in Nat
    OBVIOUS
  <1>2. PICK a \in Seq(Submission), b \in Seq(Submission) :
          /\ RemoveAt(f, k) = a \o b
          /\ Len(a) = k - 1 /\ \A j \in 1..(k - 1) : a[j] = f[j]
          /\ Len(b) = Len(f) - k /\ \A j \in 1..(Len(f) - k) : b[j] = f[j + k]
    <2>1. RemoveAt(f, k) = SubSeq(f, 1, k - 1) \o SubSeq(f, k + 1, Len(f))
      BY DEF RemoveAt
    <2>2. SubSeq(f, 1, k - 1) \in Seq(Submission) /\ SubSeq(f, k + 1, Len(f)) \in Seq(Submission)
      BY Taken
    <2> QED
      BY <2>1, <2>2, Taken, Zenon
  <1>3. PICK r \in Seq(Submission) :
          /\ RemoveAt(f, k) = r /\ Len(r) = Len(a) + Len(b)
          /\ \A j \in 1..(Len(a) + Len(b)) : r[j] = IF j <= Len(a) THEN a[j] ELSE b[j - Len(a)]
    <2>1. a \o b \in Seq(Submission)
      BY Concatenated
    <2> QED
      BY <1>2, <2>1, Concatenated, Zenon
  <1>4. Len(r) = Len(f) - 1 /\ DOMAIN r = 1..(Len(f) - 1)
    BY <1>1, <1>2, <1>3
  <1>5. ASSUME NEW j \in 1..(Len(f) - 1)
        PROVE  /\ j < k => r[j] = f[j]
               /\ ~(j < k) => r[j] = f[j + 1]
    <2>1. r[j] = IF j <= k - 1 THEN a[j] ELSE b[j - (k - 1)]
      <3>1. Len(a) + Len(b) = Len(f) - 1
        BY <1>1, <1>2
      <3> QED
        BY <1>2, <1>3, <3>1, Zenon
    <2>2. CASE j < k
      <3>1. j \in 1..(k - 1) /\ j <= k - 1
        BY <1>1, <2>2
      <3>2. a[j] = f[j]
        BY <1>2, <3>1, Zenon
      <3> QED
        BY <2>1, <2>2, <3>1, <3>2, Zenon
    <2>3. CASE ~(j < k)
      <3>1. /\ j - (k - 1) \in 1..(Len(f) - k) /\ (j - (k - 1)) + k = j + 1
            /\ ~(j <= k - 1)
        BY <1>1, <2>3
      <3>2. b[j - (k - 1)] = f[(j - (k - 1)) + k]
        BY <1>2, <3>1, Zenon
      <3> QED
        BY <2>1, <2>3, <3>1, <3>2, Zenon
    <2> QED
      BY <2>2, <2>3
  <1>6. ASSUME NEW j \in DOMAIN r
        PROVE  \E i \in DOMAIN f : r[j] = f[i] /\ i # k /\ i = IF j < k THEN j ELSE j + 1
    <2>1. j \in 1..(Len(f) - 1)
      BY <1>4, Zenon
    <2>2. CASE j < k
      <3>1. j \in DOMAIN f /\ j # k
        BY <1>1, <2>1, <2>2
      <3> QED
        BY <1>5, <2>1, <2>2, <3>1, Zenon
    <2>3. CASE ~(j < k)
      <3>1. j + 1 \in DOMAIN f /\ j + 1 # k
        BY <1>1, <2>1, <2>3
      <3> QED
        BY <1>5, <2>1, <2>3, <3>1, Zenon
    <2> QED
      BY <2>2, <2>3
  <1>7. ASSUME NEW i \in DOMAIN f, i # k
        PROVE  \E j \in DOMAIN r : r[j] = f[i]
    <2>1. CASE i < k
      <3>1. i \in 1..(Len(f) - 1)
        BY <1>1, <2>1
      <3> QED
        BY <1>4, <1>5, <2>1, <3>1, Zenon
    <2>2. CASE i > k
      <3>1. i - 1 \in 1..(Len(f) - 1) /\ ~(i - 1 < k) /\ (i - 1) + 1 = i
        BY <1>1, <2>2
      <3>2. r[i - 1] = f[i]
        BY <1>5, <3>1, Zenon
      <3> QED
        BY <1>4, <3>1, <3>2, Zenon
    <2> QED
      BY <1>1, <1>7, <2>1, <2>2
  <1> QED
    BY <1>3, <1>6, <1>7, Zenon

(* What is appended can be found in one of the parts. *)
LEMMA Joined ==
    ASSUME NEW f \in Seq(Submission), NEW q \in Seq(Submission)
    PROVE  /\ f \o q \in Seq(Submission)
           /\ \A j \in DOMAIN (f \o q) :
                \/ j \in DOMAIN f /\ (f \o q)[j] = f[j]
                \/ j - Len(f) \in DOMAIN q /\ j \notin DOMAIN f /\ (f \o q)[j] = q[j - Len(f)]
           /\ \A j \in DOMAIN f : j \in DOMAIN (f \o q) /\ (f \o q)[j] = f[j]
           /\ \A j \in DOMAIN q : Len(f) + j \in DOMAIN (f \o q) /\ (f \o q)[Len(f) + j] = q[j]
  <1>1. PICK r \in Seq(Submission) :
          /\ r = f \o q /\ Len(r) = Len(f) + Len(q)
          /\ \A j \in 1..(Len(f) + Len(q)) : r[j] = IF j <= Len(f) THEN f[j] ELSE q[j - Len(f)]
    BY Concatenated
  <1>2. Len(f) \in Nat /\ Len(q) \in Nat /\ DOMAIN f = 1..Len(f) /\ DOMAIN q = 1..Len(q)
        /\ DOMAIN r = 1..Len(r)
    OBVIOUS
  <1> QED
    BY <1>1, <1>2

(* Nobody reads twice: after a submission of a manager that did not read,   *)
(* after a completion, and after the kernel has taken all.                  *)
LEMMA SoleSubmitted ==
    ASSUME NEW q \in Seq(Submission), NEW f \in Seq(Submission), NEW s \in Submission,
           Sole(q, f),
           Reads(s) => NotReading(s.mgr, q) /\ NotReading(s.mgr, f)
    PROVE  Sole(Append(q, s), f)
  <1> DEFINE r == Append(q, s)
  <1>1. /\ DOMAIN r = DOMAIN q \cup {Len(q) + 1} /\ r[Len(q) + 1] = s
        /\ \A k \in DOMAIN q : r[k] = q[k]
    BY Appended
  <1> HIDE DEF r
  <1>2. Single(r)
    BY <1>1 DEF Sole, Single, NotReading
  <1>3. \A k \in DOMAIN r : Reads(r[k]) => NotReading(r[k].mgr, f)
    BY <1>1 DEF Sole
  <1> QED
    BY <1>2, <1>3 DEF Sole, r

LEMMA SoleRemoved ==
    ASSUME NEW q \in Seq(Submission), NEW f \in Seq(Submission), NEW k \in DOMAIN f,
           Sole(q, f)
    PROVE  /\ Sole(q, RemoveAt(f, k))
           /\ Reads(f[k]) => /\ NotReading(f[k].mgr, q)
                             /\ NotReading(f[k].mgr, RemoveAt(f, k))
  <1> DEFINE r == RemoveAt(f, k)
  <1>1. \A j \in DOMAIN r : \E i \in DOMAIN f : r[j] = f[i] /\ i # k
                                              /\ i = IF j < k THEN j ELSE j + 1
    BY Removed
  <1>2. r \in Seq(Submission)
    BY Removed
  <1> HIDE DEF r
  <1>3. Single(r)
    <2> SUFFICES ASSUME NEW i \in DOMAIN r, NEW j \in DOMAIN r,
                        Reads(r[i]), Reads(r[j]), r[i].mgr = r[j].mgr
                 PROVE  i = j
      BY DEF Single
    <2>1. PICK a \in DOMAIN f : r[i] = f[a] /\ a # k /\ a = IF i < k THEN i ELSE i + 1
      BY <1>1
    <2>2. PICK b \in DOMAIN f : r[j] = f[b] /\ b # k /\ b = IF j < k THEN j ELSE j + 1
      BY <1>1
    <2>3. a = b
      BY <2>1, <2>2 DEF Sole, Single
    <2>4. i \in Nat /\ j \in Nat /\ k \in Nat
      BY <1>2
    <2> QED
      BY <2>1, <2>2, <2>3, <2>4
  <1>4. \A h : NotReading(h, f) => NotReading(h, r)
    BY <1>1 DEF NotReading
  <1>5. Reads(f[k]) => NotReading(f[k].mgr, q) /\ NotReading(f[k].mgr, r)
    BY <1>1 DEF Sole, Single, NotReading
  <1> QED
    BY <1>3, <1>4, <1>5 DEF Sole, r

LEMMA SoleJoined ==
    ASSUME NEW q \in Seq(Submission), NEW f \in Seq(Submission), Sole(q, f) \/ Sole(f, q)
    PROVE  Single(f \o q)
  <1> DEFINE r == f \o q
  <1>1. \A j \in DOMAIN r :
          \/ j \in DOMAIN f /\ r[j] = f[j]
          \/ j - Len(f) \in DOMAIN q /\ j \notin DOMAIN f /\ r[j] = q[j - Len(f)]
    BY Joined
  <1>2. r \in Seq(Submission) /\ Len(f) \in Nat
    BY Joined
  <1>3. /\ Single(q) /\ Single(f)
        /\ \A j \in DOMAIN f, k \in DOMAIN q : Reads(f[j]) /\ Reads(q[k]) => f[j].mgr # q[k].mgr
    BY DEF Sole, NotReading
  <1> HIDE DEF r
  <1>4. Single(r)
    <2> SUFFICES ASSUME NEW i \in DOMAIN r, NEW j \in DOMAIN r,
                        Reads(r[i]), Reads(r[j]), r[i].mgr = r[j].mgr
                 PROVE  i = j
      BY DEF Single
    <2>1. CASE i \in DOMAIN f /\ j \in DOMAIN f
      BY <1>1, <1>3, <2>1 DEF Single
    <2>2. CASE i \notin DOMAIN f /\ j \notin DOMAIN f
      <3>1. i - Len(f) = j - Len(f)
        BY <1>1, <1>3, <2>2 DEF Single
      <3> QED
        BY <1>2, <3>1
    <2>3. CASE ~(i \in DOMAIN f <=> j \in DOMAIN f)
      BY <1>1, <1>3, <2>3
    <2> QED
      BY <2>1, <2>2, <2>3
  <1> QED
    BY <1>4 DEF r

LEMMA SoleEntered ==
    ASSUME NEW q \in Seq(Submission), NEW f \in Seq(Submission), Sole(q, f)
    PROVE  Sole(<<>>, f \o q)
  <1>1. Single(f \o q)
    BY SoleJoined
  <1>2. Single(<<>>)
    BY DEF Single
  <1> DEFINE r == f \o q
  <1> HIDE DEF r
  <1>3. \A k \in DOMAIN <<>> : Reads(<<>>[k]) => NotReading(<<>>[k].mgr, r)
    OBVIOUS
  <1> QED
    BY <1>1, <1>2, <1>3 DEF Sole, r

-----------------------------------------------------------------------------
(* The operations.  A manager may submit what reads only if it does not     *)
(* read, and nothing while it waits in the pipe.                            *)
MaySubmit(m, f, p, h, op) ==
    /\ h \in Handle /\ ~Waits(h, p)
    /\ op \in Reading => NotReading(h, m.queue) /\ NotReading(h, f)

(* From m to n no manager has begun to read but h, with op. *)
OnlyBegins(m, n, h, op) ==
    \A g : NotReading(g, m.queue) /\ (g # h \/ op \notin Reading) => NotReading(g, n.queue)

LEMMA SubmitOrderly ==
    ASSUME NEW m, NEW f, NEW p, NEW h, NEW op \in Masks \cup {"poll_read", "poll_write"},
           Orderly(m, f, p), MaySubmit(m, f, p, h, op)
    PROVE  Orderly(Submit(m, h, op), f, p) /\ OnlyBegins(m, Submit(m, h, op), h, op)
  <1>1. CASE ~HasRoom(m)
    BY <1>1 DEF Submit, OnlyBegins
  <1>2. CASE HasRoom(m)
    <2> DEFINE s == [mgr |-> h, op |-> op]
               r == Append(m.queue, s)
               n == Submit(m, h, op)
    <2>1. s \in Submission /\ m.queue \in Seq(Submission) /\ f \in Seq(Submission)
      BY DEF Submission, Orderly, Multiplexer, MaySubmit
    <2>2. n \in Multiplexer /\ n.queue = r
      <3>1. n = [m EXCEPT !.queue = Append(@, s)]
        BY <1>2 DEF Submit
      <3>2. r \in Seq(Submission)
        BY <2>1, Appended
      <3>3. m \in Multiplexer
        BY DEF Orderly
      <3> HIDE DEF s, n
      <3> QED
        BY <3>1, <3>2, <3>3 DEF Multiplexer
    <2>3. /\ DOMAIN r = DOMAIN m.queue \cup {Len(m.queue) + 1} /\ r[Len(m.queue) + 1] = s
          /\ \A k \in DOMAIN m.queue : r[k] = m.queue[k]
      BY <2>1, Appended
    <2>4. s.mgr = h /\ (Reads(s) <=> op \in Reading)
      BY DEF Reads
    <2>5. Sole(r, f)
      BY <2>1, <2>4, SoleSubmitted DEF Orderly, MaySubmit
    <2> HIDE DEF r, s
    <2>6. Waiting(p, r, f)
      BY <2>3, <2>4 DEF Orderly, Waiting, Absent, MaySubmit, Waits
    <2>7. OnlyBegins(m, n, h, op)
      BY <2>2, <2>3, <2>4 DEF OnlyBegins, NotReading
    <2> HIDE DEF n
    <2> QED
      BY <2>2, <2>5, <2>6, <2>7 DEF Orderly, n
  <1> QED
    BY <1>1, <1>2

(* Whatever leaves the submissions alone. *)
LEMMA SameQueue ==
    ASSUME NEW m, NEW n \in Multiplexer, NEW f, NEW p, Orderly(m, f, p), n.queue = m.queue
    PROVE  Orderly(n, f, p) /\ \A h, op : OnlyBegins(m, n, h, op)
  BY DEF Orderly, OnlyBegins

LEMMA EnableOrderly ==
    ASSUME NEW m, NEW f, NEW p, NEW h, NEW op \in Masks,
           Orderly(m, f, p), MaySubmit(m, f, p, h, op)
    PROVE  Orderly(UringEnable(m, h, op), f, p) /\ OnlyBegins(m, UringEnable(m, h, op), h, op)
  <1> DEFINE n == [m EXCEPT !.mask[h] = @ \cup {op}]
  <1>1. n \in Multiplexer /\ n.queue = m.queue
    BY DEF Orderly, Multiplexer, MaySubmit
  <1>2. UringEnable(m, h, op) = m \/ UringEnable(m, h, op) = Submit(n, h, op)
    BY DEF UringEnable
  <1> HIDE DEF n
  <1>3. Orderly(n, f, p) /\ MaySubmit(n, f, p, h, op)
    BY <1>1, SameQueue DEF MaySubmit
  <1>4. Orderly(Submit(n, h, op), f, p) /\ OnlyBegins(n, Submit(n, h, op), h, op)
    BY <1>3, SubmitOrderly
  <1>5. OnlyBegins(m, m, h, op) /\ OnlyBegins(m, Submit(n, h, op), h, op)
    BY <1>1, <1>4 DEF OnlyBegins
  <1> QED
    BY <1>2, <1>4, <1>5

LEMMA BaseDelOrderly ==
    ASSUME NEW m, NEW f, NEW p, NEW h, Orderly(m, f, p)
    PROVE  Orderly(BaseDel(m, h), f, p)
  <1>1. BaseDel(m, h) \in Multiplexer /\ BaseDel(m, h).queue = m.queue
    BY DEF BaseDel, Orderly, Multiplexer
  <1> QED
    BY <1>1, SameQueue

LEMMA DisableOrderly ==
    ASSUME NEW m, NEW f, NEW p, NEW h \in Handle, NEW op, NEW remove, Orderly(m, f, p)
    PROVE  Orderly(UringDisable(m, h, op, remove), f, p)
  <1> DEFINE n == [m EXCEPT !.mask[h] = @ \ {op}]
  <1>1. n \in Multiplexer /\ n.queue = m.queue
    BY DEF Orderly, Multiplexer
  <1>2. UringDisable(m, h, op, remove) \in {m, n, BaseDel(n, h)}
    BY DEF UringDisable
  <1> HIDE DEF n
  <1>3. Orderly(n, f, p)
    BY <1>1, SameQueue
  <1> QED
    BY <1>2, <1>3, BaseDelOrderly

LEMMA ResultOrderly ==
    ASSUME NEW m, NEW f, NEW p, NEW h \in Handle, NEW op, NEW res, Orderly(m, f, p)
    PROVE  Orderly(UringResult(m, h, op, res), f, p)
  <1>1. UringResult(m, h, op, res) \in {m, BaseDel(m, h), UringDisable(m, h, op, TRUE)}
    BY DEF UringResult
  <1> QED
    BY <1>1, BaseDelOrderly, DisableOrderly

(* A connection is added that has submitted nothing and does not wait. *)
LEMMA AddOrderly ==
    ASSUME NEW m, NEW f, NEW p, NEW h, NEW op \in Masks,
           Orderly(m, f, p), MaySubmit(m, f, p, h, op)
    PROVE  Orderly(UringAdd(m, h, op), f, p) /\ OnlyBegins(m, UringAdd(m, h, op), h, op)
  <1> DEFINE n == BaseAdd(m, h)
  <1>1. n \in Multiplexer /\ n.queue = m.queue
    BY DEF BaseAdd, Orderly, Multiplexer, MaySubmit
  <1>2. UringAdd(m, h, op) = UringEnable(n, h, op)
    BY DEF UringAdd
  <1> HIDE DEF n
  <1>3. Orderly(n, f, p) /\ MaySubmit(n, f, p, h, op)
    BY <1>1, SameQueue DEF MaySubmit
  <1>4. Orderly(UringEnable(n, h, op), f, p) /\ OnlyBegins(n, UringEnable(n, h, op), h, op)
    BY <1>3, EnableOrderly
  <1> QED
    BY <1>1, <1>2, <1>4 DEF OnlyBegins

LEMMA ShutdownOrderly ==
    ASSUME NEW m, NEW f, NEW p, Orderly(m, f, p)
    PROVE  Orderly(UringShutdown(m), f, p)
  <1>1. ShutdownMask(m) \in [Handle -> SUBSET Masks]
    BY DEF ShutdownMask, Orderly, Multiplexer
  <1>2. m \in Multiplexer
    BY DEF Orderly
  <1> DEFINE run == m.running /\ \A h \in Retired(m) : m.managers = {h}
             n == [BaseShutdown(m) EXCEPT !.running = run]
  <1>3. run \in BOOLEAN
    BY <1>2 DEF Multiplexer
  <1>4. BaseShutdown(m) \in Multiplexer /\ BaseShutdown(m).queue = m.queue
        /\ BaseShutdown(m).running = m.running
    BY <1>1, <1>2 DEF BaseShutdown, Multiplexer
  <1>5. UringShutdown(m) = n
    BY <1>4 DEF UringShutdown
  <1> HIDE DEF run
  <1>6. n \in Multiplexer /\ n.queue = m.queue
    BY <1>3, <1>4 DEF Multiplexer
  <1> QED
    BY <1>5, <1>6, SameQueue

(* A completion: its manager may submit again, what reads if that one did. *)
LEMMA CompleteOrderly ==
    ASSUME NEW m, NEW f, NEW p, NEW k \in DOMAIN f, NEW h, NEW op,
           Orderly(m, f, p), f[k] = [mgr |-> h, op |-> op]
    PROVE  /\ Orderly(m, RemoveAt(f, k), p) /\ h \in Handle
           /\ \A o : (o \in Reading => op \in Reading) => MaySubmit(m, RemoveAt(f, k), p, h, o)
  <1>1. /\ m.queue \in Seq(Submission) /\ f \in Seq(Submission) /\ m \in Multiplexer
        /\ p \in Seq(Conn \cup {"shutdown"}) /\ Sole(m.queue, f) /\ Waiting(p, m.queue, f)
    BY DEF Orderly, Multiplexer
  <1>2. f[k].mgr = h /\ f[k].op = op /\ h \in Handle
    BY <1>1 DEF Submission
  <1> DEFINE r == RemoveAt(f, k)
  <1>3. r \in Seq(Submission) /\ \A j \in DOMAIN r : \E i \in DOMAIN f : r[j] = f[i]
    BY <1>1, Removed
  <1>4. Sole(m.queue, r) /\ (op \in Reading => NotReading(h, m.queue) /\ NotReading(h, r))
    BY <1>1, <1>2, SoleRemoved DEF Reads
  <1> HIDE DEF r
  <1>5. Waiting(p, m.queue, r)
    BY <1>1, <1>3 DEF Waiting, Absent
  <1>6. ~Waits(h, p)
    BY <1>1, <1>2 DEF Waits, Waiting, Absent
  <1> QED
    BY <1>1, <1>2, <1>3, <1>4, <1>5, <1>6 DEF Orderly, MaySubmit, r

(* The connection of the message that is read waits no longer. *)
LEMMA TailOrderly ==
    ASSUME NEW m, NEW f, NEW p, Orderly(m, f, p), p # <<>>
    PROVE  /\ Orderly(m, f, Tail(p))
           /\ Head(p) # "shutdown" =>
                Head(p) \in Conn /\ \A o : MaySubmit(m, f, Tail(p), Head(p), o)
  <1>1. p \in Seq(Conn \cup {"shutdown"}) /\ Waiting(p, m.queue, f)
    BY DEF Orderly
  <1> DEFINE t == Tail(p)
  <1>2. /\ t \in Seq(Conn \cup {"shutdown"})
        /\ \A j \in DOMAIN t : j + 1 \in DOMAIN p /\ t[j] = p[j + 1] /\ j \in Nat \ {0}
        /\ 1 \in DOMAIN p /\ Head(p) = p[1] /\ p[1] \in Conn \cup {"shutdown"}
    BY <1>1
  <1> HIDE DEF t
  <1>3. Waiting(t, m.queue, f)
    <2>1. \A k \in DOMAIN t : t[k] # "shutdown" => Absent(t[k], m.queue) /\ Absent(t[k], f)
      BY <1>1, <1>2 DEF Waiting
    <2>2. ASSUME NEW j \in DOMAIN t, NEW k \in DOMAIN t, t[j] # "shutdown", t[j] = t[k]
          PROVE  j = k
      <3>1. j + 1 = k + 1
        BY <1>1, <1>2, <2>2 DEF Waiting
      <3> QED
        BY <1>2, <3>1
    <2> QED
      BY <2>1, <2>2 DEF Waiting
  <1>4. Orderly(m, f, t)
    BY <1>2, <1>3 DEF Orderly
  <1>5. ASSUME Head(p) # "shutdown", NEW o
        PROVE  Head(p) \in Conn /\ MaySubmit(m, f, t, Head(p), o)
    <2>1. Absent(p[1], m.queue) /\ Absent(p[1], f) /\ p[1] \in Conn
      BY <1>1, <1>2, <1>5 DEF Waiting
    <2>2. ~Waits(p[1], t)
      <3> SUFFICES ASSUME NEW k \in DOMAIN t, t[k] = p[1]
                   PROVE  FALSE
        BY DEF Waits
      <3>1. k + 1 = 1
        BY <1>1, <1>2, <1>5 DEF Waiting
      <3> QED
        BY <1>2, <3>1
    <2> QED
      BY <1>2, <2>1, <2>2 DEF MaySubmit, Absent, NotReading, Handle
  <1> QED
    BY <1>4, <1>5 DEF t

(* A message at the end of the pipe: of somebody who has submitted nothing  *)
(* and does not wait.                                                       *)
LEMMA MessageOrderly ==
    ASSUME NEW m, NEW f, NEW p, NEW h \in Conn \cup {"shutdown"}, Orderly(m, f, p),
           h # "shutdown" => ~Waits(h, p) /\ Absent(h, m.queue) /\ Absent(h, f)
    PROVE  Orderly(m, f, Append(p, h))
  <1> DEFINE r == Append(p, h)
  <1>1. p \in Seq(Conn \cup {"shutdown"}) /\ Waiting(p, m.queue, f)
    BY DEF Orderly
  <1>2. /\ r \in Seq(Conn \cup {"shutdown"})
        /\ DOMAIN r = DOMAIN p \cup {Len(p) + 1} /\ r[Len(p) + 1] = h
        /\ \A k \in DOMAIN p : r[k] = p[k]
    BY <1>1
  <1> HIDE DEF r
  <1>3. Waiting(r, m.queue, f)
    BY <1>1, <1>2 DEF Waiting, Waits
  <1> QED
    BY <1>2, <1>3 DEF Orderly, r

-----------------------------------------------------------------------------
(* The steps of the loop. *)

LEMMA InitOrderly ==
    Init => UringInv
  <1> SUFFICES ASSUME Init, backend = "uring"
               PROVE  Orderly(mpx, inflight, pipe)
    BY DEF UringInv
  <1>1. mpx = UringAdd(UringAdd(Blank, Updater, "read"), Acceptor, "accept")
        /\ inflight = <<>> /\ pipe = <<>>
    BY DEF Init, UringInit, BaseInit
  <1>2. Blank \in Multiplexer /\ Blank.queue = <<>>
    BY DEF Blank, Multiplexer
  <1>3. /\ Orderly(Blank, <<>>, <<>>) /\ MaySubmit(Blank, <<>>, <<>>, Updater, "read")
        /\ NotReading(Acceptor, Blank.queue)
    BY <1>2 DEF Orderly, Sole, Single, Waiting, MaySubmit, Waits, NotReading, Handle
  <1>4. Updater # Acceptor
    BY BaseAssumption
  <1> DEFINE n == UringAdd(Blank, Updater, "read")
  <1>5. Orderly(n, <<>>, <<>>) /\ OnlyBegins(Blank, n, Updater, "read")
    BY <1>3, AddOrderly DEF Masks
  <1> HIDE DEF n
  <1>6. MaySubmit(n, <<>>, <<>>, Acceptor, "accept")
    BY <1>3, <1>4, <1>5 DEF MaySubmit, OnlyBegins, Waits, NotReading, Handle
  <1>7. Orderly(UringAdd(n, Acceptor, "accept"), <<>>, <<>>)
    BY <1>5, <1>6, AddOrderly DEF Masks
  <1> QED
    BY <1>1, <1>7 DEF n

(* A descriptor that nobody refers to. *)
LEMMA Unreferred ==
    ASSUME NEW c \in Conn \ Living(mpx, Submitted(mpx)), Orderly(mpx, inflight, pipe)
    PROVE  Absent(c, mpx.queue) /\ Absent(c, inflight) /\ ~Waits(c, pipe)
  <1> DEFINE q == mpx.queue
             r == q \o inflight
  <1>1. q \in Seq(Submission) /\ inflight \in Seq(Submission)
    BY DEF Orderly, Multiplexer
  <1>2. /\ \A j \in DOMAIN q : j \in DOMAIN r /\ r[j] = q[j]
        /\ \A j \in DOMAIN inflight : Len(q) + j \in DOMAIN r /\ r[Len(q) + j] = inflight[j]
    BY <1>1, Joined
  <1>3. c \notin {r[k].mgr : k \in DOMAIN r} /\ c \notin ToSet(pipe) \cap Conn
    BY DEF Living, InPipe, Submitted
  <1> HIDE DEF r
  <1>4. Absent(c, q) /\ Absent(c, inflight)
    BY <1>2, <1>3 DEF Absent
  <1>5. ~Waits(c, pipe)
    BY <1>3 DEF Waits, ToSet
  <1> QED
    BY <1>4, <1>5

LEMMA CompletesOrderly ==
    ASSUME NEW k \in DOMAIN inflight, NEW h, NEW op, Completes(k, h, op),
           Orderly(mpx, inflight, pipe)
    PROVE  /\ Orderly(mpx, inflight', pipe) /\ h \in Handle
           /\ \A o : (o \in Reading => op \in Reading) => MaySubmit(mpx, inflight', pipe, h, o)
  BY CompleteOrderly DEF Completes

LEMMA UpdaterOrderly ==
    ASSUME NEW k \in DOMAIN inflight, UpdaterCompletes(k), Orderly(mpx, inflight, pipe)
    PROVE  Orderly(mpx', inflight', pipe')
  <1>1. Completes(k, Updater, "read") /\ pipe # <<>> /\ pipe' = Tail(pipe)
    BY DEF UpdaterCompletes
  <1>2. /\ Orderly(mpx, inflight', pipe) /\ Updater \in Handle
        /\ MaySubmit(mpx, inflight', pipe, Updater, "read")
    BY <1>1, CompletesOrderly
  <1>3. /\ Orderly(mpx, inflight', pipe')
        /\ Head(pipe) # "shutdown" =>
             Head(pipe) \in Conn /\ \A o : MaySubmit(mpx, inflight', pipe', Head(pipe), o)
    BY <1>1, <1>2, TailOrderly
  <1>4. ~Waits(Updater, pipe')
    <2>1. pipe' \in Seq(Conn \cup {"shutdown"}) /\ Updater \notin Conn
      BY <1>3, BaseAssumption DEF Orderly
    <2> QED
      BY <2>1 DEF Waits
  <1>5. CASE Head(pipe) = "shutdown"
    <2>1. mpx' = UringResult(UringShutdown(mpx), Updater, "read", "done")
      BY <1>5 DEF UpdaterCompletes
    <2> QED
      BY <1>2, <1>3, <2>1, ShutdownOrderly, ResultOrderly
  <1>6. CASE Head(pipe) # "shutdown"
    <2> DEFINE added == UringAdd(mpx, Head(pipe), "read")
    <2>1. \/ mpx' = Submit(added, Updater, "read")
          \/ mpx' = UringResult(added, Updater, "read", "error")
      BY <1>6 DEF UpdaterCompletes
    <2>2. Orderly(added, inflight', pipe') /\ OnlyBegins(mpx, added, Head(pipe), "read")
      BY <1>3, <1>6, AddOrderly DEF Masks
    <2> HIDE DEF added
    <2>3. Head(pipe) # Updater
      BY <1>3, <1>6, BaseAssumption
    <2>4. MaySubmit(added, inflight', pipe', Updater, "read")
      BY <1>2, <1>4, <2>2, <2>3 DEF MaySubmit, OnlyBegins, Reading
    <2>5. Orderly(Submit(added, Updater, "read"), inflight', pipe')
      BY <2>2, <2>4, SubmitOrderly DEF Masks
    <2>6. Orderly(UringResult(added, Updater, "read", "error"), inflight', pipe')
      BY <1>2, <2>2, ResultOrderly
    <2> QED
      BY <2>1, <2>5, <2>6
  <1> QED
    BY <1>5, <1>6

LEMMA AcceptorOrderly ==
    ASSUME NEW k \in DOMAIN inflight, AcceptCompletes(k) \/ AcceptFails(k),
           Orderly(mpx, inflight, pipe)
    PROVE  Orderly(mpx', inflight', pipe')
  <1>1. CASE AcceptCompletes(k)
    <2>1. PICK c \in Conn \ Living(mpx, Submitted(mpx)) : mpx' = UringAdd(mpx, c, "read")
      BY <1>1 DEF AcceptCompletes
    <2>2. Absent(c, mpx.queue) /\ Absent(c, inflight) /\ ~Waits(c, pipe)
      BY Unreferred
    <2>3. MaySubmit(mpx, inflight, pipe, c, "read")
      BY <2>2 DEF MaySubmit, Absent, NotReading, Handle
    <2>4. Orderly(UringAdd(mpx, c, "read"), inflight, pipe)
      BY <2>3, AddOrderly DEF Masks
    <2> QED
      BY <1>1, <2>1, <2>4 DEF AcceptCompletes
  <1>2. CASE AcceptFails(k)
    <2>1. /\ Completes(k, Acceptor, "accept") /\ pipe' = pipe
          /\ mpx' = UringResult(UringShutdown(mpx), Acceptor, "accept", "error")
      BY <1>2 DEF AcceptFails
    <2>2. Orderly(mpx, inflight', pipe) /\ Acceptor \in Handle
      BY <2>1, CompletesOrderly
    <2> QED
      BY <2>1, <2>2, ShutdownOrderly, ResultOrderly
  <1> QED
    BY <1>1, <1>2

LEMMA ConnectionOrderly ==
    ASSUME NEW k \in DOMAIN inflight, NEW c \in Conn,
           \/ ReadCompletes(k, c) \/ WriteCompletes(k, c) \/ PollCompletes(k, c)
           \/ \E op \in {"read", "write"} : Temporary(k, c, op),
           Orderly(mpx, inflight, pipe)
    PROVE  Orderly(mpx', inflight', pipe')
  <1>1. CASE ReadCompletes(k, c)
    <2>1. Completes(k, c, "read") /\ pipe' = pipe
      BY <1>1 DEF ReadCompletes
    <2>2. PICK out \in ReadOutcome(c) :
            mpx' = IF out.res = "ok"
                   THEN Submit(IF out.answers THEN UringAnswer(mpx, c) ELSE mpx, c, "read")
                   ELSE UringResult(IF out.answers THEN UringAnswer(mpx, c) ELSE mpx,
                                    c, "read", out.res)
      BY <1>1 DEF ReadCompletes
    <2>3. /\ Orderly(mpx, inflight', pipe) /\ c \in Handle
          /\ MaySubmit(mpx, inflight', pipe, c, "read")
          /\ MaySubmit(mpx, inflight', pipe, c, "write")
      BY <2>1, CompletesOrderly DEF Reading
    <2> DEFINE answered == IF out.answers THEN UringAnswer(mpx, c) ELSE mpx
    <2>4. Orderly(answered, inflight', pipe) /\ OnlyBegins(mpx, answered, c, "write")
      <3>1. CASE ~out.answers
        BY <2>3, <3>1 DEF OnlyBegins
      <3>2. CASE out.answers
        BY <2>3, <3>2, EnableOrderly DEF UringAnswer, Masks
      <3> QED
        BY <3>1, <3>2
    <2> HIDE DEF answered
    <2>5. MaySubmit(answered, inflight', pipe, c, "read")
      BY <2>3, <2>4 DEF MaySubmit, OnlyBegins, Reading
    <2>6. Orderly(Submit(answered, c, "read"), inflight', pipe)
      BY <2>4, <2>5, SubmitOrderly DEF Masks
    <2>7. Orderly(UringResult(answered, c, "read", out.res), inflight', pipe)
      BY <2>3, <2>4, ResultOrderly
    <2> QED
      BY <2>1, <2>2, <2>6, <2>7 DEF answered
  <1>2. CASE WriteCompletes(k, c)
    <2>1. Completes(k, c, "write") /\ pipe' = pipe
      BY <1>2 DEF WriteCompletes
    <2>2. PICK res : mpx' = IF res = "ok" THEN Submit(mpx, c, "write")
                            ELSE UringResult(mpx, c, "write", res)
      BY <1>2 DEF WriteCompletes
    <2>3. /\ Orderly(mpx, inflight', pipe) /\ c \in Handle
          /\ MaySubmit(mpx, inflight', pipe, c, "write")
      BY <2>1, CompletesOrderly
    <2>4. Orderly(Submit(mpx, c, "write"), inflight', pipe)
      BY <2>3, SubmitOrderly DEF Masks
    <2>5. Orderly(UringResult(mpx, c, "write", res), inflight', pipe)
      BY <2>3, ResultOrderly
    <2> QED
      BY <2>1, <2>2, <2>4, <2>5
  <1>3. CASE PollCompletes(k, c)
    <2>1. CASE Completes(k, c, "poll_read") /\ mpx' = Submit(mpx, c, "read") /\ pipe' = pipe
      <3>1. Orderly(mpx, inflight', pipe) /\ MaySubmit(mpx, inflight', pipe, c, "read")
        BY <2>1, CompletesOrderly DEF Reading
      <3>2. Orderly(Submit(mpx, c, "read"), inflight', pipe)
        BY <3>1, SubmitOrderly DEF Masks
      <3> QED
        BY <2>1, <3>2
    <2>2. CASE /\ Completes(k, c, "poll_write") /\ mpx' \in {mpx, Submit(mpx, c, "write")}
               /\ pipe' = pipe
      <3>1. Orderly(mpx, inflight', pipe) /\ MaySubmit(mpx, inflight', pipe, c, "write")
        BY <2>2, CompletesOrderly DEF Reading
      <3>2. Orderly(Submit(mpx, c, "write"), inflight', pipe)
        BY <3>1, SubmitOrderly DEF Masks
      <3> QED
        BY <2>2, <3>1, <3>2
    <2> QED
      BY <1>3, <2>1, <2>2 DEF PollCompletes
  <1>4. ASSUME NEW op \in {"read", "write"}, Temporary(k, c, op)
        PROVE  Orderly(mpx', inflight', pipe')
    <2> DEFINE poll == IF op = "read" THEN "poll_read" ELSE "poll_write"
               polling == Submit(mpx, c, poll)
    <2>1. /\ Completes(k, c, op) /\ pipe' = pipe
          /\ mpx' = UringResult(polling, c, op, "temporary_error")
      BY <1>4 DEF Temporary
    <2>2. poll \in Masks \cup {"poll_read", "poll_write"} /\ (poll \in Reading => op \in Reading)
      BY DEF Reading
    <2> HIDE DEF poll
    <2>3. Orderly(mpx, inflight', pipe) /\ MaySubmit(mpx, inflight', pipe, c, poll) /\ c \in Handle
      BY <2>1, <2>2, CompletesOrderly
    <2>4. Orderly(polling, inflight', pipe)
      BY <2>2, <2>3, SubmitOrderly
    <2> QED
      BY <2>1, <2>3, <2>4, ResultOrderly
  <1> QED
    BY <1>1, <1>2, <1>3, <1>4

LEMMA EnterOrderly ==
    ASSUME Enter, Orderly(mpx, inflight, pipe)
    PROVE  Orderly(mpx', inflight', pipe')
  <1>1. mpx \in Multiplexer /\ mpx.queue \in Seq(Submission) /\ inflight \in Seq(Submission)
    BY DEF Orderly, Multiplexer
  <1>2. /\ mpx' = [mpx EXCEPT !.queue = <<>>] /\ inflight' = inflight \o mpx.queue
        /\ pipe' = pipe
    BY DEF Enter
  <1>3. mpx' \in Multiplexer /\ mpx'.queue = <<>>
    <2>1. <<>> \in Seq(Submission)
      OBVIOUS
    <2> DEFINE none == <<>>
    <2> HIDE DEF none
    <2>2. mpx' = [mpx EXCEPT !.queue = none] /\ none \in Seq(Submission)
      BY <1>2, <2>1 DEF none
    <2>3. mpx' \in Multiplexer /\ mpx'.queue = none
      BY <1>1, <2>2 DEF Multiplexer
    <2> QED
      BY <2>3 DEF none
  <1>4. inflight' \in Seq(Submission) /\ Sole(<<>>, inflight')
    BY <1>1, <1>2, Joined, SoleEntered DEF Orderly
  <1>5. \A h : Absent(h, mpx.queue) /\ Absent(h, inflight) => Absent(h, inflight')
    <2> DEFINE r == inflight \o mpx.queue
    <2>1. \A j \in DOMAIN r :
            \/ j \in DOMAIN inflight /\ r[j] = inflight[j]
            \/ j - Len(inflight) \in DOMAIN mpx.queue /\ r[j] = mpx.queue[j - Len(inflight)]
      BY <1>1, Joined
    <2> HIDE DEF r
    <2>2. \A h : Absent(h, mpx.queue) /\ Absent(h, inflight) => Absent(h, r)
      BY <2>1 DEF Absent
    <2> QED
      BY <1>2, <2>2 DEF r
  <1>6. Waiting(pipe, <<>>, inflight')
    BY <1>5 DEF Orderly, Waiting, Absent
  <1> QED
    BY <1>2, <1>3, <1>4, <1>6 DEF Orderly

(* What peers and other threads do. *)
LEMMA OthersOrderly ==
    ASSUME \/ RequestShutdown \/ LoopExit
           \/ \E c \in Conn : PeerSend(c) \/ PeerClose(c)
           \/ LET live == Living(mpx, Submitted(mpx))
              IN  PeerConnect(live) \/ \E c \in Conn : HandOver(c, live),
           UNCHANGED inflight, Orderly(mpx, inflight, pipe)
    PROVE  Orderly(mpx', inflight', pipe')
  <1>1. CASE RequestShutdown
    <2>1. Orderly(mpx, inflight, Append(pipe, "shutdown"))
      BY MessageOrderly
    <2> QED
      BY <1>1, <2>1 DEF RequestShutdown
  <1>2. ASSUME NEW c \in Conn, HandOver(c, Living(mpx, Submitted(mpx)))
        PROVE  Orderly(mpx', inflight', pipe')
    <2>1. c \in Conn \ Living(mpx, Submitted(mpx)) /\ pipe' = Append(pipe, c) /\ mpx' = mpx
      BY <1>2 DEF HandOver
    <2>2. Absent(c, mpx.queue) /\ Absent(c, inflight) /\ ~Waits(c, pipe)
      BY <2>1, Unreferred
    <2>3. Orderly(mpx, inflight, Append(pipe, c))
      BY <2>2, MessageOrderly
    <2> QED
      BY <2>1, <2>3
  <1>3. CASE UNCHANGED <<mpx, pipe>>
    BY <1>3
  <1> QED
    BY <1>1, <1>2, <1>3 DEF LoopExit, PeerSend, PeerClose, PeerConnect

LEMMA StepOrderly ==
    UringInv /\ [Next]_vars => UringInv'
  <1> SUFFICES ASSUME UringInv, [Next]_vars, backend' = "uring"
               PROVE  Orderly(mpx', inflight', pipe')
    BY DEF UringInv
  <1>1. CASE UNCHANGED vars
    BY <1>1 DEF vars, baseVars, UringInv
  <1>2. CASE Uring
    <2>1. backend = "uring" /\ UringNext /\ Orderly(mpx, inflight, pipe)
      BY <1>2 DEF Uring, UringInv
    <2> QED
      BY <2>1, UpdaterOrderly, AcceptorOrderly, ConnectionOrderly, EnterOrderly, OthersOrderly
         DEF UringNext, UringLoop, Complete
  <1>3. CASE Kqueue
    <2>1. backend = "kqueue" /\ KqueueNext
      BY <1>3 DEF Kqueue
    <2>2. backend' = backend
      BY <2>1 DEF KqueueNext, KqueueLoop, Poll, UpdaterReads, AcceptorReads, EndOfFile, Ignored,
                  ConnReads, ConnWrites, PeerConnect, HandOver, baseVars
    <2> QED
      BY <2>1, <2>2
  <1>4. CASE (Peers \/ LoopExit) /\ UNCHANGED <<inflight, filters, events>>
    <2>1. backend' = backend
      BY <1>4 DEF Peers, RequestShutdown, PeerSend, PeerClose, LoopExit
    <2> QED
      BY <1>4, <2>1, OthersOrderly DEF Peers, UringInv
  <1> QED
    BY <1>1, <1>2, <1>3, <1>4 DEF Next

(* No manager has two submissions that read into its one buffer, whatever   *)
(* the order of completions, failures and reused descriptors:               *)
(* prepare_submission() is called for a read only by enable(), on a manager *)
(* just added, and by the completion of the read before.                    *)
THEOREM OneReadAtATime == Spec => []OneReader
  <1>1. UringInv => OneReader
    <2> SUFFICES ASSUME UringInv, backend = "uring",
                        NEW j \in DOMAIN (mpx.queue \o inflight),
                        NEW k \in DOMAIN (mpx.queue \o inflight),
                        Reads((mpx.queue \o inflight)[j]), Reads((mpx.queue \o inflight)[k]),
                        (mpx.queue \o inflight)[j].mgr = (mpx.queue \o inflight)[k].mgr
                 PROVE  j = k
      BY DEF OneReader, Reads, Reading
    <2>1. /\ mpx.queue \in Seq(Submission) /\ inflight \in Seq(Submission)
          /\ Sole(mpx.queue, inflight)
      BY DEF UringInv, Orderly, Multiplexer
    <2>2. Single(mpx.queue \o inflight)
      BY <2>1, SoleJoined
    <2> QED
      BY <2>2 DEF Single
  <1>2. UringInv /\ [Next]_vars => UringInv'
    BY StepOrderly
  <1> QED
    BY <1>1, <1>2, InitOrderly, PTL DEF Spec

-----------------------------------------------------------------------------
(* MaskIsArmed for the ring.  A submission for the operation op of manager  *)
(* h; every bit of a mask has one, but for the pairs X that a completion    *)
(* has just taken away.                                                     *)
Asks(f, h, op) == \E k \in DOMAIN f : f[k].mgr = h /\ f[k].op = op
Armed(m, f, X) ==
    \A h \in m.managers : \A op \in m.mask[h] :
       <<h, op>> \in X \/ Asks(m.queue, h, op) \/ Asks(f, h, op)

ArmedInv == backend = "uring" => Armed(mpx, inflight, {})

(* A submission takes nothing away, and it is made if there is room for     *)
(* another one after it.                                                    *)
LEMMA SubmitArmed ==
    ASSUME NEW m \in Multiplexer, NEW f, NEW X, NEW h \in Handle,
           NEW op \in Masks \cup {"poll_read", "poll_write"}, Armed(m, f, X)
    PROVE  /\ Armed(Submit(m, h, op), f, X)
           /\ HasRoom(m) => Asks(Submit(m, h, op).queue, h, op)
           /\ HasRoom(Submit(m, h, op)) => HasRoom(m)
           /\ Submit(m, h, op) \in Multiplexer
           /\ Submit(m, h, op).mask = m.mask /\ Submit(m, h, op).managers = m.managers
  <1>1. CASE ~HasRoom(m)
    BY <1>1 DEF Submit
  <1>2. CASE HasRoom(m)
    <2> DEFINE s == [mgr |-> h, op |-> op]
               r == Append(m.queue, s)
               n == Submit(m, h, op)
    <2>1. s \in Submission /\ m.queue \in Seq(Submission) /\ s.mgr = h /\ s.op = op
      BY DEF Submission, Multiplexer
    <2>2. /\ r \in Seq(Submission)
          /\ DOMAIN r = DOMAIN m.queue \cup {Len(m.queue) + 1} /\ r[Len(m.queue) + 1] = s
          /\ \A k \in DOMAIN m.queue : r[k] = m.queue[k]
      BY <2>1, Appended
    <2>3. n = [m EXCEPT !.queue = r]
      BY <1>2 DEF Submit
    <2> HIDE DEF s, r, n
    <2>4. n \in Multiplexer /\ n.queue = r /\ n.mask = m.mask /\ n.managers = m.managers
      BY <2>2, <2>3 DEF Multiplexer
    <2>5. Asks(r, h, op) /\ \A g, o : Asks(m.queue, g, o) => Asks(r, g, o)
      BY <2>1, <2>2 DEF Asks
    <2>6. Armed(n, f, X)
      BY <2>4, <2>5 DEF Armed
    <2> QED
      BY <1>2, <2>4, <2>5, <2>6 DEF n
  <1> QED
    BY <1>1, <1>2

LEMMA EnableArmed ==
    ASSUME NEW m \in Multiplexer, NEW f, NEW X, NEW h \in Handle, NEW op \in Masks,
           Armed(m, f, X)
    PROVE  Armed(UringEnable(m, h, op), f, X)
  <1>1. CASE op \in m.mask[h] \/ ~HasRoom(m)
    BY <1>1 DEF UringEnable
  <1>2. CASE ~(op \in m.mask[h] \/ ~HasRoom(m))
    <2> DEFINE n == [m EXCEPT !.mask[h] = @ \cup {op}]
    <2>1. /\ n \in Multiplexer /\ n.queue = m.queue /\ n.managers = m.managers
          /\ n.mask[h] = m.mask[h] \cup {op}
          /\ \A g \in Handle \ {h} : n.mask[g] = m.mask[g]
      BY DEF Multiplexer
    <2>2. UringEnable(m, h, op) = Submit(n, h, op)
      BY <1>2 DEF UringEnable
    <2> HIDE DEF n
    <2>3. Armed(n, f, X \cup {<<h, op>>}) /\ HasRoom(n)
      BY <1>2, <2>1 DEF Armed, HasRoom, Multiplexer
    <2>4. /\ Armed(Submit(n, h, op), f, X \cup {<<h, op>>})
          /\ Asks(Submit(n, h, op).queue, h, op)
      BY <2>1, <2>3, SubmitArmed
    <2> QED
      BY <2>2, <2>4 DEF Armed
  <1> QED
    BY <1>1, <1>2

LEMMA DelArmed ==
    ASSUME NEW m \in Multiplexer, NEW f, NEW X, NEW h, NEW op, Armed(m, f, X \cup {<<h, op>>})
    PROVE  Armed(BaseDel(m, h), f, X)
  <1>1. /\ BaseDel(m, h).queue = m.queue /\ BaseDel(m, h).mask = m.mask
        /\ BaseDel(m, h).managers = m.managers \ {h}
    BY DEF BaseDel, Multiplexer
  <1> QED
    BY <1>1 DEF Armed

(* "done", "error" and "temporary_error" leave nothing to be armed for the  *)
(* operation that has completed.                                            *)
LEMMA ResultArmed ==
    ASSUME NEW m \in Multiplexer, NEW f, NEW h \in Handle, NEW op \in Masks,
           NEW res, res # "ok", Armed(m, f, {<<h, op>>})
    PROVE  Armed(UringResult(m, h, op, res), f, {})
  <1> DEFINE n == [m EXCEPT !.mask[h] = @ \ {op}]
  <1>1. Armed(BaseDel(m, h), f, {})
    BY DelArmed
  <1>2. /\ n \in Multiplexer /\ n.queue = m.queue /\ n.managers = m.managers
        /\ n.mask[h] = m.mask[h] \ {op}
        /\ \A g \in Handle \ {h} : n.mask[g] = m.mask[g]
    BY DEF Multiplexer
  <1>3. UringDisable(m, h, op, TRUE) \in {n, BaseDel(n, h)} \/ op \notin m.mask[h]
    BY DEF UringDisable
  <1>4. op \notin m.mask[h] => UringDisable(m, h, op, TRUE) = m
    BY DEF UringDisable
  <1> HIDE DEF n
  <1>5. Armed(n, f, {})
    BY <1>2 DEF Armed, Multiplexer
  <1>6. Armed(BaseDel(n, h), f, {})
    <2>1. Armed(n, f, {} \cup {<<h, op>>})
      BY <1>5 DEF Armed
    <2> QED
      BY <1>2, <2>1, DelArmed
  <1>7. op \notin m.mask[h] => Armed(m, f, {})
    BY DEF Armed
  <1>8. Armed(UringDisable(m, h, op, TRUE), f, {})
    BY <1>3, <1>4, <1>5, <1>6, <1>7
  <1> QED
    BY <1>1, <1>8 DEF UringResult

LEMMA AddArmed ==
    ASSUME NEW m \in Multiplexer, NEW f, NEW X, NEW h \in Handle, NEW op \in Masks,
           Armed(m, f, X)
    PROVE  Armed(UringAdd(m, h, op), f, X)
  <1> DEFINE n == BaseAdd(m, h)
  <1>1. /\ n \in Multiplexer /\ n.queue = m.queue /\ n.managers = m.managers \cup {h}
        /\ n.mask[h] = {} /\ \A g \in Handle \ {h} : n.mask[g] = m.mask[g]
    BY DEF BaseAdd, Multiplexer
  <1>2. UringAdd(m, h, op) = UringEnable(n, h, op)
    BY DEF UringAdd
  <1> HIDE DEF n
  <1>3. Armed(n, f, X)
    BY <1>1 DEF Armed, Multiplexer
  <1> QED
    BY <1>1, <1>2, <1>3, EnableArmed

LEMMA ShutdownArmed ==
    ASSUME NEW m \in Multiplexer, NEW f, NEW X, Armed(m, f, X)
    PROVE  Armed(UringShutdown(m), f, X)
  <1> DEFINE n == UringShutdown(m)
  <1>1. /\ n.queue = m.queue /\ n.managers = m.managers \ Retired(m)
        /\ n.mask = ShutdownMask(m)
    BY DEF UringShutdown, BaseShutdown, Multiplexer
  <1>2. \A h \in m.managers : ShutdownMask(m)[h] \subseteq m.mask[h]
    BY DEF ShutdownMask, Multiplexer
  <1> HIDE DEF n
  <1>3. Armed(n, f, X)
    BY <1>1, <1>2 DEF Armed
  <1> QED
    BY <1>3 DEF n

(* What a completion takes away. *)
LEMMA CompletesArmed ==
    ASSUME NEW k \in DOMAIN inflight, NEW h, NEW op, Completes(k, h, op),
           Orderly(mpx, inflight, pipe), Armed(mpx, inflight, {})
    PROVE  Armed(mpx, inflight', {<<h, op>>})
  <1> DEFINE r == RemoveAt(inflight, k)
  <1>1. inflight' = r /\ inflight[k] = [mgr |-> h, op |-> op] /\ inflight \in Seq(Submission)
    BY DEF Completes, Orderly
  <1>2. \A i \in DOMAIN inflight : i # k => \E j \in DOMAIN r : r[j] = inflight[i]
    BY <1>1, Removed
  <1> HIDE DEF r
  <1>3. \A g, o : Asks(inflight, g, o) => Asks(r, g, o) \/ <<g, o>> = <<h, op>>
    BY <1>1, <1>2 DEF Asks
  <1> QED
    BY <1>1, <1>3 DEF Armed

LEMMA UpdaterArmed ==
    ASSUME NEW k \in DOMAIN inflight, UpdaterCompletes(k), Orderly(mpx, inflight, pipe),
           Armed(mpx, inflight, {})
    PROVE  Armed(mpx', inflight', {})
  <1>1. Completes(k, Updater, "read") /\ pipe # <<>>
    BY DEF UpdaterCompletes
  <1>2. /\ Armed(mpx, inflight', {<<Updater, "read">>})
        /\ Orderly(mpx, inflight', pipe) /\ Updater \in Handle /\ mpx \in Multiplexer
    BY <1>1, CompletesArmed, CompletesOrderly DEF Orderly
  <1>3. CASE Head(pipe) = "shutdown"
    <2>1. mpx' = UringResult(UringShutdown(mpx), Updater, "read", "done")
      BY <1>3 DEF UpdaterCompletes
    <2>2. /\ Armed(UringShutdown(mpx), inflight', {<<Updater, "read">>})
          /\ UringShutdown(mpx) \in Multiplexer
      BY <1>2, ShutdownArmed, ShutdownOrderly DEF Orderly
    <2> QED
      BY <1>2, <2>1, <2>2, ResultArmed DEF Masks
  <1>4. CASE Head(pipe) # "shutdown"
    <2> DEFINE added == UringAdd(mpx, Head(pipe), "read")
    <2>1. mpx' = IF HasRoom(added) THEN Submit(added, Updater, "read")
                 ELSE UringResult(added, Updater, "read", "error")
      BY <1>4 DEF UpdaterCompletes
    <2>2. Orderly(mpx, inflight', Tail(pipe)) /\ Head(pipe) \in Conn
          /\ MaySubmit(mpx, inflight', Tail(pipe), Head(pipe), "read")
      BY <1>1, <1>2, <1>4, TailOrderly
    <2>3. added \in Multiplexer
      BY <2>2, AddOrderly DEF Masks, Orderly
    <2>4. Armed(added, inflight', {<<Updater, "read">>})
      BY <1>2, <2>2, AddArmed DEF Masks, Handle
    <2> HIDE DEF added
    <2>5. CASE HasRoom(added)
      <3>1. /\ Armed(Submit(added, Updater, "read"), inflight', {<<Updater, "read">>})
            /\ Asks(Submit(added, Updater, "read").queue, Updater, "read")
        BY <1>2, <2>3, <2>4, <2>5, SubmitArmed DEF Masks
      <3> QED
        BY <2>1, <2>5, <3>1 DEF Armed
    <2>6. CASE ~HasRoom(added)
      BY <1>2, <2>1, <2>3, <2>4, <2>6, ResultArmed DEF Masks
    <2> QED
      BY <2>5, <2>6
  <1> QED
    BY <1>3, <1>4

LEMMA AcceptorArmed ==
    ASSUME NEW k \in DOMAIN inflight, AcceptCompletes(k) \/ AcceptFails(k),
           Orderly(mpx, inflight, pipe), Armed(mpx, inflight, {})
    PROVE  Armed(mpx', inflight', {})
  <1>1. mpx \in Multiplexer
    BY DEF Orderly
  <1>2. CASE AcceptCompletes(k)
    BY <1>1, <1>2, AddArmed DEF AcceptCompletes, Masks, Handle
  <1>3. CASE AcceptFails(k)
    <2>1. /\ Completes(k, Acceptor, "accept")
          /\ mpx' = UringResult(UringShutdown(mpx), Acceptor, "accept", "error")
      BY <1>3 DEF AcceptFails
    <2>2. Armed(mpx, inflight', {<<Acceptor, "accept">>}) /\ Acceptor \in Handle
      BY <2>1, CompletesArmed DEF Handle
    <2>3. /\ Armed(UringShutdown(mpx), inflight', {<<Acceptor, "accept">>})
          /\ UringShutdown(mpx) \in Multiplexer
      BY <1>1, <2>2, ShutdownArmed, ShutdownOrderly DEF Orderly
    <2> QED
      BY <2>1, <2>2, <2>3, ResultArmed DEF Masks
  <1> QED
    BY <1>2, <1>3

(* An operation that goes on is submitted again if there is room.           *)
LEMMA ResubmitArmed ==
    ASSUME NEW m \in Multiplexer, NEW f, NEW h \in Handle, NEW op \in Masks,
           Armed(m, f, {<<h, op>>}), HasRoom(Submit(m, h, op))
    PROVE  Armed(Submit(m, h, op), f, {})
  <1>1. Armed(Submit(m, h, op), f, {<<h, op>>}) /\ Asks(Submit(m, h, op).queue, h, op)
    BY SubmitArmed
  <1> QED
    BY <1>1 DEF Armed

LEMMA ConnectionArmed ==
    ASSUME NEW k \in DOMAIN inflight, NEW c \in Conn,
           \/ ReadCompletes(k, c) \/ WriteCompletes(k, c) \/ PollCompletes(k, c)
           \/ \E op \in {"read", "write"} : Temporary(k, c, op),
           Orderly(mpx, inflight, pipe), Armed(mpx, inflight, {}), HasRoom(mpx')
    PROVE  Armed(mpx', inflight', {})
  <1>1. mpx \in Multiplexer /\ c \in Handle
    BY DEF Orderly, Handle
  <1>2. CASE ReadCompletes(k, c)
    <2>1. Completes(k, c, "read")
      BY <1>2 DEF ReadCompletes
    <2> DEFINE answered(out) == IF out.answers THEN UringAnswer(mpx, c) ELSE mpx
    <2>2. PICK out \in ReadOutcome(c) :
            mpx' = IF out.res = "ok" THEN Submit(answered(out), c, "read")
                   ELSE UringResult(answered(out), c, "read", out.res)
      BY <1>2 DEF ReadCompletes
    <2>3. Armed(mpx, inflight', {<<c, "read">>})
      BY <2>1, CompletesArmed
    <2>4. Orderly(mpx, inflight', pipe) /\ MaySubmit(mpx, inflight', pipe, c, "write")
      BY <2>1, CompletesOrderly DEF Reading
    <2>5. /\ UringAnswer(mpx, c) \in Multiplexer
          /\ Armed(UringAnswer(mpx, c), inflight', {<<c, "read">>})
      BY <1>1, <2>3, <2>4, EnableOrderly, EnableArmed DEF UringAnswer, Masks, Orderly
    <2>6. answered(out) \in Multiplexer /\ Armed(answered(out), inflight', {<<c, "read">>})
      BY <1>1, <2>3, <2>5
    <2> HIDE DEF answered
    <2> QED
      BY <1>1, <2>2, <2>6, ResubmitArmed, ResultArmed DEF Masks
  <1>3. CASE WriteCompletes(k, c)
    <2>1. PICK res : mpx' = IF res = "ok" THEN Submit(mpx, c, "write")
                            ELSE UringResult(mpx, c, "write", res)
      BY <1>3 DEF WriteCompletes
    <2>2. Armed(mpx, inflight', {<<c, "write">>})
      BY <1>3, CompletesArmed DEF WriteCompletes
    <2> QED
      BY <1>1, <2>1, <2>2, ResubmitArmed, ResultArmed DEF Masks
  <1>4. CASE PollCompletes(k, c)
    <2>1. PICK op \in {"poll_read", "poll_write"} : Completes(k, c, op)
      BY <1>4 DEF PollCompletes
    <2>2. mpx' \in {mpx, Submit(mpx, c, "read"), Submit(mpx, c, "write")}
      BY <1>4 DEF PollCompletes
    <2>3. Armed(mpx, inflight', {<<c, op>>})
      BY <2>1, CompletesArmed
    <2>4. mpx.mask[c] \subseteq Masks /\ op \notin Masks
      BY <1>1 DEF Multiplexer, Masks
    <2>5. Armed(mpx, inflight', {})
      BY <2>3, <2>4 DEF Armed
    <2> QED
      BY <1>1, <2>2, <2>5, SubmitArmed DEF Masks
  <1>5. ASSUME NEW op \in {"read", "write"}, Temporary(k, c, op)
        PROVE  Armed(mpx', inflight', {})
    <2> DEFINE poll == IF op = "read" THEN "poll_read" ELSE "poll_write"
               polling == Submit(mpx, c, poll)
    <2>1. mpx' = UringResult(polling, c, op, "temporary_error") /\ Completes(k, c, op)
      BY <1>5 DEF Temporary
    <2>2. Armed(mpx, inflight', {<<c, op>>})
      BY <2>1, CompletesArmed
    <2>3. Armed(polling, inflight', {<<c, op>>}) /\ polling \in Multiplexer
      BY <1>1, <2>2, SubmitArmed
    <2> HIDE DEF polling
    <2> QED
      BY <1>1, <2>1, <2>3, ResultArmed DEF Masks
  <1> QED
    BY <1>2, <1>3, <1>4, <1>5

LEMMA EnterArmed ==
    ASSUME Enter, Orderly(mpx, inflight, pipe), Armed(mpx, inflight, {})
    PROVE  Armed(mpx', inflight', {})
  <1> DEFINE q == mpx.queue
             r == inflight \o q
  <1>1. q \in Seq(Submission) /\ inflight \in Seq(Submission) /\ mpx \in Multiplexer
    BY DEF Orderly, Multiplexer
  <1>2. /\ \A j \in DOMAIN inflight : j \in DOMAIN r /\ r[j] = inflight[j]
        /\ \A j \in DOMAIN q : Len(inflight) + j \in DOMAIN r /\ r[Len(inflight) + j] = q[j]
    BY <1>1, Joined
  <1>3. inflight' = r /\ mpx' = [mpx EXCEPT !.queue = <<>>]
    BY DEF Enter
  <1>4. mpx'.mask = mpx.mask /\ mpx'.managers = mpx.managers
    BY <1>1, <1>3 DEF Multiplexer
  <1> HIDE DEF r
  <1>5. \A h, op : Asks(q, h, op) \/ Asks(inflight, h, op) => Asks(r, h, op)
    BY <1>2 DEF Asks
  <1> QED
    BY <1>3, <1>4, <1>5 DEF Armed

LEMMA StepArmed ==
    /\ UringInv /\ ArmedInv /\ [Next]_vars
    /\ (backend = "uring" => HasRoom(mpx))'
    => ArmedInv'
  <1> SUFFICES ASSUME UringInv, ArmedInv, [Next]_vars, HasRoom(mpx'), backend' = "uring"
               PROVE  Armed(mpx', inflight', {})
    BY DEF ArmedInv, HasRoom
  <1>1. CASE UNCHANGED <<mpx, inflight, backend>>
    BY <1>1 DEF ArmedInv
  <1>2. CASE Uring
    <2>1. /\ UringNext /\ Orderly(mpx, inflight, pipe) /\ Armed(mpx, inflight, {})
      BY <1>2 DEF Uring, UringInv, ArmedInv
    <2>2. CASE UNCHANGED <<mpx, inflight>>
      BY <2>1, <2>2
    <2>3. CASE Enter
      BY <2>1, <2>3, EnterArmed
    <2>4. ASSUME NEW k \in DOMAIN inflight, Complete(k) \/ AcceptFails(k)
                   \/ \E c \in Conn, op \in {"read", "write"} : Temporary(k, c, op)
          PROVE  Armed(mpx', inflight', {})
      BY <2>1, <2>4, UpdaterArmed, AcceptorArmed, ConnectionArmed DEF Complete
    <2> QED
      BY <2>1, <2>2, <2>3, <2>4 DEF UringNext, UringLoop, PeerConnect, HandOver
  <1>3. CASE Kqueue
    <2>1. backend' = backend /\ backend = "kqueue"
      BY <1>3 DEF Kqueue, KqueueNext, KqueueLoop, Poll, UpdaterReads, AcceptorReads, EndOfFile,
                  Ignored, ConnReads, ConnWrites, PeerConnect, HandOver, baseVars
    <2> QED
      BY <2>1
  <1>4. CASE (Peers \/ LoopExit) /\ UNCHANGED <<inflight, filters, events>>
    BY <1>1, <1>4 DEF Peers, RequestShutdown, PeerSend, PeerClose, LoopExit
  <1> QED
    BY <1>1, <1>2, <1>3, <1>4 DEF Next, vars, baseVars

LEMMA InitArmed ==
    Init => ArmedInv
  <1> SUFFICES ASSUME Init, backend = "uring"
               PROVE  Armed(mpx, inflight, {})
    BY DEF ArmedInv
  <1>1. mpx = UringAdd(UringAdd(Blank, Updater, "read"), Acceptor, "accept")
        /\ inflight = <<>>
    BY DEF Init, UringInit
  <1>2. Blank \in Multiplexer /\ Armed(Blank, <<>>, {})
    BY DEF Blank, Multiplexer, Armed
  <1>3. MaySubmit(Blank, <<>>, <<>>, Updater, "read") /\ Orderly(Blank, <<>>, <<>>)
    BY <1>2 DEF Orderly, Sole, Single, Waiting, MaySubmit, Waits, NotReading, Handle, Blank
  <1> DEFINE n == UringAdd(Blank, Updater, "read")
  <1>4. n \in Multiplexer
    BY <1>3, AddOrderly DEF Masks, Orderly
  <1>5. Armed(n, <<>>, {})
    BY <1>2, AddArmed DEF Masks, Handle
  <1> HIDE DEF n
  <1>6. Armed(UringAdd(n, Acceptor, "accept"), <<>>, {})
    BY <1>4, <1>5, AddArmed DEF Masks, Handle
  <1> QED
    BY <1>1, <1>6 DEF n

(* On io_uring no operation of a mask is forgotten while the ring has room: *)
(* whatever enable() has set has a submission in the queue or in the        *)
(* kernel, or its manager is gone.  A full ring is where the code loses     *)
(* one, since the result of submitting again is not looked at.              *)
THEOREM RingKeepsMasks ==
    Spec /\ [](backend = "uring" => HasRoom(mpx)) => [](backend = "uring" => MaskIsArmed)
  <1>1. UringInv /\ ArmedInv => (backend = "uring" => MaskIsArmed)
    <2> SUFFICES ASSUME Orderly(mpx, inflight, pipe), Armed(mpx, inflight, {}),
                        backend = "uring", NEW h \in mpx.managers, NEW op \in mpx.mask[h]
                 PROVE  \E k \in DOMAIN (mpx.queue \o inflight) :
                          /\ (mpx.queue \o inflight)[k].mgr = h
                          /\ (mpx.queue \o inflight)[k].op = op
      BY DEF MaskIsArmed, UringInv, ArmedInv
    <2> DEFINE q == mpx.queue
               r == q \o inflight
    <2>1. q \in Seq(Submission) /\ inflight \in Seq(Submission)
      BY DEF Orderly, Multiplexer
    <2>2. /\ \A j \in DOMAIN q : j \in DOMAIN r /\ r[j] = q[j]
          /\ \A j \in DOMAIN inflight : Len(q) + j \in DOMAIN r /\ r[Len(q) + j] = inflight[j]
      BY <2>1, Joined
    <2>3. Asks(q, h, op) \/ Asks(inflight, h, op)
      BY DEF Armed
    <2> HIDE DEF r
    <2>4. \E k \in DOMAIN r : r[k].mgr = h /\ r[k].op = op
      BY <2>2, <2>3 DEF Asks
    <2> QED
      BY <2>4 DEF r
  <1>2. UringInv /\ [Next]_vars => UringInv'
    BY StepOrderly
  <1>3. /\ UringInv /\ ArmedInv /\ [Next]_vars /\ (backend = "uring" => HasRoom(mpx))'
        => ArmedInv'
    BY StepArmed
  <1> QED
    BY <1>1, <1>2, <1>3, InitOrderly, InitArmed, PTL DEF Spec

-----------------------------------------------------------------------------
(* kqueue.  What the kernel makes of a filter that an entry names; what it  *)
(* does not have it cannot change.                                          *)
Flags == {"ADD", "ENABLE", "DISABLE", "DELETE"}
FilterOps == {"read", "write"}
FilterStates == {"none", "off", "on"}
ChangeEntry == [h : Handle, op : FilterOps \cup {"none"}, flag : Flags]
ChangeList ==
    [managers : SUBSET Handle, mask : [Handle -> SUBSET FilterOps],
     running : BOOLEAN, shutting_down : BOOLEAN, queue : Seq(ChangeEntry)]

Told(v, flag) ==
    IF flag # "ADD" /\ v = "none" THEN v
    ELSE CASE flag = "ENABLE" -> "on" [] flag = "DELETE" -> "none" [] OTHER -> "off"

Tells(e, h, op) == e.h = h /\ e.op = op
After(e, h, op, v) == IF Tells(e, h, op) THEN Told(v, e.flag) ELSE v

(* The entries of q, one by one, make w of the filter op of h that was v.   *)
Course(t, n, q, v, h, op) ==
    /\ t \in [0..n -> FilterStates] /\ t[0] = v
    /\ \A k \in 1..n : t[k] = After(q[k], h, op, t[k - 1])
Makes(q, v, h, op, w) == \E t : Course(t, Len(q), q, v, h, op) /\ t[Len(q)] = w

LEMMA AfterType ==
    ASSUME NEW e, NEW h, NEW op, NEW v \in FilterStates
    PROVE  After(e, h, op, v) \in FilterStates
  BY DEF After, Told, FilterStates

LEMMA NothingTold ==
    ASSUME NEW v \in FilterStates, NEW h, NEW op
    PROVE  Makes(<<>>, v, h, op, v)
  <1> DEFINE t == [k \in 0..0 |-> v]
  <1>1. Course(t, 0, <<>>, v, h, op) /\ t[0] = v
    BY DEF Course
  <1> HIDE DEF t
  <1> QED
    BY <1>1 DEF Makes

(* One entry more. *)
SameUpTo(n, q, r) == \A k \in 1..n : r[k] = q[k]

LEMMA CourseGoesOn ==
    ASSUME NEW q, NEW r, NEW n \in Nat, NEW t, NEW v, NEW h, NEW op,
           Course(t, n, q, v, h, op), SameUpTo(n, q, r)
    PROVE  \E u : /\ Course(u, n + 1, r, v, h, op)
                  /\ u[n + 1] = After(r[n + 1], h, op, t[n])
  <1> DEFINE last == After(r[n + 1], h, op, t[n])
             u == [k \in 0..(n + 1) |-> IF k = n + 1 THEN last ELSE t[k]]
  <1>1. t \in [0..n -> FilterStates] /\ t[0] = v
        /\ \A k \in 1..n : t[k] = After(r[k], h, op, t[k - 1])
    BY DEF Course, SameUpTo
  <1>2. last \in FilterStates
    BY <1>1, AfterType
  <1> HIDE DEF last
  <1>3. u[n + 1] = last /\ \A k \in 0..n : u[k] = t[k]
    OBVIOUS
  <1>4. u \in [0..(n + 1) -> FilterStates] /\ u[0] = v
    BY <1>1, <1>2
  <1> HIDE DEF u
  <1>5. ASSUME NEW k \in 1..(n + 1)
        PROVE  u[k] = After(r[k], h, op, u[k - 1])
    <2>1. CASE k = n + 1
      <3>1. k - 1 = n /\ n \in 0..n
        BY <2>1
      <3> QED
        BY <1>3, <2>1, <3>1, Zenon DEF last
    <2>2. CASE k # n + 1
      <3>1. k \in 1..n /\ k \in 0..n /\ k - 1 \in 0..n
        BY <2>2
      <3> QED
        BY <1>1, <1>3, <3>1, Zenon
    <2> QED
      BY <2>1, <2>2
  <1>6. Course(u, n + 1, r, v, h, op) /\ u[n + 1] = After(r[n + 1], h, op, t[n])
    BY <1>3, <1>4, <1>5 DEF Course, last
  <1> QED
    BY <1>6

LEMMA MakesMore ==
    ASSUME NEW q \in Seq(ChangeEntry), NEW e \in ChangeEntry, NEW v, NEW h, NEW op, NEW w,
           Makes(q, v, h, op, w)
    PROVE  Makes(Append(q, e), v, h, op, After(e, h, op, w))
  <1> DEFINE n == Len(q)
             r == Append(q, e)
  <1>1. PICK t : Course(t, n, q, v, h, op) /\ t[n] = w
    BY DEF Makes
  <1>2. n \in Nat /\ Len(r) = n + 1 /\ r[n + 1] = e /\ SameUpTo(n, q, r)
    BY DEF SameUpTo
  <1> HIDE DEF n, r
  <1>3. \E u : Course(u, n + 1, r, v, h, op) /\ u[n + 1] = After(r[n + 1], h, op, t[n])
    BY <1>1, <1>2, CourseGoesOn
  <1>4. PICK u : Course(u, Len(r), r, v, h, op) /\ u[Len(r)] = After(e, h, op, w)
    BY <1>1, <1>2, <1>3, Zenon
  <1>5. Makes(r, v, h, op, After(e, h, op, w))
    BY <1>4 DEF Makes
  <1> QED
    BY <1>5 DEF r

(* Every list makes something of every filter. *)
LEMMA MakesSomething ==
    ASSUME NEW q \in Seq(ChangeEntry), NEW v \in FilterStates, NEW h, NEW op
    PROVE  \E w \in FilterStates : Makes(q, v, h, op, w)
  <1> DEFINE N == {n \in Nat : \E t : Course(t, n, q, v, h, op)}
  <1>1. 0 \in N
    <2>1. Course([k \in 0..0 |-> v], 0, q, v, h, op)
      BY DEF Course
    <2> HIDE DEF Course
    <2> QED
      BY <2>1
  <1>2. ASSUME NEW n \in N
        PROVE  n + 1 \in N
    <2>1. n \in Nat /\ \E t : Course(t, n, q, v, h, op)
      OBVIOUS
    <2>2. SameUpTo(n, q, q)
      BY DEF SameUpTo
    <2>3. \E u : Course(u, n + 1, q, v, h, op)
      BY <2>1, <2>2, CourseGoesOn
    <2> QED
      BY <2>1, <2>3
  <1> HIDE DEF N
  <1>3. \A n \in Nat : n \in N
    BY <1>1, <1>2, Inductive DEF N
  <1>4. Len(q) \in Nat
    OBVIOUS
  <1>5. PICK t : Course(t, Len(q), q, v, h, op)
    BY <1>3, <1>4 DEF N
  <1>6. t[Len(q)] \in FilterStates
    BY <1>4, <1>5 DEF Course
  <1> QED
    BY <1>5, <1>6 DEF Makes

(* A filter is on at the end if it was on and no entry names it, or if the  *)
(* last entry that does enables it.                                         *)
LEMMA EndsOn ==
    ASSUME NEW q \in Seq(ChangeEntry), NEW v, NEW h, NEW op, Makes(q, v, h, op, "on")
    PROVE  \/ v = "on" /\ \A k \in DOMAIN q : ~Tells(q[k], h, op)
           \/ \E k \in DOMAIN q : /\ Tells(q[k], h, op) /\ q[k].flag = "ENABLE"
                                  /\ \A j \in DOMAIN q : j > k => ~Tells(q[j], h, op)
  <1> DEFINE L == Len(q)
             Silent(i, n) == \A k \in 1..n : k > i => ~Tells(q[k], h, op)
             Because(n) == \/ v = "on" /\ Silent(0, n)
                           \/ \E k \in 1..n : /\ Tells(q[k], h, op) /\ q[k].flag = "ENABLE"
                                              /\ Silent(k, n)
  <1>1. PICK t : Course(t, L, q, v, h, op) /\ t[L] = "on"
    BY DEF Makes
  <1>2. L \in Nat /\ DOMAIN q = 1..L
    OBVIOUS
  <1> HIDE DEF L
  <1> DEFINE N == {n \in Nat : n <= L /\ t[n] = "on" => Because(n)}
  <1>3. 0 \in N
    BY <1>1 DEF Course
  <1>4. ASSUME NEW n \in N
        PROVE  n + 1 \in N
    <2> SUFFICES ASSUME n + 1 <= L, t[n + 1] = "on"
                 PROVE  Because(n + 1)
      OBVIOUS
    <2>1. n \in Nat /\ n + 1 \in 1..L /\ (n + 1) - 1 = n /\ n <= L /\ (t[n] = "on" => Because(n))
      BY <1>2
    <2>2. t[n + 1] = After(q[n + 1], h, op, t[n])
      BY <1>1, <2>1 DEF Course
    <2>3. CASE Tells(q[n + 1], h, op)
      <3>1. q[n + 1].flag = "ENABLE"
        BY <2>2, <2>3 DEF After, Told
      <3>2. n + 1 \in 1..(n + 1) /\ Silent(n + 1, n + 1)
        BY <2>1
      <3> QED
        BY <2>3, <3>1, <3>2
    <2>4. CASE ~Tells(q[n + 1], h, op)
      <3>1. Because(n)
        BY <2>1, <2>2, <2>4 DEF After
      <3>2. \A k \in 1..(n + 1) : k \in 1..n \/ k = n + 1
        BY <2>1
      <3>3. \A i : Silent(i, n) => Silent(i, n + 1)
        BY <2>4, <3>2
      <3>4. \A k \in 1..n : k \in 1..(n + 1)
        BY <2>1
      <3> HIDE DEF Silent
      <3> QED
        BY <3>1, <3>3, <3>4
    <2> QED
      BY <2>3, <2>4
  <1> HIDE DEF N
  <1>5. \A n \in Nat : n \in N
    BY <1>3, <1>4, Inductive DEF N
  <1>6. Because(L)
    BY <1>1, <1>2, <1>5 DEF N
  <1>7. \A k \in 1..L : k > 0
    BY <1>2
  <1> QED
    BY <1>2, <1>6, <1>7

-----------------------------------------------------------------------------
(* The kernel works off a list. *)
Filters == [Handle -> [FilterOps -> FilterStates]]
Report == [h : Handle, op : FilterOps \cup {"none"}, eof : BOOLEAN]
Kernel == [filters : Filters, errors : Seq(Report)]

LEMMA ChangeFacts ==
    ASSUME NEW kernel \in Kernel, NEW e \in ChangeEntry, NEW open \in SUBSET Handle
    PROVE  /\ Change(kernel, e, open) \in Kernel
           /\ \A h \in open, op \in FilterOps :
                Change(kernel, e, open).filters[h][op] = After(e, h, op, kernel.filters[h][op])
  <1> DEFINE known == /\ e.op # "none" /\ e.h \in open
                      /\ e.flag = "ADD" \/ kernel.filters[e.h][e.op] # "none"
             to == CASE e.flag = "ENABLE" -> "on" [] e.flag = "DELETE" -> "none" [] OTHER -> "off"
             changed == [kernel EXCEPT !.filters[e.h][e.op] = to]
             failed == [kernel EXCEPT !.errors = Append(@, [h |-> e.h, op |-> e.op, eof |-> FALSE])]
  <1>1. Change(kernel, e, open) = IF known THEN changed ELSE failed
    BY DEF Change
  <1>2. e.h \in Handle /\ e.op \in FilterOps \cup {"none"} /\ e.flag \in Flags
    BY DEF ChangeEntry
  <1>3. kernel.filters \in Filters /\ kernel.errors \in Seq(Report)
    BY DEF Kernel
  <1>4. CASE known
    <2>1. to \in FilterStates
      BY DEF FilterStates
    <2>2. e.op \in FilterOps
      BY <1>2, <1>4
    <2> DEFINE fs == [kernel.filters EXCEPT ![e.h][e.op] = to]
    <2>3. changed = [kernel EXCEPT !.filters = fs]
      BY <1>3 DEF Kernel
    <2>4. fs \in Filters
      BY <1>2, <1>3, <2>1, <2>2 DEF Filters
    <2>5. changed \in Kernel /\ changed.filters = fs
      BY <2>3, <2>4 DEF Kernel
    <2>6. ASSUME NEW h \in open, NEW op \in FilterOps
          PROVE  fs[h][op] = After(e, h, op, kernel.filters[h][op])
      <3>1. fs[h][op] = IF Tells(e, h, op) THEN to ELSE kernel.filters[h][op]
        BY <1>2, <1>3, <2>2 DEF Filters, Tells
      <3>2. Tells(e, h, op) => Told(kernel.filters[h][op], e.flag) = to
        BY <1>4 DEF Told, Tells
      <3> QED
        BY <3>1, <3>2 DEF After
    <2> QED
      BY <1>1, <1>4, <2>5, <2>6
  <1>5. CASE ~known
    <2>1. [h |-> e.h, op |-> e.op, eof |-> FALSE] \in Report
      BY <1>2 DEF Report
    <2>2. failed \in Kernel /\ failed.filters = kernel.filters
      BY <1>3, <2>1 DEF Kernel
    <2>3. ASSUME NEW h \in open, NEW op \in FilterOps
          PROVE  kernel.filters[h][op] = After(e, h, op, kernel.filters[h][op])
      BY <1>5 DEF After, Tells, Told, FilterOps
    <2> QED
      BY <1>1, <1>5, <2>2, <2>3
  <1> QED
    BY <1>4, <1>5

(* Max picks the last index. *)
LEMMA LastIndex ==
    ASSUME NEW n \in Nat, NEW s \in SUBSET (1..n), s # {}
    PROVE  Max(s) \in s /\ \A k \in s : k <= Max(s)
  <1> DEFINE T == {n - k : k \in s}
  <1>1. T \in SUBSET Nat /\ T # {}
    OBVIOUS
  <1> HIDE DEF T
  <1>2. PICK m \in T : \A k \in T : m <= k
    BY <1>1, Least
  <1> USE DEF T
  <1>3. PICK x \in s : m = n - x
    OBVIOUS
  <1>4. \A k \in s : n - k \in T
    OBVIOUS
  <1> HIDE DEF T
  <1>5. \A k \in s : x >= k
    <2> SUFFICES ASSUME NEW k \in s
                 PROVE  x >= k
      OBVIOUS
    <2>1. n - x <= n - k
      BY <1>2, <1>3, <1>4
    <2> QED
      BY <2>1
  <1>6. Max(s) \in s /\ \A k \in s : Max(s) >= k
    BY <1>5 DEF Max
  <1> QED
    BY <1>6

(* The function that Changed evaluates. *)
WorksOff(F, q, fs, open) ==
    F = [s \in SUBSET DOMAIN q |->
           IF s = {} THEN [filters |-> fs, errors |-> <<>>]
           ELSE Change(F[s \ {Max(s)}], q[Max(s)], open)]

LEMMA WorksOffExists ==
    ASSUME NEW q \in Seq(ChangeEntry), NEW fs \in Filters, NEW open \in SUBSET Handle
    PROVE  \E F : WorksOff(F, q, fs, open)
  <1> DEFINE S == DOMAIN q
             base == [filters |-> fs, errors |-> <<>>]
             pick == [s \in SUBSET S |-> Max(s)]
             step == [x \in S \X Kernel |-> Change(x[2], q[x[1]], open)]
  <1>1. IsFiniteSet(S) /\ Len(q) \in Nat /\ S = 1..Len(q)
    BY FS_Interval
  <1>2. base \in Kernel
    BY DEF Kernel
  <1>3. \A s \in SUBSET S : s # {} => pick[s] \in s
    BY <1>1, LastIndex
  <1>4. step \in [S \X Kernel -> Kernel]
    BY ChangeFacts
  <1>5. \A s \in SUBSET S : pick[s] = Max(s)
    OBVIOUS
  <1>6. \A i \in S, k \in Kernel : step[<<i, k>>] = Change(k, q[i], open)
    OBVIOUS
  <1> HIDE DEF S, base, pick, step
  <1>7. Picks(pick, S)
    BY <1>3 DEF Picks
  <1>8. PICK F \in [SUBSET S -> Kernel] : Folds(F, S, base, pick, step)
    BY <1>1, <1>2, <1>4, <1>7, FoldExists
  <1>9. ASSUME NEW s \in SUBSET S
        PROVE  F[s] = IF s = {} THEN base ELSE Change(F[s \ {Max(s)}], q[Max(s)], open)
    <2>1. CASE s = {}
      BY <1>8, <2>1 DEF Folds
    <2>2. CASE s # {}
      <3>1. pick[s] = Max(s) /\ Max(s) \in S /\ F[s \ {Max(s)}] \in Kernel
        BY <1>3, <1>8, <1>5, <2>2
      <3>2. F[s] = step[<<pick[s], F[s \ {pick[s]}]>>]
        BY <1>8, <2>2 DEF Folds
      <3>3. F[s] = step[<<Max(s), F[s \ {Max(s)}]>>]
        BY <3>1, <3>2, Zenon
      <3>4. step[<<Max(s), F[s \ {Max(s)}]>>] = Change(F[s \ {Max(s)}], q[Max(s)], open)
        BY <1>6, <3>1
      <3> QED
        BY <2>2, <3>3, <3>4, Zenon
    <2> QED
      BY <2>1, <2>2
  <1>10. F = [s \in SUBSET S |-> IF s = {} THEN base ELSE Change(F[s \ {Max(s)}], q[Max(s)], open)]
    BY <1>8, <1>9
  <1> QED
    BY <1>10 DEF WorksOff, S, base

(* What an open descriptor's filters are once the list has been worked off. *)
LEMMA ChangedFacts ==
    ASSUME NEW q \in Seq(ChangeEntry), NEW fs \in Filters, NEW open \in SUBSET Handle
    PROVE  /\ Changed(q, fs, open).filters \in Filters
           /\ \A h \in open, op \in FilterOps : \A w :
                Makes(q, fs[h][op], h, op, w) => Changed(q, fs, open).filters[h][op] = w
  <1> DEFINE F == CHOOSE G : WorksOff(G, q, fs, open)
  <1>1. Changed(q, fs, open) = F[DOMAIN q]
    BY DEF Changed, FoldLeft, MapThenFoldSet, WorksOff
  <1>2. WorksOff(F, q, fs, open)
    BY WorksOffExists
  <1> DEFINE L == Len(q)
  <1>3. L \in Nat /\ DOMAIN q = 1..L /\ \A k \in 1..L : q[k] \in ChangeEntry
    OBVIOUS
  <1> HIDE DEF F, L
  <1>4. /\ F[{}] = [filters |-> fs, errors |-> <<>>]
        /\ \A s \in SUBSET (1..L) : s # {} => F[s] = Change(F[s \ {Max(s)}], q[Max(s)], open)
    BY <1>2, <1>3 DEF WorksOff
  <1>5. ASSUME NEW n \in Nat, n + 1 <= L
        PROVE  F[1..(n + 1)] = Change(F[1..n], q[n + 1], open)
    <2> DEFINE s == 1..(n + 1)
               m == Max(s)
    <2>1. n + 1 \in Nat /\ n + 1 \in s /\ \A k \in s : k \in 1..L
      BY <1>3, <1>5
    <2>2. s \in SUBSET (1..L) /\ s # {}
      BY <2>1
    <2>3. \A k \in s : k <= n + 1
      OBVIOUS
    <2>4. m \in s /\ \A k \in s : k <= m
      <3> HIDE DEF m
      <3>1. Max(1..(n + 1)) \in 1..(n + 1) /\ \A k \in 1..(n + 1) : k <= Max(1..(n + 1))
        <4>1. 1..(n + 1) \in SUBSET (1..(n + 1)) /\ 1..(n + 1) # {}
          BY <2>2
        <4> HIDE DEF s
        <4> QED
          BY <2>1, <4>1, LastIndex
      <3> QED
        BY <3>1 DEF m
    <2>5. m = n + 1
      <3> HIDE DEF m
      <3> QED
        BY <2>1, <2>3, <2>4
    <2>6. s \ {n + 1} = 1..n
      OBVIOUS
    <2>7. F[s] = Change(F[s \ {m}], q[m], open)
      BY <1>4, <2>2
    <2> HIDE DEF m
    <2>8. F[s] = Change(F[s \ {n + 1}], q[n + 1], open)
      BY <2>5, <2>7, Zenon
    <2> QED
      BY <2>6, <2>8, Zenon DEF s
  <1>6. ASSUME NEW n \in Nat, n <= L, n # 0
        PROVE  n \in 1..L
    BY <1>3, <1>6
  <1> DEFINE Reached(n) ==
        /\ F[1..n] \in Kernel
        /\ \A h \in open, op \in FilterOps : \A t :
             Course(t, L, q, fs[h][op], h, op) => F[1..n].filters[h][op] = t[n]
      N == {n \in Nat : n <= L => Reached(n)}
  <1>7. 0 \in N
    <2>1. 1..0 = {}
      OBVIOUS
    <2>2. F[1..0] = [filters |-> fs, errors |-> <<>>]
      BY <1>4, <2>1
    <2>3. F[1..0] \in Kernel /\ F[1..0].filters = fs
      BY <2>2 DEF Kernel
    <2> QED
      BY <2>3 DEF Course
  <1>8. ASSUME NEW n \in N
        PROVE  n + 1 \in N
    <2> SUFFICES ASSUME n + 1 <= L
                 PROVE  Reached(n + 1)
      OBVIOUS
    <2>1. n \in Nat /\ n <= L /\ n + 1 \in 1..L /\ (n + 1) - 1 = n
      BY <1>3
    <2>2. Reached(n) /\ q[n + 1] \in ChangeEntry
      BY <1>3, <2>1
    <2>3. F[1..(n + 1)] = Change(F[1..n], q[n + 1], open)
      BY <1>5, <2>1
    <2> DEFINE kernel == F[1..n]
               next == F[1..(n + 1)]
    <2>4. /\ kernel \in Kernel
          /\ \A h \in open, op \in FilterOps : \A t :
               Course(t, L, q, fs[h][op], h, op) => kernel.filters[h][op] = t[n]
      BY <2>2
    <2> HIDE DEF kernel
    <2>5. next \in Kernel
      BY <2>2, <2>3, <2>4, ChangeFacts DEF kernel
    <2>6. ASSUME NEW h \in open, NEW op \in FilterOps, NEW t,
                 Course(t, L, q, fs[h][op], h, op)
          PROVE  next.filters[h][op] = t[n + 1]
      <3>1. t[n + 1] = After(q[n + 1], h, op, t[n])
        BY <2>1, <2>6 DEF Course
      <3>2. kernel.filters[h][op] = t[n]
        BY <2>4, <2>6
      <3>3. next.filters[h][op] = After(q[n + 1], h, op, kernel.filters[h][op])
        BY <2>2, <2>3, <2>4, ChangeFacts DEF kernel
      <3> QED
        BY <3>1, <3>2, <3>3, Zenon
    <2> QED
      BY <2>5, <2>6
  <1> HIDE DEF N, Reached
  <1>9. \A n \in Nat : n \in N
    BY <1>7, <1>8, Inductive DEF N
  <1>10. Reached(L)
    <2>1. L \in N /\ L <= L
      BY <1>3, <1>9
    <2> QED
      BY <2>1 DEF N
  <1>11. F[1..L].filters \in Filters
    BY <1>10 DEF Reached, Kernel
  <1>12. ASSUME NEW h \in open, NEW op \in FilterOps, NEW w, Makes(q, fs[h][op], h, op, w)
         PROVE  F[1..L].filters[h][op] = w
    BY <1>10, <1>12 DEF Reached, Makes, L
  <1> QED
    BY <1>1, <1>3, <1>11, <1>12

-----------------------------------------------------------------------------
(* The operations on the list of changes.  Each filter of a manager will be *)
(* there once the kernel has worked off the list, and on if the mask has    *)
(* its operation.                                                           *)
Armable(m, h, op, v) ==
    \E w \in {"off", "on"} : Makes(m.queue, v, h, op, w) /\ (op \in m.mask[h] => w = "on")

Kept(m, fs) ==
    /\ m \in ChangeList
    /\ \A h \in m.managers, op \in FilterOps : Armable(m, h, op, fs[h][op])

(* From the list q to r: the filters of h that are in ops are told flag,    *)
(* and nothing else comes of the others.                                    *)
Turned(q, r, h, flag, ops) ==
    \A g, v, w : \A op \in FilterOps : Makes(q, v, g, op, w) =>
      Makes(r, v, g, op, IF g = h /\ op \in ops THEN Told(w, flag) ELSE w)

Becomes(m, n, h, flag, ops) == n \in ChangeList /\ Turned(m.queue, n.queue, h, flag, ops)

(* mod() knows the filters one by one and both together.                    *)
Known(ops) == IF ops \in {{"read"}, {"write"}, {"read", "write"}} THEN ops ELSE {}

LEMMA OneEntry ==
    ASSUME NEW q \in Seq(ChangeEntry), NEW h \in Handle, NEW flag \in Flags,
           NEW o \in FilterOps \cup {"none"}, NEW r,
           r = Append(q, [h |-> h, op |-> o, flag |-> flag])
    PROVE  r \in Seq(ChangeEntry) /\ Turned(q, r, h, flag, {o} \ {"none"})
  <1> DEFINE e == [h |-> h, op |-> o, flag |-> flag]
  <1>1. e \in ChangeEntry
    BY DEF ChangeEntry
  <1>2. e.h = h /\ e.op = o /\ e.flag = flag
    OBVIOUS
  <1> HIDE DEF e
  <1>3. r = Append(q, e)
    BY DEF e
  <1>4. r \in Seq(ChangeEntry)
    BY <1>1, <1>3
  <1>5. ASSUME NEW g, NEW v, NEW w, NEW op \in FilterOps, Makes(q, v, g, op, w)
        PROVE  Makes(r, v, g, op, IF g = h /\ op \in {o} \ {"none"} THEN Told(w, flag) ELSE w)
    <2>1. Makes(r, v, g, op, After(e, g, op, w))
      BY <1>1, <1>3, <1>5, MakesMore
    <2>2. op # "none"
      BY DEF FilterOps
    <2>3. After(e, g, op, w) = IF g = h /\ op \in {o} \ {"none"} THEN Told(w, flag) ELSE w
      BY <1>2, <2>2 DEF After, Tells
    <2> QED
      BY <2>1, <2>3, Zenon
  <1> QED
    BY <1>4, <1>5 DEF Turned

LEMMA TurnedTwice ==
    ASSUME NEW q, NEW p, NEW r, NEW h, NEW flag,
           Turned(q, p, h, flag, {"read"}), Turned(p, r, h, flag, {"write"})
    PROVE  Turned(q, r, h, flag, {"read", "write"})
  <1> SUFFICES ASSUME NEW g, NEW v, NEW w, NEW op \in FilterOps, Makes(q, v, g, op, w)
               PROVE  Makes(r, v, g, op, IF g = h /\ op \in {"read", "write"}
                                         THEN Told(w, flag) ELSE w)
    BY DEF Turned
  <1> DEFINE x == IF g = h /\ op \in {"read"} THEN Told(w, flag) ELSE w
             y == IF g = h /\ op \in {"write"} THEN Told(x, flag) ELSE x
  <1>1. Makes(p, v, g, op, x)
    BY DEF Turned
  <1> HIDE DEF x
  <1>2. Makes(r, v, g, op, y)
    BY <1>1 DEF Turned
  <1>3. y = IF g = h /\ op \in {"read", "write"} THEN Told(w, flag) ELSE w
    BY DEF x, FilterOps
  <1> HIDE DEF y
  <1> QED
    BY <1>2, <1>3, Zenon

(* r is q and what mod() adds for ops. *)
Adds(q, r, h, flag, ops) ==
    \/ /\ ops = {"read", "write"}
       /\ r = Append(Append(q, [h |-> h, op |-> "read", flag |-> flag]),
                     [h |-> h, op |-> "write", flag |-> flag])
    \/ \E o \in FilterOps \cup {"none"} :
         ops = {o} \ {"none"} /\ r = Append(q, [h |-> h, op |-> o, flag |-> flag])

LEMMA ModQueue ==
    ASSUME NEW m \in ChangeList, NEW h \in Handle, NEW flag \in Flags, NEW ops,
           NEW n, n = KqueueMod(m, h, flag, ops)
    PROVE  /\ n = [m EXCEPT !.queue = n.queue]
           /\ Adds(m.queue, n.queue, h, flag, Known(ops))
  <1> DEFINE Entry(op) == [h |-> h, op |-> op, flag |-> flag]
             q == m.queue
             X == CASE ops = {"read", "write"} -> <<Entry("read"), Entry("write")>>
                    [] ops \in {{"read"}, {"write"}} -> <<Entry(CHOOSE op \in ops : TRUE)>>
                    [] OTHER -> <<Entry("none")>>
  <1>1. q \in Seq(ChangeEntry) /\ \A op \in FilterOps \cup {"none"} : Entry(op) \in ChangeEntry
    BY DEF ChangeList, ChangeEntry
  <1>2. n = [m EXCEPT !.queue = q \o X]
    BY DEF KqueueMod
  <1>3. n.queue = q \o X
    BY <1>2 DEF ChangeList
  <1>4. ASSUME ops = {"read", "write"}
        PROVE  /\ Known(ops) = {"read", "write"}
               /\ n.queue = Append(Append(q, Entry("read")), Entry("write"))
    <2>1. X = <<Entry("read"), Entry("write")>> /\ Known(ops) = {"read", "write"}
      BY <1>4 DEF Known
    <2>2. q \o <<Entry("read"), Entry("write")>> = Append(Append(q, Entry("read")), Entry("write"))
      BY <1>1 DEF FilterOps
    <2> QED
      BY <1>3, <2>1, <2>2, Zenon
  <1>5. ASSUME NEW o \in FilterOps \cup {"none"}, X = <<Entry(o)>>, Known(ops) = {o} \ {"none"}
        PROVE  n.queue = Append(q, Entry(o))
    <2>1. q \o <<Entry(o)>> = Append(q, Entry(o))
      BY <1>1
    <2> QED
      BY <1>3, <1>5, <2>1, Zenon
  <1>6. ASSUME NEW o \in FilterOps, ops = {o}
        PROVE  X = <<Entry(o)>> /\ Known(ops) = {o} \ {"none"}
    <2>1. (CHOOSE op \in {o} : TRUE) = o
      OBVIOUS
    <2>2. ops # {"read", "write"} /\ ops \in {{"read"}, {"write"}}
      BY <1>6 DEF FilterOps
    <2>3. X = <<Entry(CHOOSE op \in ops : TRUE)>>
      BY <2>2
    <2>4. X = <<Entry(o)>>
      BY <1>6, <2>1, <2>3, Zenon
    <2>5. Known(ops) = {o} \ {"none"}
      BY <1>6, <2>2 DEF Known, FilterOps
    <2> QED
      BY <2>4, <2>5
  <1>7. ASSUME ops \notin {{"read"}, {"write"}, {"read", "write"}}
        PROVE  Known(ops) = {"none"} \ {"none"} /\ n.queue = Append(q, Entry("none"))
    <2>1. X = <<Entry("none")>> /\ Known(ops) = {"none"} \ {"none"}
      BY <1>7 DEF Known
    <2> HIDE DEF X, Entry
    <2>2. n.queue = Append(q, Entry("none"))
      BY <1>5, <2>1
    <2> QED
      BY <2>1, <2>2
  <1> HIDE DEF X
  <1>8. n = [m EXCEPT !.queue = n.queue]
    BY <1>2, <1>3, Zenon
  <1>9. ASSUME NEW o \in FilterOps, ops = {o}
        PROVE  Known(ops) = {o} \ {"none"} /\ n.queue = Append(q, Entry(o))
    BY <1>5, <1>6, <1>9
  <1>10. \/ ops = {"read", "write"} \/ \E o \in FilterOps : ops = {o}
         \/ ops \notin {{"read"}, {"write"}, {"read", "write"}}
    BY DEF FilterOps
  <1> HIDE DEF Entry, q
  <1>11. CASE ops \notin {{"read"}, {"write"}, {"read", "write"}}
    <2>1. Known(ops) = {"none"} \ {"none"} /\ n.queue = Append(q, Entry("none"))
      BY <1>7, <1>11
    <2> QED
      BY <1>8, <2>1, Zenon DEF Adds, Entry, q
  <1>12. CASE ops = {"read", "write"}
    BY <1>4, <1>8, <1>12, Zenon DEF Adds, Entry, q
  <1>13. ASSUME NEW o \in FilterOps, ops = {o}
         PROVE  Adds(m.queue, n.queue, h, flag, Known(ops))
    BY <1>9, <1>13, Zenon DEF Adds, Entry, q
  <1> QED
    BY <1>8, <1>10, <1>11, <1>12, <1>13, Zenon

LEMMA ModBecomes ==
    ASSUME NEW m \in ChangeList, NEW h \in Handle, NEW flag \in Flags, NEW ops, NEW n,
           n = KqueueMod(m, h, flag, ops)
    PROVE  /\ Becomes(m, n, h, flag, Known(ops))
           /\ n.managers = m.managers /\ n.mask = m.mask
  <1> DEFINE Entry(op) == [h |-> h, op |-> op, flag |-> flag]
             q == m.queue
             r == n.queue
             p == Append(q, Entry("read"))
  <1>1. q \in Seq(ChangeEntry)
    BY DEF ChangeList
  <1>2. ASSUME Known(ops) = {"read", "write"}, r = Append(p, Entry("write"))
        PROVE  r \in Seq(ChangeEntry) /\ Turned(q, r, h, flag, Known(ops))
    <2>1. "read" \in FilterOps \cup {"none"} /\ "write" \in FilterOps \cup {"none"}
      BY DEF FilterOps
    <2>2. p \in Seq(ChangeEntry) /\ Turned(q, p, h, flag, {"read"} \ {"none"})
      BY <1>1, <2>1, OneEntry
    <2> HIDE DEF p, q, r
    <2>3. r \in Seq(ChangeEntry) /\ Turned(p, r, h, flag, {"write"} \ {"none"})
      BY <1>2, <2>1, <2>2, OneEntry
    <2>4. {"read"} \ {"none"} = {"read"} /\ {"write"} \ {"none"} = {"write"}
      OBVIOUS
    <2>5. Turned(q, r, h, flag, {"read", "write"})
      BY <2>2, <2>3, <2>4, TurnedTwice, Zenon
    <2> QED
      BY <1>2, <2>3, <2>5, Zenon
  <1>3. ASSUME NEW o \in FilterOps \cup {"none"}, Known(ops) = {o} \ {"none"},
               r = Append(q, Entry(o))
        PROVE  r \in Seq(ChangeEntry) /\ Turned(q, r, h, flag, Known(ops))
    <2> HIDE DEF q, r
    <2>1. r \in Seq(ChangeEntry) /\ Turned(q, r, h, flag, {o} \ {"none"})
      BY <1>1, <1>3, OneEntry
    <2> QED
      BY <1>3, <2>1, Zenon
  <1>4. n = [m EXCEPT !.queue = r] /\ Adds(q, r, h, flag, Known(ops))
    BY ModQueue
  <1>5. /\ n = [m EXCEPT !.queue = r]
        /\ \/ Known(ops) = {"read", "write"} /\ r = Append(p, Entry("write"))
           \/ \E o \in FilterOps \cup {"none"} : Known(ops) = {o} \ {"none"} /\ r = Append(q, Entry(o))
    BY <1>4, Zenon DEF Adds
  <1> HIDE DEF q, r, p, Entry
  <1>6. r \in Seq(ChangeEntry) /\ Turned(q, r, h, flag, Known(ops))
    BY <1>2, <1>3, <1>5, Zenon
  <1>7. n \in ChangeList /\ n.managers = m.managers /\ n.mask = m.mask
    BY <1>5, <1>6 DEF ChangeList
  <1> QED
    BY <1>6, <1>7 DEF Becomes, q, r

(* What is kept when some filters of h are told something: they are on if   *)
(* they are enabled, and off otherwise.                                     *)
Follows(m, n, h, flag, ops) ==
    /\ n.managers \subseteq m.managers
    /\ \A g \in Handle : g # h => n.mask[g] = m.mask[g]
    /\ flag = "DELETE" => h \notin n.managers
    /\ flag = "ENABLE" => n.mask[h] \subseteq m.mask[h] \cup ops
    /\ flag \in {"ADD", "DISABLE"} => n.mask[h] \subseteq m.mask[h] \ ops

LEMMA BecomesKept ==
    ASSUME NEW m, NEW n, NEW fs, NEW h \in Handle, NEW flag \in Flags, NEW ops, Kept(m, fs),
           Becomes(m, n, h, flag, ops), Follows(m, n, h, flag, ops)
    PROVE  Kept(n, fs)
  <1>1. m \in ChangeList /\ n \in ChangeList /\ Turned(m.queue, n.queue, h, flag, ops)
    BY DEF Kept, Becomes
  <1>2. ASSUME NEW g \in n.managers, NEW op \in FilterOps
        PROVE  Armable(n, g, op, fs[g][op])
    <2>1. g \in m.managers /\ g \in Handle
      BY <1>1 DEF ChangeList, Follows
    <2>2. PICK w \in {"off", "on"} : Makes(m.queue, fs[g][op], g, op, w)
                                     /\ (op \in m.mask[g] => w = "on")
      BY <2>1 DEF Kept, Armable
    <2> DEFINE x == IF g = h /\ op \in ops THEN Told(w, flag) ELSE w
    <2>3. Makes(n.queue, fs[g][op], g, op, x)
      BY <1>1, <2>2 DEF Turned
    <2>4. x \in {"off", "on"} /\ (op \in n.mask[g] => x = "on")
      <3>1. CASE g = h /\ op \in ops
        <4>1. flag # "DELETE" /\ flag \in Flags
          BY <3>1 DEF Follows
        <4>2. Told(w, flag) = IF flag = "ENABLE" THEN "on" ELSE "off"
          BY <4>1 DEF Told
        <4>3. flag # "ENABLE" => op \notin n.mask[h]
          BY <3>1, <4>1 DEF Follows, Flags
        <4>4. x = IF flag = "ENABLE" THEN "on" ELSE "off"
          BY <3>1, <4>2
        <4> QED
          BY <3>1, <4>3, <4>4
      <3>2. CASE g # h
        BY <2>1, <2>2, <3>2 DEF Follows
      <3>3. CASE g = h /\ op \notin ops
        <4>1. op \in n.mask[g] => op \in m.mask[g]
          BY <3>3 DEF Flags, Follows
        <4> QED
          BY <2>2, <3>3, <4>1
      <3> QED
        BY <3>1, <3>2, <3>3
    <2> HIDE DEF x
    <2> QED
      BY <2>3, <2>4 DEF Armable
  <1> QED
    BY <1>1, <1>2 DEF Kept

LEMMA KqueueEnableKept ==
    ASSUME NEW m, NEW fs, NEW h \in Handle, NEW op \in FilterOps, Kept(m, fs), NEW n,
           n = KqueueEnable(m, h, op)
    PROVE  Kept(n, fs)
  <1>1. CASE op \in m.mask[h]
    BY <1>1 DEF KqueueEnable
  <1>2. CASE op \notin m.mask[h]
    <2> DEFINE ops == m.mask[h] \cup {op}
               marked == [m EXCEPT !.mask[h] = @ \cup {op}]
    <2>1. m \in ChangeList
      BY DEF Kept
    <2>2. /\ marked \in ChangeList /\ marked.queue = m.queue /\ marked.managers = m.managers
          /\ marked.mask[h] = ops /\ \A g \in Handle : g # h => marked.mask[g] = m.mask[g]
      BY <2>1 DEF ChangeList
    <2>3. n = KqueueMod(marked, h, "ENABLE", ops)
      BY <1>2 DEF KqueueEnable
    <2>4. ops \in {{"read"}, {"write"}, {"read", "write"}}
      <3>1. m.mask[h] \subseteq FilterOps
        BY <2>1 DEF ChangeList
      <3> QED
        BY <3>1 DEF FilterOps
    <2>5. Known(ops) = ops /\ "ENABLE" \in Flags
      BY <2>4 DEF Known, Flags
    <2> HIDE DEF marked, ops
    <2>6. Becomes(marked, n, h, "ENABLE", ops) /\ n.managers = marked.managers
          /\ n.mask = marked.mask
      BY <2>2, <2>3, <2>5, ModBecomes
    <2>7. Becomes(m, n, h, "ENABLE", ops)
      BY <2>2, <2>6 DEF Becomes
    <2>8. /\ n.managers = m.managers /\ n.mask[h] = ops
          /\ \A g \in Handle : g # h => n.mask[g] = m.mask[g]
      BY <2>2, <2>6
    <2>9. Follows(m, n, h, "ENABLE", ops)
      BY <2>8 DEF Follows
    <2> QED
      BY <2>5, <2>7, <2>9, BecomesKept
  <1> QED
    BY <1>1, <1>2

LEMMA KqueueDelKept ==
    ASSUME NEW m, NEW fs, NEW h \in Handle, Kept(m, fs), NEW n, n = KqueueDel(m, h)
    PROVE  Kept(n, fs)
  <1> DEFINE ops == {"read", "write"}
             less == BaseDel(m, h)
             rest == KqueueMod(less, h, "DELETE", ops)
             run == rest.running /\ ~(rest.shutting_down /\ rest.managers = {})
  <1>1. m \in ChangeList
    BY DEF Kept
  <1>2. /\ less \in ChangeList /\ less.queue = m.queue /\ less.mask = m.mask
        /\ less.managers = m.managers \ {h}
    BY <1>1 DEF BaseDel, ChangeList
  <1>3. Known(ops) = ops /\ "DELETE" \in Flags
    BY DEF Known, Flags
  <1> HIDE DEF less
  <1>4. Becomes(less, rest, h, "DELETE", ops) /\ rest.managers = less.managers
        /\ rest.mask = less.mask
    BY <1>2, <1>3, ModBecomes
  <1>5. n = [rest EXCEPT !.running = run]
    BY DEF KqueueDel, less
  <1> HIDE DEF rest
  <1>6. rest \in ChangeList /\ Turned(m.queue, rest.queue, h, "DELETE", ops)
    BY <1>2, <1>4 DEF Becomes
  <1>7. run \in BOOLEAN
    OBVIOUS
  <1> HIDE DEF run, ops
  <1>8. n \in ChangeList /\ n.queue = rest.queue /\ n.managers = rest.managers
        /\ n.mask = rest.mask
    BY <1>5, <1>6, <1>7 DEF ChangeList
  <1>9. Becomes(m, n, h, "DELETE", ops)
    BY <1>6, <1>8 DEF Becomes
  <1>10. n.managers = m.managers \ {h} /\ n.mask = m.mask
    BY <1>2, <1>4, <1>8
  <1>11. Follows(m, n, h, "DELETE", ops)
    BY <1>10 DEF Follows
  <1> QED
    BY <1>3, <1>9, <1>11, BecomesKept

LEMMA KqueueDisableKept ==
    ASSUME NEW m, NEW fs, NEW h \in Handle, NEW ops, NEW remove, Kept(m, fs),
           NEW n, n = KqueueDisable(m, h, ops, remove)
    PROVE  Kept(n, fs)
  <1> DEFINE marked == [m EXCEPT !.mask[h] = @ \ ops]
             masked == KqueueMod(marked, h, "DISABLE", ops)
  <1>1. m \in ChangeList
    BY DEF Kept
  <1>2. /\ marked \in ChangeList /\ marked.queue = m.queue /\ marked.managers = m.managers
        /\ marked.mask[h] = m.mask[h] \ ops
        /\ \A g \in Handle : g # h => marked.mask[g] = m.mask[g]
    BY <1>1 DEF ChangeList
  <1>3. Known(ops) \subseteq ops /\ "DISABLE" \in Flags
    BY DEF Known, Flags
  <1>4. n \in {m, masked, KqueueDel(masked, h)}
    BY DEF KqueueDisable
  <1> HIDE DEF marked
  <1>5. Becomes(marked, masked, h, "DISABLE", Known(ops)) /\ masked.managers = marked.managers
        /\ masked.mask = marked.mask
    BY <1>2, <1>3, ModBecomes
  <1> HIDE DEF masked
  <1>6. Becomes(m, masked, h, "DISABLE", Known(ops))
    BY <1>2, <1>5 DEF Becomes
  <1>7. Follows(m, masked, h, "DISABLE", Known(ops))
    BY <1>2, <1>3, <1>5 DEF Follows
  <1>8. Kept(masked, fs)
    BY <1>3, <1>6, <1>7, BecomesKept
  <1> QED
    BY <1>4, <1>8, KqueueDelKept

LEMMA KqueueResultKept ==
    ASSUME NEW m, NEW fs, NEW h \in Handle, NEW op, NEW res, Kept(m, fs),
           NEW n, n = KqueueResult(m, h, op, res)
    PROVE  Kept(n, fs)
  <1>1. n \in {m, KqueueDisable(m, h, {op}, TRUE), KqueueDel(m, h)}
    BY DEF KqueueResult
  <1> QED
    BY <1>1, KqueueDisableKept, KqueueDelKept

(* A manager that is added has its filters made, whatever there was before. *)
LEMMA KqueueAddKept ==
    ASSUME NEW m, NEW fs \in Filters, NEW h \in Handle, NEW op \in FilterOps, Kept(m, fs),
           NEW n, n = KqueueAdd(m, h, op)
    PROVE  Kept(n, fs)
  <1> DEFINE ops == {"read", "write"}
             more == BaseAdd(m, h)
             made == KqueueMod(more, h, "ADD", ops)
  <1>1. m \in ChangeList
    BY DEF Kept
  <1>2. /\ more \in ChangeList /\ more.queue = m.queue /\ more.managers = m.managers \cup {h}
        /\ more.mask[h] = {} /\ \A g \in Handle : g # h => more.mask[g] = m.mask[g]
    BY <1>1 DEF BaseAdd, ChangeList
  <1>3. Known(ops) = ops /\ "ADD" \in Flags
    BY DEF Known, Flags
  <1>4. n = KqueueEnable(made, h, op)
    BY DEF KqueueAdd
  <1> HIDE DEF more
  <1>5. Becomes(more, made, h, "ADD", ops) /\ made.managers = more.managers
        /\ made.mask = more.mask
    <2> DEFINE flag == "ADD"
    <2>1. flag \in Flags /\ made = KqueueMod(more, h, flag, ops)
      BY <1>3
    <2> HIDE DEF made, ops, flag
    <2>2. Becomes(more, made, h, flag, Known(ops)) /\ made.managers = more.managers
          /\ made.mask = more.mask
      BY <1>2, <2>1, ModBecomes
    <2> QED
      BY <1>3, <2>2, Zenon DEF flag
  <1> HIDE DEF made
  <1>6. made \in ChangeList /\ Turned(m.queue, made.queue, h, "ADD", ops)
    BY <1>2, <1>5 DEF Becomes
  <1>7. ASSUME NEW g \in made.managers, NEW o \in FilterOps
        PROVE  Armable(made, g, o, fs[g][o])
    <2> DEFINE v == fs[g][o]
    <2>1. g \in Handle /\ made.mask[g] = more.mask[g]
      BY <1>5, <1>6 DEF ChangeList
    <2>2. v \in FilterStates /\ m.queue \in Seq(ChangeEntry)
      BY <1>1, <2>1 DEF Filters, ChangeList
    <2> HIDE DEF v
    <2>3. CASE g = h
      <3>1. PICK w \in FilterStates : Makes(m.queue, v, g, o, w)
        BY <2>2, MakesSomething
      <3>2. Makes(made.queue, v, g, o, Told(w, "ADD"))
        BY <1>6, <2>3, <3>1 DEF Turned, FilterOps
      <3>3. Told(w, "ADD") = "off"
        BY DEF Told
      <3>4. Makes(made.queue, v, g, o, "off") /\ o \notin made.mask[g]
        BY <1>2, <2>1, <2>3, <3>2, <3>3
      <3> QED
        BY <3>4 DEF Armable, v
    <2>4. CASE g # h
      <3>1. g \in m.managers /\ more.mask[g] = m.mask[g]
        BY <1>2, <1>5, <2>1, <2>4
      <3>2. PICK w \in {"off", "on"} : Makes(m.queue, v, g, o, w) /\ (o \in m.mask[g] => w = "on")
        BY <3>1 DEF Kept, Armable, v
      <3>3. Makes(made.queue, v, g, o, w)
        BY <1>6, <2>4, <3>2 DEF Turned
      <3> QED
        BY <2>1, <3>1, <3>2, <3>3 DEF Armable, v
    <2> QED
      BY <2>3, <2>4
  <1>8. Kept(made, fs)
    BY <1>6, <1>7 DEF Kept
  <1> QED
    BY <1>4, <1>8, KqueueEnableKept

-----------------------------------------------------------------------------
(* shutdown() takes the managers one by one.                                *)
LEMMA KqueueStopType ==
    ASSUME NEW m \in ChangeList, NEW h \in Handle
    PROVE  KqueueStop(h, m) \in ChangeList
  <1> DEFINE ops == {"read", "accept"}
             marked == [m EXCEPT !.mask[h] = @ \ ops]
             masked == KqueueMod(marked, h, "DISABLE", ops)
             quiet == KqueueDisable(m, h, ops, FALSE)
  <1>1. marked \in ChangeList
    BY DEF ChangeList
  <1>2. "DISABLE" \in Flags /\ "DELETE" \in Flags
    BY DEF Flags
  <1> HIDE DEF marked
  <1>3. masked \in ChangeList
    BY <1>1, <1>2, ModBecomes DEF Becomes
  <1>4. quiet \in {m, masked}
    BY DEF KqueueDisable, marked
  <1> HIDE DEF masked, quiet, ops
  <1>5. quiet \in ChangeList
    BY <1>3, <1>4
  <1> DEFINE less == BaseDel(quiet, h)
             rest == KqueueMod(less, h, "DELETE", {"read", "write"})
             run == rest.running /\ ~(rest.shutting_down /\ rest.managers = {})
  <1>6. less \in ChangeList
    BY <1>5 DEF BaseDel, ChangeList
  <1>7. KqueueDel(quiet, h) = [rest EXCEPT !.running = run] /\ run \in BOOLEAN
    BY DEF KqueueDel
  <1> HIDE DEF less
  <1>8. rest \in ChangeList
    BY <1>2, <1>6, ModBecomes DEF Becomes
  <1> HIDE DEF rest, run
  <1>9. KqueueDel(quiet, h) \in ChangeList
    BY <1>7, <1>8 DEF ChangeList
  <1> QED
    BY <1>5, <1>9 DEF KqueueStop, quiet, ops

LEMMA KqueueStopKept ==
    ASSUME NEW m, NEW fs, NEW h \in Handle, Kept(m, fs), NEW n, n = KqueueStop(h, m)
    PROVE  Kept(n, fs)
  <1> DEFINE quiet == KqueueDisable(m, h, {"read", "accept"}, FALSE)
  <1>1. n \in {quiet, KqueueDel(quiet, h)}
    BY DEF KqueueStop
  <1> HIDE DEF quiet
  <1>2. Kept(quiet, fs)
    BY KqueueDisableKept DEF quiet
  <1> QED
    BY <1>1, <1>2, KqueueDelKept

(* The function that KqueueShutdown evaluates. *)
Stops(F, base, S) ==
    F = [s \in SUBSET S |-> IF s = {} THEN base ELSE KqueueStop(AnyOf(s), F[s \ {AnyOf(s)}])]

LEMMA StopsExists ==
    ASSUME NEW S \in SUBSET Handle, IsFiniteSet(S), NEW base \in ChangeList
    PROVE  \E F : Stops(F, base, S)
  <1> DEFINE pick == [s \in SUBSET S |-> AnyOf(s)]
             step == [x \in S \X ChangeList |-> KqueueStop(x[1], x[2])]
  <1>1. \A s \in SUBSET S : pick[s] = AnyOf(s) /\ (s # {} => pick[s] \in s)
    BY DEF AnyOf
  <1>2. step \in [S \X ChangeList -> ChangeList]
    BY KqueueStopType
  <1>3. \A h \in S, m \in ChangeList : step[<<h, m>>] = KqueueStop(h, m)
    OBVIOUS
  <1> HIDE DEF pick, step
  <1>4. Picks(pick, S)
    BY <1>1 DEF Picks
  <1>5. PICK F \in [SUBSET S -> ChangeList] : Folds(F, S, base, pick, step)
    BY <1>2, <1>4, FoldExists
  <1>6. ASSUME NEW s \in SUBSET S
        PROVE  F[s] = IF s = {} THEN base ELSE KqueueStop(AnyOf(s), F[s \ {AnyOf(s)}])
    <2>1. CASE s = {}
      BY <1>5, <2>1 DEF Folds
    <2>2. CASE s # {}
      <3>1. pick[s] = AnyOf(s) /\ AnyOf(s) \in S /\ F[s \ {AnyOf(s)}] \in ChangeList
        BY <1>1, <1>5, <2>2
      <3>2. F[s] = step[<<pick[s], F[s \ {pick[s]}]>>]
        BY <1>5, <2>2 DEF Folds
      <3>3. F[s] = step[<<AnyOf(s), F[s \ {AnyOf(s)}]>>]
        BY <3>1, <3>2, Zenon
      <3>4. step[<<AnyOf(s), F[s \ {AnyOf(s)}]>>] = KqueueStop(AnyOf(s), F[s \ {AnyOf(s)}])
        BY <1>3, <3>1
      <3> QED
        BY <2>2, <3>3, <3>4, Zenon
    <2> QED
      BY <2>1, <2>2
  <1>7. F = [s \in SUBSET S |-> IF s = {} THEN base ELSE KqueueStop(AnyOf(s), F[s \ {AnyOf(s)}])]
    BY <1>5, <1>6
  <1> QED
    BY <1>7 DEF Stops

LEMMA KqueueShutdownKept ==
    ASSUME NEW m, NEW fs, Kept(m, fs), NEW n, n = KqueueShutdown(m)
    PROVE  Kept(n, fs)
  <1> DEFINE S == Others(m)
             base == [m EXCEPT !.shutting_down = TRUE]
             F == CHOOSE G : Stops(G, base, S)
             pick == [s \in SUBSET S |-> AnyOf(s)]
             Good == {k \in ChangeList : Kept(k, fs)}
  <1>1. m \in ChangeList
    BY DEF Kept
  <1>2. S \in SUBSET Handle /\ IsFiniteSet(S)
    <2>1. S \in SUBSET Handle
      BY <1>1 DEF Others, ChangeList
    <2>2. IsFiniteSet(Conn)
      BY BaseAssumption
    <2>3. IsFiniteSet(Conn \cup {Updater})
      BY <2>2, FS_AddElement
    <2>4. IsFiniteSet((Conn \cup {Updater}) \cup {Acceptor})
      BY <2>3, FS_AddElement
    <2>5. Handle = (Conn \cup {Updater}) \cup {Acceptor}
      BY DEF Handle
    <2> QED
      BY <2>1, <2>4, <2>5, FS_Subset
  <1>3. /\ base \in ChangeList /\ base.queue = m.queue /\ base.mask = m.mask
        /\ base.managers = m.managers
    BY <1>1 DEF ChangeList
  <1>4. n = F[S]
    BY DEF KqueueShutdown, FoldSet, MapThenFoldSet, Stops, AnyOf
  <1>5. \A s \in SUBSET S : pick[s] = AnyOf(s) /\ (s # {} => pick[s] \in s)
    BY DEF AnyOf
  <1> HIDE DEF S, base, pick
  <1>6. Stops(F, base, S)
    BY <1>2, <1>3, StopsExists
  <1> HIDE DEF F
  <1>7. Kept(base, fs)
    BY <1>3 DEF Kept, Armable
  <1>8. F[{}] \in Good
    BY <1>3, <1>6, <1>7 DEF Stops
  <1>9. ASSUME NEW s \in SUBSET S, s # {}, F[s \ {pick[s]}] \in Good
        PROVE  F[s] \in Good
    <2> DEFINE h == AnyOf(s)
               before == F[s \ {h}]
    <2>1. h \in Handle /\ before \in Good
      BY <1>2, <1>5, <1>9
    <2>2. F[s] = KqueueStop(h, before)
      BY <1>6, <1>9 DEF Stops
    <2> HIDE DEF h, before
    <2>3. Kept(F[s], fs)
      BY <2>1, <2>2, KqueueStopKept
    <2> QED
      BY <2>3 DEF Kept
  <1> HIDE DEF Good
  <1>10. Picks(pick, S) /\ Keeps(F, S, Good, pick)
    BY <1>5, <1>9 DEF Picks, Keeps
  <1>11. F[S] \in Good
    BY <1>2, <1>8, <1>10, FoldKeeps
  <1> QED
    BY <1>4, <1>11 DEF Good

-----------------------------------------------------------------------------
(* The steps. *)
KqueueInv ==
    backend = "kqueue" =>
      /\ filters \in Filters /\ pipe \in Seq(Conn \cup {"shutdown"})
      /\ Kept(mpx, filters)

(* The descriptors that are closed are no manager's. *)
LEMMA DroppedKept ==
    ASSUME NEW m, NEW fs \in Filters, NEW open, m.managers \subseteq open, Kept(m, fs)
    PROVE  Dropped(fs, open) \in Filters /\ Kept(m, Dropped(fs, open))
  <1> DEFINE gs == Dropped(fs, open)
  <1>1. gs \in Filters
    BY DEF Dropped, Filters, NoFilter, FilterOps, FilterStates
  <1>2. m.managers \subseteq Handle
    BY DEF Kept, ChangeList
  <1>3. \A h \in m.managers : gs[h] = fs[h]
    BY <1>2 DEF Dropped
  <1> HIDE DEF gs
  <1>4. Kept(m, gs)
    BY <1>3 DEF Kept
  <1> QED
    BY <1>1, <1>4 DEF gs

(* Once the kernel has worked off the list, what was to become of a filter  *)
(* has.                                                                     *)
LEMMA ToldKept ==
    ASSUME NEW m, NEW fs \in Filters, NEW open \in SUBSET Handle, m.managers \subseteq open,
           Kept(m, fs), NEW gs, gs = Changed(m.queue, fs, open).filters,
           NEW n, n = [m EXCEPT !.queue = <<>>]
    PROVE  gs \in Filters /\ Kept(n, gs)
  <1> DEFINE q == m.queue
             nothing == <<>>
  <1>1. nothing \in Seq(ChangeEntry)
    OBVIOUS
  <1>2. m \in ChangeList /\ q \in Seq(ChangeEntry)
    BY DEF Kept, ChangeList
  <1>3. n = [m EXCEPT !.queue = nothing]
    OBVIOUS
  <1>4. gs = Changed(q, fs, open).filters
    OBVIOUS
  <1> HIDE DEF q, nothing
  <1>5. /\ gs \in Filters
        /\ \A h \in open, op \in FilterOps : \A w :
             Makes(q, fs[h][op], h, op, w) => gs[h][op] = w
    BY <1>2, <1>4, ChangedFacts
  <1>6. n \in ChangeList /\ n.queue = nothing /\ n.mask = m.mask /\ n.managers = m.managers
    BY <1>1, <1>3, <1>2 DEF ChangeList
  <1>7. ASSUME NEW h \in n.managers, NEW op \in FilterOps
        PROVE  Armable(n, h, op, gs[h][op])
    <2>1. h \in open /\ h \in m.managers
      BY <1>6
    <2>2. PICK w \in {"off", "on"} : Makes(q, fs[h][op], h, op, w) /\ (op \in m.mask[h] => w = "on")
      BY <2>1 DEF Kept, Armable, q
    <2>3. gs[h][op] = w /\ w \in FilterStates
      BY <1>5, <2>1, <2>2 DEF FilterStates
    <2>4. Makes(n.queue, w, h, op, w)
      BY <1>6, <2>3, NothingTold DEF nothing
    <2> QED
      BY <1>6, <2>2, <2>3, <2>4 DEF Armable
  <1> QED
    BY <1>5, <1>6, <1>7 DEF Kept

LEMMA PollKept ==
    ASSUME Poll, filters \in Filters, Kept(mpx, filters)
    PROVE  filters' \in Filters /\ Kept(mpx', filters')
  <1> DEFINE open == Open(mpx)
  <1>1. open \in SUBSET Handle /\ mpx.managers \subseteq open
    BY DEF Open, InPipe, Handle, Kept, ChangeList
  <1>2. filters' = Changed(mpx.queue, filters, open).filters /\ mpx' = [mpx EXCEPT !.queue = <<>>]
    BY DEF Poll
  <1> HIDE DEF open
  <1> QED
    BY <1>1, <1>2, ToldKept

(* An entry of the batch is handled, and managers may be gone then. *)
LEMMA HandledKept ==
    ASSUME NEW cs, CloseRemoved(cs), filters \in Filters, Kept(mpx', filters)
    PROVE  filters' \in Filters /\ Kept(mpx', filters')
  <1> DEFINE open == mpx'.managers \cup (ToSet(pipe') \cap Conn)
  <1>1. filters' = Dropped(filters, open) /\ mpx'.managers \subseteq open
    BY DEF CloseRemoved
  <1> HIDE DEF open
  <1> QED
    BY <1>1, DroppedKept

LEMMA KqueueStep ==
    ASSUME KqueueNext, filters \in Filters, pipe \in Seq(Conn \cup {"shutdown"}),
           Kept(mpx, filters)
    PROVE  /\ filters' \in Filters /\ pipe' \in Seq(Conn \cup {"shutdown"})
           /\ Kept(mpx', filters')
  <1>1. CASE Poll
    <2>1. pipe' = pipe
      BY <1>1 DEF Poll
    <2> QED
      BY <1>1, <2>1, PollKept
  <1>2. CASE UpdaterReads
    <2>1. pipe' \in Seq(Conn \cup {"shutdown"}) /\ Head(pipe) \in Conn \cup {"shutdown"}
      BY <1>2 DEF UpdaterReads
    <2>2. \/ mpx' = KqueueResult(KqueueShutdown(mpx), Updater, "read", "done")
          \/ Head(pipe) \in Conn /\ mpx' = KqueueAdd(mpx, Head(pipe), "read")
      BY <1>2, <2>1 DEF UpdaterReads
    <2>3. "read" \in FilterOps /\ Updater \in Handle /\ Conn \subseteq Handle
      BY DEF FilterOps, Handle
    <2>4. Kept(KqueueShutdown(mpx), filters)
      BY KqueueShutdownKept
    <2>5. Kept(mpx', filters)
      BY <2>2, <2>3, <2>4, KqueueResultKept, KqueueAddKept
    <2>6. CloseRemoved(conn)
      BY <1>2 DEF UpdaterReads
    <2> QED
      BY <2>1, <2>5, <2>6, HandledKept
  <1>3. CASE AcceptorReads
    <2>1. PICK c \in Conn : mpx' = KqueueAdd(mpx, c, "read")
      BY <1>3 DEF AcceptorReads
    <2>2. filters' = filters /\ pipe' = pipe
      BY <1>3 DEF AcceptorReads
    <2>3. c \in Handle /\ "read" \in FilterOps
      BY DEF Handle, FilterOps
    <2>4. Kept(mpx', filters)
      BY <2>1, <2>3, KqueueAddKept
    <2> QED
      BY <2>2, <2>4
  <1>4. ASSUME NEW h \in Handle, NEW op, EndOfFile(h, op)
        PROVE  /\ filters' \in Filters /\ pipe' \in Seq(Conn \cup {"shutdown"})
               /\ Kept(mpx', filters')
    <2>1. pipe' = pipe /\ mpx' = KqueueDel(mpx, h) /\ CloseRemoved(conn)
      BY <1>4 DEF EndOfFile
    <2>2. Kept(mpx', filters)
      BY <2>1, KqueueDelKept
    <2> QED
      BY <2>1, <2>2, HandledKept
  <1>5. ASSUME NEW h, NEW op, Ignored(h, op)
        PROVE  mpx' = mpx /\ filters' = filters /\ pipe' = pipe
    BY <1>5 DEF Ignored, baseVars
  <1>6. ASSUME NEW c \in Conn, ConnReads(c)
        PROVE  /\ filters' \in Filters /\ pipe' \in Seq(Conn \cup {"shutdown"})
               /\ Kept(mpx', filters')
    <2>1. pipe' = pipe /\ c \in Handle /\ "write" \in FilterOps
      BY <1>6 DEF ConnReads, Handle, FilterOps
    <2>2. PICK out : /\ mpx' = KqueueResult(IF out.answers THEN KqueueEnable(mpx, c, "write")
                                            ELSE mpx, c, "read", out.res)
                     /\ CloseRemoved([conn EXCEPT ![c].input = out.left,
                                                  ![c].pending = @ \/ out.answers])
      BY <1>6 DEF ConnReads
    <2> DEFINE answered == IF out.answers THEN KqueueEnable(mpx, c, "write") ELSE mpx
               cs == [conn EXCEPT ![c].input = out.left, ![c].pending = @ \/ out.answers]
    <2>3. Kept(answered, filters)
      BY <2>1, KqueueEnableKept
    <2>4. mpx' = KqueueResult(answered, c, "read", out.res) /\ CloseRemoved(cs)
      BY <2>2
    <2> HIDE DEF answered, cs
    <2>5. Kept(mpx', filters)
      BY <2>1, <2>3, <2>4, KqueueResultKept
    <2> QED
      BY <2>1, <2>4, <2>5, HandledKept
  <1>7. ASSUME NEW c \in Conn, NEW res, ConnWrites(c, res)
        PROVE  /\ filters' \in Filters /\ pipe' \in Seq(Conn \cup {"shutdown"})
               /\ Kept(mpx', filters')
    <2> DEFINE cs == [conn EXCEPT ![c].pending = @ /\ res # "done"]
    <2>1. /\ pipe' = pipe /\ mpx' = KqueueResult(mpx, c, "write", res) /\ CloseRemoved(cs)
          /\ c \in Handle
      BY <1>7 DEF ConnWrites, Handle
    <2> HIDE DEF cs
    <2>2. Kept(mpx', filters)
      BY <2>1, KqueueResultKept
    <2> QED
      BY <2>1, <2>2, HandledKept
  <1>8. CASE (PeerConnect(Open(mpx)) \/ \E c \in Conn : HandOver(c, Open(mpx)))
             /\ UNCHANGED <<filters, events>>
    <2>1. mpx' = mpx /\ filters' = filters
      BY <1>8 DEF PeerConnect, HandOver
    <2>2. pipe' = pipe \/ \E c \in Conn : pipe' = Append(pipe, c)
      BY <1>8 DEF PeerConnect, HandOver
    <2>3. pipe' \in Seq(Conn \cup {"shutdown"})
      BY <2>2
    <2> QED
      BY <2>1, <2>3
  <1> QED
    BY <1>1, <1>2, <1>3, <1>4, <1>5, <1>6, <1>7, <1>8 DEF KqueueNext, KqueueLoop

LEMMA KqueueAddManagers ==
    ASSUME NEW m, NEW fs, NEW h \in Handle, NEW op \in FilterOps, Kept(m, fs)
    PROVE  KqueueAdd(m, h, op).managers = m.managers \cup {h}
  <1> DEFINE more == BaseAdd(m, h)
             made == KqueueMod(more, h, "ADD", {"read", "write"})
             marked == [made EXCEPT !.mask[h] = @ \cup {op}]
             ops == made.mask[h] \cup {op}
  <1>1. more \in ChangeList /\ more.managers = m.managers \cup {h}
    BY DEF Kept, BaseAdd, ChangeList
  <1>2. "ADD" \in Flags /\ "ENABLE" \in Flags
    BY DEF Flags
  <1>3. KqueueAdd(m, h, op) \in {made, KqueueMod(marked, h, "ENABLE", ops)}
    BY DEF KqueueAdd, KqueueEnable
  <1> HIDE DEF more
  <1>4. made \in ChangeList /\ made.managers = more.managers
    BY <1>1, <1>2, ModBecomes DEF Becomes
  <1> HIDE DEF made, ops
  <1>5. marked \in ChangeList /\ marked.managers = made.managers
    BY <1>4 DEF ChangeList
  <1> HIDE DEF marked
  <1>6. KqueueMod(marked, h, "ENABLE", ops).managers = marked.managers
    BY <1>2, <1>5, ModBecomes
  <1> QED
    BY <1>1, <1>3, <1>4, <1>5, <1>6

LEMMA KqueueInitKept ==
    ASSUME KqueueInit, pipe = <<>>
    PROVE  /\ filters \in Filters /\ pipe \in Seq(Conn \cup {"shutdown"})
           /\ Kept(mpx, filters)
  <1> DEFINE fs == [h \in Handle |-> NoFilter]
             one == KqueueAdd(Blank, Updater, "read")
             two == KqueueAdd(one, Acceptor, "read")
             open == {Updater, Acceptor}
  <1>1. fs \in Filters /\ "read" \in FilterOps
    BY DEF Filters, NoFilter, FilterOps, FilterStates
  <1>2. open \in SUBSET Handle /\ Updater \in Handle /\ Acceptor \in Handle
    BY DEF Handle
  <1>3. Kept(Blank, fs) /\ Blank.managers = {}
    <2>1. Blank \in ChangeList /\ Blank.managers = {}
      BY DEF Blank, ChangeList
    <2> QED
      BY <2>1 DEF Kept
  <1>4. /\ mpx = [two EXCEPT !.queue = <<>>]
        /\ filters = Changed(two.queue, fs, open).filters
    BY DEF KqueueInit
  <1> HIDE DEF fs, one
  <1>5. Kept(one, fs) /\ one.managers = {Updater}
    BY <1>1, <1>2, <1>3, KqueueAddKept, KqueueAddManagers DEF one
  <1> HIDE DEF two
  <1>6. Kept(two, fs) /\ two.managers = {Updater, Acceptor}
    <2>1. two.managers = one.managers \cup {Acceptor}
      BY <1>1, <1>2, <1>5, KqueueAddManagers DEF two
    <2> QED
      BY <1>1, <1>2, <1>5, <2>1, KqueueAddKept DEF two
  <1> HIDE DEF open
  <1>7. two.managers \subseteq open
    BY <1>6 DEF open
  <1>8. filters \in Filters /\ Kept(mpx, filters)
    BY <1>1, <1>2, <1>4, <1>6, <1>7, ToldKept
  <1> QED
    BY <1>8

LEMMA KqueueInvariant ==
    /\ Init => KqueueInv
    /\ KqueueInv /\ [Next]_vars => KqueueInv'
  <1>1. Init => KqueueInv
    BY KqueueInitKept DEF Init, BaseInit, UringInit, KqueueInv
  <1>2. ASSUME KqueueInv, [Next]_vars
        PROVE  KqueueInv'
    <2> SUFFICES ASSUME backend' = "kqueue"
                 PROVE  /\ filters' \in Filters /\ pipe' \in Seq(Conn \cup {"shutdown"})
                        /\ Kept(mpx', filters')
      BY DEF KqueueInv
    <2>1. backend' = backend
      <3>1. CASE Uring
        BY <3>1 DEF Uring, UringNext, UringLoop, Complete, Enter, UpdaterCompletes, AcceptCompletes,
                    AcceptFails, ReadCompletes, WriteCompletes, Temporary, PollCompletes,
                    PeerConnect, HandOver
      <3>2. CASE Kqueue
        BY <3>2 DEF Kqueue, KqueueNext, KqueueLoop, Poll, UpdaterReads, AcceptorReads, EndOfFile,
                    Ignored, ConnReads, ConnWrites, PeerConnect, HandOver, baseVars
      <3>3. CASE UNCHANGED vars
        BY <3>3 DEF vars, baseVars
      <3>4. CASE (Peers \/ LoopExit) /\ UNCHANGED <<inflight, filters, events>>
        BY <3>4 DEF Peers, RequestShutdown, PeerSend, PeerClose, LoopExit
      <3> QED
        BY <1>2, <3>1, <3>2, <3>3, <3>4 DEF Next
    <2>2. /\ filters \in Filters /\ pipe \in Seq(Conn \cup {"shutdown"})
          /\ Kept(mpx, filters) /\ backend = "kqueue"
      BY <1>2, <2>1 DEF KqueueInv
    <2>3. CASE UNCHANGED vars
      BY <2>2, <2>3 DEF vars, baseVars
    <2>4. CASE Kqueue
      BY <2>2, <2>4, KqueueStep DEF Kqueue
    <2>5. CASE Uring
      BY <2>2, <2>5 DEF Uring
    <2>6. CASE (Peers \/ LoopExit) /\ UNCHANGED <<inflight, filters, events>>
      <3>1. mpx' = mpx /\ filters' = filters /\ pipe' \in {pipe, Append(pipe, "shutdown")}
        BY <2>6 DEF Peers, RequestShutdown, PeerSend, PeerClose, LoopExit
      <3>2. Append(pipe, "shutdown") \in Seq(Conn \cup {"shutdown"})
        BY <2>2
      <3> QED
        BY <2>2, <3>1, <3>2
    <2> QED
      BY <1>2, <2>3, <2>4, <2>5, <2>6 DEF Next
  <1> QED
    BY <1>1, <1>2

(* On kqueue no operation of a mask is lost between the list of changes and *)
(* the kernel: however entries for a descriptor follow each other in one    *)
(* list, of a connection that was closed and of its successor as well, the  *)
(* filter is on, or the last entry about it enables it.                     *)
THEOREM ChangesKeepMasks ==
    Spec => [](backend = "kqueue" => MaskIsArmed)
  <1>1. KqueueInv => (backend = "kqueue" => MaskIsArmed)
    <2> SUFFICES ASSUME filters \in Filters, Kept(mpx, filters), backend = "kqueue",
                        NEW h \in mpx.managers, NEW op \in mpx.mask[h]
                 PROVE  LET Named(k) == mpx.queue[k].h = h /\ mpx.queue[k].op = op
                        IN  \/ /\ filters[h][op] = "on"
                               /\ \A k \in DOMAIN mpx.queue : ~Named(k)
                            \/ \E k \in DOMAIN mpx.queue :
                                 /\ Named(k) /\ mpx.queue[k].flag = "ENABLE"
                                 /\ \A j \in DOMAIN mpx.queue : j > k => ~Named(j)
      BY DEF KqueueInv, MaskIsArmed
    <2>1. op \in FilterOps /\ mpx.queue \in Seq(ChangeEntry)
      BY DEF Kept, ChangeList
    <2>2. Makes(mpx.queue, filters[h][op], h, op, "on")
      BY <2>1 DEF Kept, Armable
    <2> QED
      BY <2>1, <2>2, EndsOn DEF Tells
  <1> QED
    BY <1>1, KqueueInvariant, PTL DEF Spec
=============================================================================
