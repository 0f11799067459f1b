-------------------------- MODULE StreamTransport --------------------------
(***************************************************************************)
(* net::detail::stream_transport<event_handler, NextLayer>: the read       *)
(* buffer and its receive_policy, the write queue with its iovecs, and the *)
(* handlers of the two events, over a stream socket and under an           *)
(* application that consumes, produces, and answers what it consumes.      *)
(*                                                                         *)
(* A byte is its position in its stream: what is on the wire, or has been  *)
(* consumed, shows at once which bytes were lost, repeated or reordered.   *)
(***************************************************************************)
EXTENDS Integers, Sequences, FiniteSetsExt, SequencesExt

CONSTANTS
    Policies,       \* the receive policies the application asks for
    Chunks,         \* the sizes of what it enqueues at a time
    MaxReads,       \* max_consecutive_reads_
    MaxWrites,      \* max_consecutive_writes_
    MaxFetches,     \* max_consecutive_fetches_
    MaxEnqueued,    \* max_enqueued_bytes_
    Word,           \* the values of a size_t, 2^64 in the code
    DisabledBy,     \* the operation the loop disables for each handler
    WholeBuffers,   \* the kernel takes enqueued buffers whole or not at all
    MaxArrived,     \* bound: bytes the peer sends
    MaxProduced,    \* bound: bytes the application produces
    MaxReplies      \* bound: answers the application enqueues

ASSUME StreamAssumption ==
    /\ \A p \in Policies : p.min \in Nat /\ p.max \in Nat
    /\ Chunks \subseteq Nat \ {0}
    /\ MaxReads \in Nat \ {0} /\ MaxWrites \in Nat
    /\ MaxFetches \in Nat \ {0} /\ MaxEnqueued \in Nat \ {0} /\ Word \in Nat \ {0}
    /\ DisabledBy \in [{"read", "write"} -> {"read", "write"}]
    /\ WholeBuffers \in BOOLEAN
    /\ MaxArrived \in Nat /\ MaxProduced \in Nat /\ MaxReplies \in Nat

VARIABLES
    mask,       \* the operations the manager is registered for
    phase,      \* "idle", "read", "fetch"; removed: "gone" or "failed"
    turn,       \* the turns of the handler's loop so far
    fetches,    \* the fetches of fetch_more_data() so far
    policy,     \* min_read_size_ and read_buffer_.size()
    received,   \* read_buffer_[0..received_)
    arrived,    \* bytes the peer has sent
    taken,      \* bytes read from the socket
    consumed,   \* bytes the application has consumed
    left,       \* bytes the application has still to produce
    replies,    \* answers it has enqueued
    offered,    \* bytes that were ever enqueued
    queue,      \* write_queue_ and iovecs_
    enqueued,   \* num_enqueued_bytes_
    wire,       \* bytes the socket has accepted
    peer        \* "open" or "closed"

inVars == <<policy, received, taken, consumed>>
outVars == <<left, offered, queue, enqueued, wire>>
loopVars == <<phase, turn, fetches>>

vars == <<mask, loopVars, inVars, arrived, outVars, replies, peer>>

-----------------------------------------------------------------------------
(* A buffer and its iovec: the memory that iov_base points to, the size of  *)
(* the vector and iov_len.                                                  *)
Buffer == [mem : Seq(Nat), size : Nat, len : Nat]

(* The n bytes of a stream that follow the first k. *)
Bytes(k, n) == [i \in 1..n |-> k + i]

(* What sendmsg() is given: the iovecs, whatever has become of the vectors. *)
Gathered(q) == FlattenSeq([k \in DOMAIN q |-> SubSeq(q[k].mem, 1, q[k].len)])

(* erase() at the front of a vector moves the rest down; what was at the    *)
(* end stays in the memory behind it.                                       *)
Shift(buf, n) ==
    [buf EXCEPT !.mem = SubSeq(@, n + 1, buf.size)
                        \o SubSeq(@, buf.size - n + 1, Len(@)),
                !.size = @ - n]

(* Mutants: nothing is removed, or only one buffer. *)
RemoveNothing(q, n) == q
RemoveOne(q, n) == Tail(q)

(* remove_written_data_from_queue(): left_over[k] of the n bytes are still  *)
(* to be removed when the loop comes to buffer k; it stops at none.  A      *)
(* buffer that is only shortened does not reduce them, and as many buffers  *)
(* are erased at the front as became empty.  The memory of an empty one is  *)
(* the cache's: 0 stands for whatever byte is there when it is sent.        *)
RemoveWritten(q, n) ==
    LET left_over[k \in 1..Len(q)] ==
            IF k = 1 THEN n
            ELSE IF q[k - 1].size <= left_over[k - 1]
                 THEN left_over[k - 1] - q[k - 1].size ELSE left_over[k - 1]
        reached == {k \in DOMAIN q : left_over[k] > 0}
        cleared == {k \in reached : q[k].size <= left_over[k]}
        rest == [k \in DOMAIN q |->
                    IF k \in cleared
                    THEN [q[k] EXCEPT !.size = 0, !.mem = [i \in 1..Len(@) |-> 0]]
                    ELSE IF k \in reached THEN Shift(q[k], left_over[k])
                    ELSE q[k]]
    IN  SubSeq(rest, Cardinality(cleared) + 1, Len(q))

(* Mutant: the next layer is not asked. *)
QueueOnly(q, n) == q = <<>>

(* done_writing(): the queue is empty and the next layer has no more data. *)
DoneWriting(q, n) == q = <<>> /\ n = 0

-----------------------------------------------------------------------------
Init ==
    /\ mask = {"read", "write"}
    /\ phase = "idle" /\ turn = 0 /\ fetches = 0
    /\ policy \in Policies /\ received = <<>>
    /\ arrived = 0 /\ taken = 0 /\ consumed = <<>>
    /\ left = MaxProduced /\ replies = 0
    /\ offered = 0 /\ queue = <<>> /\ enqueued = 0 /\ wire = <<>>
    /\ peer = "open"

(* The result "done" of a handler: the loop disables its operation, and     *)
(* removes the manager with the last one.                                   *)
Done(op) ==
    /\ mask' = mask \ {DisabledBy[op]}
    /\ phase' = IF mask' = {} THEN "gone" ELSE "idle"

(* enqueue(): a buffer of n bytes, its iovec, and register_writing(). *)
Enqueue(n) ==
    /\ queue' = Append(queue, [mem |-> Bytes(offered, n), size |-> n, len |-> n])
    /\ enqueued' = (enqueued + n) % Word
    /\ offered' = offered + n
    /\ mask' = mask \cup {"write"}

-----------------------------------------------------------------------------
(* The peer.                                                                *)

Managed == phase \notin {"gone", "failed"}

PeerSend ==
    /\ peer = "open" /\ Managed /\ arrived < MaxArrived
    /\ arrived' = arrived + 1
    /\ UNCHANGED <<mask, loopVars, inVars, outVars, replies, peer>>

PeerClose ==
    /\ peer = "open" /\ Managed
    /\ peer' = "closed"
    /\ UNCHANGED <<mask, loopVars, inVars, arrived, outVars, replies>>

-----------------------------------------------------------------------------
(* handle_read_event(): up to MaxReads reads.                               *)

Available == arrived - taken

Space == policy.max - Len(received)

ReadEvent ==
    /\ phase = "idle" /\ "read" \in mask
    /\ Available > 0 \/ peer = "closed"
    /\ phase' = "read" /\ turn' = 0
    /\ UNCHANGED <<mask, fetches, inVars, arrived, outVars, replies, peer>>

(* recv() has nothing to give: EAGAIN, a temporary error. *)
ReadWouldBlock ==
    /\ phase = "read" /\ Available = 0 /\ peer = "open"
    /\ phase' = "idle"
    /\ UNCHANGED <<mask, turn, fetches, inVars, arrived, outVars, replies, peer>>

(* recv() reports that the peer has reset the connection: the error removes *)
(* the manager, and what the kernel still had is lost.                      *)
ReadFails ==
    /\ phase = "read" /\ peer = "closed"
    /\ phase' = "gone"
    /\ UNCHANGED <<mask, turn, fetches, inVars, arrived, outVars, replies, peer>>

(* recv() returns 0: the end of the stream, or no space to read to. *)
ReadDone ==
    /\ phase = "read"
    /\ (Available = 0 /\ peer = "closed") \/ (Available > 0 /\ Space = 0)
    /\ Done("read")
    /\ UNCHANGED <<turn, fetches, inVars, arrived, outVars, replies, peer>>

(* recv() fills the space as far as it can. *)
Got == received \o Bytes(taken, Min({Available, Space}))

Read ==
    /\ phase = "read" /\ Available > 0 /\ Space > 0
    /\ taken' = taken + Min({Available, Space})
    /\ turn' = turn + 1

ReadAgain == IF turn' < MaxReads THEN "read" ELSE "idle"

(* Mutants: one byte more is waited for; received_ is not reset. *)
MoreThanEnough(got) == Len(got) > policy.min
KeepReceived(got) == got

Enough(got) == Len(got) >= policy.min

Reset(got) == <<>>

(* Not enough for consume() yet. *)
ReadPart ==
    /\ Read /\ ~Enough(Got)
    /\ received' = Got
    /\ phase' = ReadAgain
    /\ UNCHANGED <<mask, fetches, policy, consumed, arrived, outVars, replies,
                   peer>>

(* consume() may enqueue an answer and configure the next read. *)
Consume ==
    /\ Read /\ Enough(Got)
    /\ consumed' = consumed \o Got
    /\ received' = Reset(Got)
    /\ policy' \in Policies
    /\ phase' = ReadAgain
    /\ \/ UNCHANGED <<mask, queue, enqueued, offered, replies>>
       \/ /\ replies < MaxReplies /\ replies' = replies + 1
          /\ \E n \in Chunks : Enqueue(n)
    /\ UNCHANGED <<fetches, arrived, left, wire, peer>>

(* consume() returns an error, which removes the manager. *)
ConsumeFails ==
    /\ Read /\ Enough(Got)
    /\ consumed' = consumed \o Got
    /\ phase' = "failed"
    /\ UNCHANGED <<mask, fetches, policy, received, arrived, outVars, replies,
                   peer>>

-----------------------------------------------------------------------------
(* handle_write_event(): fetch, write, and once more, MaxWrites times.      *)

WriteEvent ==
    /\ phase = "idle" /\ "write" \in mask
    /\ phase' = "fetch" /\ turn' = 0 /\ fetches' = 0
    /\ UNCHANGED <<mask, inVars, arrived, outVars, replies, peer>>

(* fetch_more_data() goes on. *)
Fetching ==
    phase = "fetch" /\ enqueued < MaxEnqueued /\ fetches < MaxFetches /\ left > 0

Produce ==
    /\ Fetching
    /\ fetches' = fetches + 1
    /\ \E n \in Chunks : n <= left /\ left' = left - n /\ Enqueue(n)
    /\ UNCHANGED <<phase, turn, inVars, arrived, wire, replies, peer>>

WriteDone ==
    /\ phase = "fetch" /\ ~Fetching /\ DoneWriting(queue, left)
    /\ Done("write")
    /\ UNCHANGED <<turn, fetches, inVars, arrived, outVars, replies, peer>>

(* The numbers of bytes that sendmsg() may take. *)
Sendable(q) ==
    LET ends == {MapThenSumSet(LAMBDA j : q[j].len, 1..k) : k \in DOMAIN q}
    IN  IF WholeBuffers THEN ends ELSE 1..Max(ends)

Writing == phase = "fetch" /\ ~Fetching /\ ~DoneWriting(queue, left)

Write ==
    /\ Writing
    /\ \E n \in Sendable(queue) :
         /\ wire' = wire \o SubSeq(Gathered(queue), 1, n)
         /\ queue' = RemoveWritten(queue, n)
         /\ enqueued' = (enqueued - n) % Word
    /\ turn' = turn + 1 /\ fetches' = 0
    /\ IF turn < MaxWrites THEN phase' = "fetch" /\ UNCHANGED mask
       ELSE IF DoneWriting(queue', left) THEN Done("write")
       ELSE phase' = "idle" /\ UNCHANGED mask
    /\ UNCHANGED <<inVars, arrived, left, offered, replies, peer>>

(* The socket was writable when the event was reported, so that the first   *)
(* sendmsg() takes something; a later one may find it full.                 *)
WriteWouldBlock ==
    /\ Writing /\ turn > 0
    /\ phase' = "idle"
    /\ UNCHANGED <<mask, turn, fetches, inVars, arrived, outVars, replies, peer>>

(* The peer no longer reads: the error removes the manager. *)
WriteFails ==
    /\ Writing /\ peer = "closed"
    /\ phase' = "gone"
    /\ UNCHANGED <<mask, turn, fetches, inVars, arrived, outVars, replies, peer>>

-----------------------------------------------------------------------------
(* handle_timeout(): the application enqueues something, or configures the  *)
(* next read.  It does the latter only when no input is received in part,   *)
(* which configure_next_read() would drop.                                  *)
HandleTimeout ==
    /\ phase = "idle"
    /\ \/ /\ replies < MaxReplies /\ replies' = replies + 1
          /\ \E n \in Chunks : Enqueue(n)
          /\ UNCHANGED policy
       \/ /\ received = <<>> /\ policy' \in Policies
          /\ UNCHANGED <<mask, queue, enqueued, offered, replies>>
    /\ UNCHANGED <<loopVars, received, taken, consumed, arrived, left, wire, peer>>

-----------------------------------------------------------------------------
ReadHandler ==
    ReadWouldBlock \/ ReadFails \/ ReadDone \/ ReadPart \/ Consume \/ ConsumeFails

WriteHandler == Produce \/ WriteDone \/ Write \/ WriteWouldBlock \/ WriteFails

(* Nothing to do until the peer sends. *)
Quiet ==
    /\ \/ ~Managed
       \/ phase = "idle" /\ "write" \notin mask /\ Available = 0 /\ peer = "open"
    /\ UNCHANGED vars

Next == \/ PeerSend \/ PeerClose
        \/ ReadEvent \/ ReadHandler
        \/ WriteEvent \/ WriteHandler
        \/ HandleTimeout
        \/ Quiet

(* The loop dispatches both events of the descriptor whenever they are      *)
(* reported, and a handler runs to its end.  The peer need not send, but it *)
(* goes on reading: the socket becomes writable again.                      *)
Spec ==
    /\ Init /\ [][Next]_vars
    /\ SF_vars(ReadEvent) /\ WF_vars(ReadHandler)
    /\ SF_vars(WriteEvent) /\ WF_vars(WriteHandler)

-----------------------------------------------------------------------------
(* Properties.                                                              *)

(* The buffers and counters are well formed; what was received fits into    *)
(* the read buffer.                                                         *)
TypeOK ==
    /\ mask \subseteq {"read", "write"}
    /\ phase \in {"idle", "read", "fetch", "gone", "failed"}
    /\ turn \in Nat /\ fetches \in 0..MaxFetches
    /\ policy \in Policies
    /\ received \in Seq(Nat) /\ Len(received) <= policy.max
    /\ arrived \in 0..MaxArrived /\ taken \in 0..arrived
    /\ consumed \in Seq(Nat)
    /\ left \in 0..MaxProduced /\ replies \in 0..MaxReplies
    /\ offered \in Nat
    /\ queue \in Seq(Buffer) /\ enqueued \in 0..(Word - 1)
    /\ wire \in Seq(Nat)
    /\ peer \in {"open", "closed"}

(* recv() is never called without space, which it would answer with 0, and  *)
(* the handler take for the end of the stream: partial input always leaves  *)
(* room for what the application waits for.                                 *)
RoomToRead == phase = "read" => Len(received) < policy.max

(* The write queue, the iovecs and num_enqueued_bytes_ agree, and together  *)
(* they hold exactly the bytes that were enqueued and not yet written.      *)
QueueMatches ==
    /\ \A k \in DOMAIN queue :
         queue[k].size = queue[k].len /\ queue[k].len = Len(queue[k].mem)
    /\ enqueued = MapThenSumSet(LAMBDA k : queue[k].size, DOMAIN queue)
    /\ Gathered(queue) = Bytes(Len(wire), offered - Len(wire))

(* While there is anything to write or to produce, the manager stays        *)
(* registered for writing, or nobody would ever ask for it again.           *)
OutputScheduled ==
    Managed /\ (queue # <<>> \/ left > 0) => "write" \in mask

(* Refinement, once for each direction: the peer receives exactly the bytes *)
(* enqueued, in order, and the application consumes exactly those sent.     *)
Out == INSTANCE ByteStream WITH delivered <- wire
In == INSTANCE ByteStream WITH offered <- arrived, delivered <- consumed

OutputInOrder == Out!Spec
InputInOrder == In!Spec

(* Whatever the application enqueues or could produce is written in the     *)
(* end, unless the peer closes the connection or the application fails.     *)
Excused == phase = "failed" \/ (phase = "gone" /\ peer = "closed")

OutputFlushed ==
    queue # <<>> \/ left > 0 ~> (queue = <<>> /\ left = 0) \/ Excused

(* The input is read, however much output there is at the same time, and    *)
(* partial input never makes the transport give the connection up.          *)
InputTaken == Available > 0 ~> Available = 0 \/ Excused

(* Neither direction starves the other. *)
BothServed == OutputFlushed /\ InputTaken
=============================================================================
