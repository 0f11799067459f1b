------------------------- MODULE DatagramTransport -------------------------
(***************************************************************************)
(* net::detail::datagram_transport with a datagram_dispatcher on top: one  *)
(* UDP socket shared by an application instance per remote endpoint.  The  *)
(* transport is driven by the handlers of an event loop ("event") or by    *)
(* the completions of an io_uring ("uring"); both share the read buffer,   *)
(* the write queue and the treatment of results.                           *)
(*                                                                         *)
(* The write queue is a std::deque whose elements the ring points into:    *)
(* it is modelled as a window of the memory it lives in.                   *)
(***************************************************************************)
EXTENDS Integers, Sequences, FiniteSetsExt, SequencesExt

CONSTANTS
    Endpoints,        \* the remote endpoints
    Drivers,          \* "event", "uring": what may drive the transport
    Policies,         \* the receive policies the applications ask for
    InitialPolicies,  \* what the read buffer is configured with at first
    Sizes,            \* the sizes of datagrams
    MaxReads,         \* max_consecutive_reads_
    MaxWrites,        \* max_consecutive_writes_
    MaxFetches,       \* max_consecutive_fetches_
    MaxEnqueued,      \* max_enqueued_bytes_
    IdleProduce,      \* what an application without data returns in produce()
    Reordering,       \* a send may complete before an earlier one does
    MayFail,          \* the operations whose completion may report an error
    MaxFaults,        \* bound: such completions
    MaxArrived,       \* bound: datagrams that arrive
    MaxProduced,      \* bound: datagrams each application produces
    MaxReplies,       \* bound: datagrams enqueued outside of produce()
    MaxTimeouts       \* bound: timeouts the applications set

ASSUME DatagramAssumption ==
    /\ Drivers \subseteq {"event", "uring"} /\ Drivers # {}
    /\ \A p \in Policies \cup InitialPolicies : p.min \in Nat /\ p.max \in Nat
    /\ Sizes \subseteq Nat \ {0}
    /\ MaxReads \in Nat \ {0} /\ MaxWrites \in Nat /\ MaxFetches \in Nat \ {0}
    /\ MaxEnqueued \in Nat \ {0}
    /\ IdleProduce \in {"ok", "done"} /\ Reordering \in BOOLEAN
    /\ MayFail \subseteq {"read", "write"}
    /\ {MaxFaults, MaxArrived, MaxProduced, MaxReplies, MaxTimeouts} \subseteq Nat

VARIABLES
    driver,     \* the specialisation: "event" or "uring"
    state,      \* "managed", "removed", "failed", "terminated"
    mask,       \* the operations the manager is registered for
    phase,      \* "idle", or the part of a handler: "read", "fetch", "send"
    caller,     \* the operation for which submit_datagrams() runs
    turn,       \* the turns of the handler's loop so far
    fetches,    \* the fetches of fetch_more_data() so far
    policy,     \* min_read_size_ and read_buffer_.size()
    capacity,   \* the memory read_buffer_ has allocated
    received,   \* read_buffer_[0..received_)
    arrived,    \* the datagrams that have come to the socket, in order
    taken,      \* how many of them have been read
    consumed,   \* what the applications were given, and for which endpoint
    layers,     \* the endpoints in layers_, in its order of iteration
    left,       \* what each application has still to produce
    replies,    \* the datagrams enqueued outside of produce()
    timeouts,   \* the dispatcher's timeouts_: whose each timeout is
    due,        \* the timeouts that have not yet expired
    offered,    \* the datagrams that were ever enqueued
    memory,     \* the memory of write_queue_, popped elements included
    front,      \* the slot of its first element
    back,       \* the slot of its last one
    enqueued,   \* num_enqueued_bytes_
    cached,     \* buffer_cache_.size()
    wire,       \* the datagrams that the socket has sent
    sends,      \* submissions of sendmsg() so far: the next one's id
    prepared,   \* submissions the kernel has not yet seen
    inflight,   \* submissions the kernel works on
    faults      \* completions that reported an error

loopVars == <<state, mask, phase, caller, turn, fetches>>
inVars == <<policy, capacity, received, taken, consumed>>
appVars == <<layers, left, replies, timeouts, due>>
queueVars == <<offered, memory, front, back, enqueued, cached, wire>>
ringVars == <<sends, prepared, inflight, faults>>

vars == <<driver, loopVars, inVars, arrived, appVars, queueVars, ringVars>>

-----------------------------------------------------------------------------
(* An element of the write queue: the datagram its iov_ and addr_ describe, *)
(* the slot whose iov_ and addr_ its msg_ points to, id_ and                *)
(* currently_submitted_.                                                    *)
Element(d, slot) == [dg |-> d, hdr |-> slot, id |-> 0, busy |-> FALSE]

Queue == SubSeq(memory, front, back)

(* The bytes of a datagram; a byte of memory that holds none of it. *)
Bytes(d, n) == [i \in 1..n |-> <<d.id, i>>]
Stale(n) == [i \in 1..n |-> <<0, 0>>]

(* write_queue_.erase(): the smaller part moves into the gap, and with it   *)
(* msg_, which still points to the slot its element came from.              *)
Erase(k) ==
    IF k - 1 < Len(Queue) \div 2
    THEN /\ memory' = [s \in DOMAIN memory |->
                         IF s \in (front + 1)..(front + k - 1) THEN memory[s - 1]
                         ELSE memory[s]]
         /\ front' = front + 1 /\ UNCHANGED back
    ELSE /\ memory' = [s \in DOMAIN memory |->
                         IF s \in (front + k - 1)..(back - 1) THEN memory[s + 1]
                         ELSE memory[s]]
         /\ back' = back - 1 /\ UNCHANGED front

(* What the kernel finds when it reads the header in a slot. *)
Header(slot) == memory[memory[slot].hdr].dg

TotalSize(ds) == MapThenSumSet(LAMBDA k : ds[k].size, DOMAIN ds)

(* has_more_data() of the dispatcher: of any application it knows. *)
HasMoreData == \E e \in ToSet(layers) : left[e] > 0

(* Mutant: the queue is not looked at. *)
NothingToFetch == ~HasMoreData

DoneWriting == Queue = <<>> /\ ~HasMoreData

-----------------------------------------------------------------------------
Init ==
    /\ driver \in Drivers /\ state = "managed" /\ mask = {"read"}
    /\ phase = "idle" /\ caller = "write" /\ turn = 0 /\ fetches = 0
    /\ policy \in InitialPolicies /\ capacity = policy.max /\ received = <<>>
    /\ arrived = <<>> /\ taken = 0 /\ consumed = <<>>
    /\ layers = <<>> /\ left = [e \in Endpoints |-> MaxProduced]
    /\ replies = 0 /\ timeouts = <<>> /\ due = {}
    /\ offered = <<>> /\ memory = <<>> /\ front = 1 /\ back = 0
    /\ enqueued = 0 /\ cached = 0 /\ wire = <<>>
    /\ sends = 0 /\ inflight = {} /\ faults = 0
    /\ prepared = IF driver = "uring" THEN {[op |-> "read", slot |-> 0, id |-> 0]}
                  ELSE {}

(* Mutant: the result is taken for that of a read. *)
DisableReading(ops) ==
    /\ mask' = mask \ {"read"}
    /\ state' = IF mask' = {} /\ state = "managed" THEN "removed" ELSE state

(* The end of a handler that lost registrations or failed. *)
Disable(ops) ==
    /\ mask' = mask \ ops
    /\ state' = IF mask' = {} /\ state = "managed" THEN "removed" ELSE state

(* enqueue() of datagrams of n bytes for these endpoints, in this order.    *)
Enqueue(eps, n) ==
    LET ds == [k \in DOMAIN eps |->
                 [ep |-> eps[k], id |-> Len(offered) + k, size |-> n]]
    IN  /\ offered' = offered \o ds
        /\ memory' = SubSeq(memory, 1, back)
                     \o [k \in DOMAIN ds |-> Element(ds[k], back + k)]
                     \o SubSeq(memory, back + Len(ds) + 1, Len(memory))
        /\ back' = back + Len(ds)
        /\ enqueued' = enqueued + TotalSize(ds)
        /\ UNCHANGED <<front, wire>>

(* register_writing(), which only asks the loop when the bit is not set:    *)
(* the ring's enable() calls submit_datagrams() at once.                    *)
RegisterWriting(next) ==
    /\ mask' = mask \cup {"write"}
    /\ IF driver = "uring" /\ "write" \notin mask
       THEN phase' = "fetch" /\ caller' = "enable" /\ fetches' = 0
       ELSE phase' = next /\ UNCHANGED <<caller, fetches>>

-----------------------------------------------------------------------------
(* The network: a datagram, perhaps an empty one, comes to the socket.      *)
PeerSend ==
    /\ state # "failed" /\ Len(arrived) < MaxArrived
    /\ \E e \in Endpoints, n \in Sizes \cup {0} :
         arrived' = Append(arrived, [ep |-> e, id |-> Len(arrived) + 1, size |-> n])
    /\ UNCHANGED <<driver, loopVars, inVars, appVars, queueVars, ringVars>>

Inbox == Len(arrived) - taken

Smaller(n, m) == IF n < m THEN n ELSE m

(* What is in the read buffer after the next datagram, of which the kernel  *)
(* drops what does not fit: the event loop reads to the end of what it has  *)
(* received, a recvmsg() always to the start of the buffer.                 *)
Filled(d) ==
    LET room == IF driver = "event" THEN policy.max - Len(received) ELSE policy.max
        got == Bytes(d, Smaller(d.size, room))
    IN  IF driver = "event" THEN received \o got
        ELSE got \o SubSeq(received, Len(got) + 1, Len(received))
                 \o Stale(Smaller(Len(got), Len(received)))

Submitted(op) == {s \in inflight : s.op = op}

Submission(op, slot, id) == [op |-> op, slot |-> slot, id |-> id]

-----------------------------------------------------------------------------
(* Reading: handle_read_event(), up to MaxReads datagrams, or the           *)
(* completion of the one recvmsg() that is in flight.                       *)

ReadEvent ==
    /\ driver = "event" /\ state = "managed" /\ phase = "idle"
    /\ "read" \in mask /\ Inbox > 0
    /\ phase' = "read" /\ turn' = 0
    /\ UNCHANGED <<driver, state, mask, caller, fetches, inVars, arrived, appVars,
                   queueVars, ringVars>>

(* The read buffer has size 0, or recvfrom() returns EAGAIN. *)
ReadStops ==
    /\ phase = "read"
    /\ policy.max = Len(received) \/ Inbox = 0
    /\ phase' = "idle"
    /\ UNCHANGED <<driver, state, mask, caller, turn, fetches, inVars, arrived,
                   appVars, queueVars, ringVars>>

Readable ==
    /\ Inbox > 0
    /\ \/ phase = "read" /\ policy.max > Len(received)
       \/ phase = "idle" /\ state # "terminated" /\ Submitted("read") # {}

Datagram == arrived[taken + 1]

Read ==
    /\ Readable
    /\ taken' = taken + 1
    /\ turn' = IF driver = "event" THEN turn + 1 ELSE turn
    /\ inflight' = inflight \ Submitted("read")

(* The loop of the handler goes on, or the next recvmsg() is submitted. *)
ReadAgain == IF driver = "event" /\ turn' < MaxReads THEN "read" ELSE "idle"

Rearm ==
    prepared' = IF driver = "uring" THEN prepared \cup {Submission("read", 0, 0)}
                ELSE prepared

Enough(got) == Len(got) >= policy.min

ReadPart ==
    /\ Read /\ Rearm /\ ~Enough(Filled(Datagram))
    /\ received' = Filled(Datagram)
    /\ phase' = ReadAgain
    /\ UNCHANGED <<driver, state, mask, caller, fetches, policy, capacity, consumed,
                   arrived, appVars, queueVars, sends, faults>>

(* Mutant: every datagram goes to the endpoint that is known the longest. *)
FirstLayer(e) == IF layers = <<>> THEN e ELSE layers[1]

(* next_layer(): the application instance of the endpoint. *)
LayerOf(e) == e

(* try_emplace() puts a new endpoint anywhere in the order of iteration. *)
Known(e) == e \in ToSet(layers)

AddLayer(e) ==
    IF Known(e) THEN UNCHANGED layers
    ELSE \E k \in 1..(Len(layers) + 1) : layers' = InsertAt(layers, k, e)

(* consume(): the init() of a new application instance may configure the    *)
(* next read; when that makes the read buffer grow, the span that is then   *)
(* consumed points to memory that was freed.  consume() itself may          *)
(* configure the next read too.                                             *)
ConsumeWith(e, got) ==
    \E init \in {policy} \cup (IF Known(e) THEN {} ELSE Policies) :
      /\ consumed' = Append(consumed,
                       [ep |-> e, data |-> IF init.max > capacity
                                           THEN Stale(Len(got)) ELSE got])
      /\ policy' \in {init} \cup Policies
      /\ capacity' = Max({capacity, init.max, policy'.max})

(* An application enqueues a datagram of its own accord. *)
Reply(e, next) ==
    /\ replies < MaxReplies /\ replies' = replies + 1
    /\ \E n \in Sizes : Enqueue(<<e>>, n)
    /\ RegisterWriting(next)
    /\ UNCHANGED <<left, cached>>

(* set_timeout_in() of the dispatcher: it remembers whose the timeout is.   *)
SetTimeout(e) ==
    /\ Len(timeouts) < MaxTimeouts
    /\ timeouts' = Append(timeouts, e)
    /\ due' = due \cup {Len(timeouts) + 1}

Consume ==
    /\ Read /\ Rearm /\ Enough(Filled(Datagram))
    /\ received' = <<>>
    /\ LET e == LayerOf(Datagram.ep) IN
         /\ AddLayer(e)
         /\ ConsumeWith(e, Filled(Datagram))
         /\ \/ /\ phase' = ReadAgain
               /\ UNCHANGED <<mask, caller, fetches, left, replies, timeouts, due,
                              queueVars>>
            \/ Reply(e, ReadAgain) /\ UNCHANGED <<timeouts, due>>
            \/ /\ SetTimeout(e)
               /\ phase' = ReadAgain
               /\ UNCHANGED <<mask, caller, fetches, left, replies, queueVars>>
    /\ UNCHANGED <<driver, state, arrived, sends, faults>>

(* The application cannot be initialised, or its consume() fails: the       *)
(* manager is removed, with the applications of all other endpoints.        *)
ConsumeFails ==
    /\ Read /\ Enough(Filled(Datagram))
    /\ state' = "failed" /\ phase' = "idle"
    /\ UNCHANGED <<driver, mask, caller, fetches, policy, capacity, received,
                   consumed, arrived, appVars, queueVars, sends, prepared, faults>>

-----------------------------------------------------------------------------
(* Writing: fetch_more_data(), then every datagram in the queue.            *)

WriteEvent ==
    /\ driver = "event" /\ state = "managed" /\ phase = "idle"
    /\ "write" \in mask
    /\ phase' = "fetch" /\ caller' = "write" /\ turn' = 0 /\ fetches' = 0
    /\ UNCHANGED <<driver, state, mask, inVars, arrived, appVars, queueVars, ringVars>>

Fetching ==
    /\ phase = "fetch" /\ HasMoreData
    /\ enqueued < MaxEnqueued /\ fetches < MaxFetches

(* produce() of the dispatcher asks one application after the other, until  *)
(* one does not return ok.                                                  *)
Asked ==
    LET idle == {k \in DOMAIN layers : left[layers[k]] = 0}
    IN  IF IdleProduce = "ok" \/ idle = {} THEN layers
        ELSE SubSeq(layers, 1, Min(idle) - 1)

(* Those of them that have something, in the same order. *)
Producers ==
    LET able == {k \in DOMAIN Asked : left[Asked[k]] > 0}
    IN  [i \in 1..Cardinality(able) |->
           Asked[CHOOSE k \in able : Cardinality({j \in able : j <= k}) = i]]

(* get_buffer(), n times: from the cache as long as it has some. *)
GetBuffers(n) == cached' = Max({0, cached - n})

Produce ==
    /\ Fetching
    /\ \E n \in Sizes : Enqueue(Producers, n)
    /\ left' = [e \in Endpoints |->
                  IF e \in ToSet(Producers) THEN left[e] - 1 ELSE left[e]]
    /\ mask' = IF Producers = <<>> THEN mask ELSE mask \cup {"write"}
    /\ GetBuffers(Len(Producers))
    /\ fetches' = fetches + 1
    /\ UNCHANGED <<driver, state, phase, caller, turn, inVars, arrived, layers,
                   replies, timeouts, due, ringVars>>

(* Nothing left to write: the loop disables the operation that the handler  *)
(* ran for; disabling poll_write changes nothing.                           *)
WriteDone ==
    /\ phase = "fetch" /\ ~Fetching /\ DoneWriting
    /\ Disable(IF caller = "poll_write" THEN {} ELSE {"write"})
    /\ phase' = "idle"
    /\ UNCHANGED <<driver, caller, turn, fetches, inVars, arrived, appVars,
                   queueVars, ringVars>>

(* return_buffer(): the cache is full at MaxEnqueued buffers. *)
ReturnBuffer == cached' = IF cached < MaxEnqueued THEN cached + 1 ELSE cached

(* Mutant: num_enqueued_bytes_ is not told. *)
WrittenUncounted(k) == Erase(k) /\ ReturnBuffer /\ UNCHANGED <<enqueued, offered>>

(* Mutant: the datagram stays in the queue. *)
WrittenKept(k) ==
    /\ enqueued' = enqueued - Queue[k].dg.size
    /\ ReturnBuffer
    /\ UNCHANGED <<offered, memory, front, back>>

(* handle_write_result(): the datagram leaves the queue, and its buffer     *)
(* goes to the cache.                                                       *)
Written(k) ==
    /\ Erase(k)
    /\ enqueued' = enqueued - Queue[k].dg.size
    /\ ReturnBuffer
    /\ UNCHANGED offered

(* The event loop writes the queue from its front. *)
StartSending ==
    /\ driver = "event" /\ phase = "fetch" /\ ~Fetching /\ ~DoneWriting
    /\ phase' = "send"
    /\ UNCHANGED <<driver, state, mask, caller, turn, fetches, inVars, arrived,
                   appVars, queueVars, ringVars>>

Send ==
    /\ phase = "send" /\ Queue # <<>>
    /\ wire' = Append(wire, Queue[1].dg)
    /\ Written(1)
    /\ UNCHANGED <<driver, loopVars, inVars, arrived, appVars, ringVars>>

(* sendto() returns EAGAIN, or another error. *)
SendWouldBlock ==
    /\ phase = "send" /\ Queue # <<>>
    /\ phase' = "idle"
    /\ UNCHANGED <<driver, state, mask, caller, turn, fetches, inVars, arrived,
                   appVars, queueVars, ringVars>>

SendFails ==
    /\ phase = "send" /\ Queue # <<>>
    /\ phase' = "idle" /\ state' = "failed"
    /\ UNCHANGED <<driver, mask, caller, turn, fetches, inVars, arrived,
                   appVars, queueVars, ringVars>>

SendNext ==
    /\ phase = "send" /\ Queue = <<>>
    /\ turn' = turn + 1 /\ fetches' = 0
    /\ IF turn < MaxWrites THEN phase' = "fetch" /\ UNCHANGED <<state, mask>>
       ELSE /\ Disable(IF DoneWriting THEN {"write"} ELSE {})
            /\ phase' = "idle"
    /\ UNCHANGED <<driver, caller, inVars, arrived, appVars, queueVars, ringVars>>

-----------------------------------------------------------------------------
(* The io_uring variant.                                                    *)

NotSubmitted == {s \in front..back : ~memory[s].busy}

(* submit_datagrams(): a sendmsg() for every element not yet submitted; the *)
(* submission points to the msg_ in the element's slot.                     *)
SubmitDatagrams ==
    /\ driver = "uring" /\ phase = "fetch" /\ ~Fetching /\ ~DoneWriting
    /\ LET fresh == NotSubmitted
           IdOf(s) == sends + Cardinality({r \in fresh : r <= s})
       IN  /\ memory' = [s \in DOMAIN memory |->
                           IF s \in fresh
                           THEN [memory[s] EXCEPT !.id = IdOf(s), !.busy = TRUE]
                           ELSE memory[s]]
           /\ prepared' = prepared \cup {Submission("write", s, IdOf(s)) : s \in fresh}
           /\ sends' = sends + Cardinality(fresh)
    /\ phase' = "idle"
    /\ UNCHANGED <<driver, state, mask, caller, turn, fetches, inVars, arrived, appVars,
                   offered, front, back, enqueued, cached, wire, inflight, faults>>

(* io_uring_submit(), when the loop has handled the completions there were: *)
(* the kernel reads the headers.                                            *)
Enter ==
    /\ phase = "idle" /\ state # "terminated" /\ prepared # {}
    /\ inflight' = inflight \cup
         {[op |-> s.op, id |-> s.id,
           dg |-> IF s.op = "write" THEN <<Header(s.slot)>> ELSE <<>>] : s \in prepared}
    /\ prepared' = {}
    /\ UNCHANGED <<driver, loopVars, inVars, arrived, appVars, queueVars, sends, faults>>

(* Completions of sendmsg(); the elements are looked up by their id.        *)
Completing(s) ==
    /\ phase = "idle" /\ state # "terminated" /\ s \in Submitted("write")
    /\ inflight' = inflight \ {s}

ElementOf(s) == {k \in DOMAIN Queue : Queue[k].id = s.id}

(* Without Reordering, the sends of a socket succeed in the order of the    *)
(* queue.  A datagram shorter than the element it is looked up for fails.   *)
SendCompletes ==
    \E s \in inflight :
      /\ Completing(s)
      /\ Reordering \/ ElementOf(s) = {1}
      /\ wire' = Append(wire, s.dg[1])
      /\ \E k \in ElementOf(s) :
           IF s.dg[1].size < Queue[k].dg.size
           THEN /\ state' = "failed"
                /\ UNCHANGED <<phase, caller, fetches, offered, memory, front, back,
                               enqueued, cached>>
           ELSE /\ Written(k)
                /\ phase' = "fetch" /\ caller' = "write" /\ fetches' = 0
                /\ UNCHANGED state
      /\ UNCHANGED <<driver, mask, turn, inVars, arrived, appVars, sends, prepared,
                     faults>>

Unsubmitted(k) == [memory EXCEPT ![front + k - 1].busy = FALSE]

(* A completion with an error.  Whether it is taken for a temporary one is  *)
(* decided by errno, which the ring does not set.  A temporary error counts *)
(* as the end of the operation for the loop; a poll is submitted for it.    *)
SendError ==
    \E s \in inflight :
      /\ "write" \in MayFail /\ faults < MaxFaults /\ faults' = faults + 1
      /\ Completing(s)
      /\ \/ /\ \E k \in ElementOf(s) : memory' = Unsubmitted(k)
            /\ prepared' = prepared \cup {Submission("poll_write", 0, s.id)}
            /\ Disable({"write"})
         \/ state' = "failed" /\ UNCHANGED <<mask, memory, prepared>>
      /\ UNCHANGED <<driver, phase, caller, turn, fetches, inVars, arrived, appVars,
                     offered, front, back, enqueued, cached, wire, sends>>

ReadError ==
    /\ phase = "idle" /\ state # "terminated" /\ Submitted("read") # {}
    /\ "read" \in MayFail /\ faults < MaxFaults /\ faults' = faults + 1
    /\ inflight' = inflight \ Submitted("read")
    /\ \/ /\ prepared' = prepared \cup {Submission("poll_read", 0, 0)}
          /\ Disable({"read"})
       \/ state' = "failed" /\ UNCHANGED <<mask, prepared>>
    /\ UNCHANGED <<driver, phase, caller, turn, fetches, inVars, arrived, appVars,
                   queueVars, sends>>

PollCompletes ==
    \E s \in inflight :
      /\ phase = "idle" /\ state # "terminated"
      /\ inflight' = inflight \ {s}
      /\ \/ /\ s.op = "poll_read" /\ Inbox > 0 /\ Rearm
            /\ UNCHANGED <<phase, caller, fetches>>
         \/ /\ s.op = "poll_write"
            /\ phase' = "fetch" /\ caller' = "poll_write" /\ fetches' = 0
            /\ UNCHANGED prepared
      /\ UNCHANGED <<driver, state, mask, turn, inVars, arrived, appVars, queueVars,
                     sends, faults>>

-----------------------------------------------------------------------------
(* handle_timeouts() of the loop and handle_timeout() of the dispatcher:    *)
(* the application that set it may enqueue a datagram.  The loop terminates *)
(* when the manager has been removed meanwhile.                             *)
HandleTimeout ==
    /\ phase = "idle" /\ state # "terminated"
    /\ \E id \in due :
         /\ due' = due \ {id}
         /\ \/ /\ state # "managed" /\ state' = "terminated"
               /\ UNCHANGED <<mask, phase, caller, fetches, left, replies, queueVars>>
            \/ /\ state = "managed"
               /\ UNCHANGED <<state, mask, phase, caller, fetches, left, replies,
                              queueVars>>
            \/ state = "managed" /\ Reply(timeouts[id], "idle") /\ UNCHANGED state
    /\ UNCHANGED <<driver, turn, inVars, arrived, layers, timeouts, ringVars>>

-----------------------------------------------------------------------------
ReadHandler == ReadStops \/ ReadPart \/ Consume \/ ConsumeFails

WriteHandler ==
    Produce \/ WriteDone \/ StartSending \/ SendWouldBlock \/ SendFails \/ SendNext
    \/ SubmitDatagrams

(* Nothing happens until a datagram comes, or ever again. *)
Quiet ==
    /\ \/ state \in {"failed", "terminated"}
       \/ /\ phase = "idle" /\ Inbox = 0 /\ prepared = {}
          /\ driver = "uring" \/ "write" \notin mask
          /\ \A s \in inflight : s.op \in {"read", "poll_read"}
    /\ UNCHANGED vars

Next == \/ PeerSend
        \/ ReadEvent \/ ReadHandler \/ ReadError
        \/ WriteEvent \/ WriteHandler \/ Send
        \/ Enter \/ SendCompletes \/ SendError \/ PollCompletes
        \/ HandleTimeout
        \/ Quiet

(* The loop reports what the socket is ready for, and what has completed,   *)
(* again and again; a handler runs to its end; a socket that would block    *)
(* takes a datagram in the end.                                             *)
Spec ==
    /\ Init /\ [][Next]_vars
    /\ SF_vars(ReadEvent) /\ SF_vars(ReadHandler)
    /\ SF_vars(WriteEvent) /\ WF_vars(WriteHandler) /\ SF_vars(Send)
    /\ SF_vars(Enter) /\ SF_vars(SendCompletes) /\ SF_vars(PollCompletes)

-----------------------------------------------------------------------------
(* Properties.                                                              *)

(* Every datagram that was enqueued has either been sent or is in the       *)
(* queue, num_enqueued_bytes_ counts those in the queue, and what the       *)
(* kernel sends for a submission is the datagram the completion will erase. *)
QueueMatches ==
    /\ Len(offered) = Len(wire) + (back - front + 1)
    /\ enqueued = MapThenSumSet(LAMBDA s : memory[s].dg.size, front..back)
    /\ \A s \in inflight : s.op = "write" =>
         \E r \in front..back :
           memory[r].id = s.id /\ memory[r].busy /\ s.dg = <<memory[r].dg>>

(* Refinement, once for each direction: a datagram that was enqueued is     *)
(* sent whole, to the endpoint of its application, and at most once; one    *)
(* that arrived is consumed whole, by the application of its endpoint, and  *)
(* at most once.                                                            *)
Out == INSTANCE DatagramChannel WITH delivered <- wire
In == INSTANCE DatagramChannel WITH
        offered <- [k \in DOMAIN arrived |->
                      [ep |-> arrived[k].ep,
                       data |-> [i \in 1..arrived[k].size |-> <<arrived[k].id, i>>]]],
        delivered <- consumed

OutputAtMostOnce == Out!Spec
InputWhole == In!Spec

(* What an application enqueues is sent in the end, and with it whatever    *)
(* the applications can produce by then, unless the manager is removed for  *)
(* a failure.  (An application that has data and enqueues nothing is not    *)
(* asked for it before somebody enqueues something.)                        *)
Excused == state \in {"failed", "terminated"}

OutputFlushed ==
    back >= front ~> (back < front /\ ~HasMoreData) \/ Excused

(* Whatever arrives is read in the end. *)
InputTaken == taken < Len(arrived) ~> taken = Len(arrived) \/ Excused

(* Neither direction starves the other: what is enqueued is sent however    *)
(* many datagrams arrive, and what arrives is read however much is sent.    *)
BothServed == OutputFlushed /\ InputTaken
=============================================================================
