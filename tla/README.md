# A specification of network-driver

network-driver is a C++20 library for event-driven networking: a *multiplexer*
(one thread, one `epoll`, `kqueue` or `io_uring` instance) owns *managers*, one
per socket; a manager of a connection is a *transport* with a stack of
application layers on top.  This directory holds TLA+ modules for the parts of
the library whose correctness depends on the order of events, the
configurations that check them with TLC, and proofs checked by TLAPS.

Paths below are relative to the repository.

## 1. Inventory

### 1.1 The event loop — `multiplexer_base`, `epoll_multiplexer`

*State.* `managers_` (descriptor to manager), the mask of each manager, the set
of the kernel's epoll instance, `running_`, `shutting_down_`, `mpx_thread_id_`,
`pipe_reader_`/`pipe_writer_`, `pollset_` (at most 32 events of one wait).

*Operations.* `init` (pipe, updater, acceptor), `add`, `enable`, `disable`,
`del` (two overloads), `poll_once` = `epoll_wait` + `handle_timeouts` +
`handle_events`, `start`/`run`/`join`, `shutdown` (on the loop thread: disable
reading everywhere, remove what has no operation left, close the pipe's writer;
on any other thread: write one message to the pipe), `handle_error` (=
`shutdown`).

*Managers the loop always has.* The `pollset_updater` reads the pipe and calls
`add` or `shutdown`; the `acceptor` accepts connections and adds their managers.

*Hard behaviour.* A batch of events outlives changes made by its own handlers;
handlers remove managers, their own included, while the loop holds a reference;
`shutdown` runs inside a handler; other threads read `shutting_down_`,
`mpx_thread_id_` and `pipe_writer_` without a lock; descriptors are reused.

*What makes it correct.* Masks and epoll set agree; no handler runs on a
destroyed manager; no event reaches a later owner of a descriptor; nothing is
accepted after a shutdown; queued output stays registered; a shutdown completes
and does not lose the process; connections are served and removed.

### 1.2 The other back ends — `kqueue_multiplexer`, `uring_multiplexer`

The same interface on kqueue and on io_uring.

*State.* What `multiplexer_base` has, and a list of what the kernel is to be told
with the next `poll_once`: the change list, or the submission queue.  Each
submission holds a reference to its manager, which lives until it completes.

*Operations.* As above; `add` from another thread sends the manager's address
through the pipe, with the reference the caller had.  The io_uring variants of
acceptor, updater and transports submit (`enable`, the `submit_*`) and handle
completions (`handle_completion`), some by submitting the next operation.

*Hard behaviour.* Entries and completions for managers removed or replaced
meanwhile; changes that the kernel refuses, of which kqueue alone returns when
there are any; completions in any order; a full submission queue; polls after
errors taken for temporary ones; a shutdown with operations in flight.

*What makes it correct.* What a manager's mask says is known to the kernel, or is
in the list; one submission of a manager reads at a time; a manager handed over is
added; a shutdown ends the loop.

### 1.3 Timeouts — `timeout_entry`, `set_timeout`, `handle_timeouts`

*State.* `timeouts_` and `cached_timeouts_` (sets ordered by deadline),
`current_timeout_`, `current_timeout_id_`.  *Operations.* `set_timeout_in/_at`,
`handle_timeouts`, the wait time of `poll_once`.  *Hard behaviour:* handlers set
timeouts while the cached set is traversed; equal deadlines; a manager that is
removed, or whose descriptor is reused, before its timeout expires; the deadline
in milliseconds in an `int`.  *Correct if* every timeout fires exactly once, not
early, on the manager that asked for it, and the loop never sleeps past it.

### 1.4 Stream transport — `stream_transport`, `transport_base`, `receive_policy`

*State.* Read buffer, bytes received, minimum size; write queue with the
parallel vector of `iovec`s, the number of enqueued bytes, the buffer cache.
*Operations.* `configure_next_read`, `enqueue`, `handle_read_event`,
`handle_write_event`, `fetch_more_data`, `remove_written_data_from_queue`.
*Hard behaviour:* short reads and writes, consecutive reads and writes up to a
limit, an application that enqueues and reconfigures from inside `consume` and
`produce`.  *Correct if* the peer receives exactly the bytes enqueued, in order,
the application consumes exactly the bytes sent, and the accounting is right.

### 1.5 Datagram transport and dispatcher

`datagram_transport` and `datagram_dispatcher` serve a UDP socket: one application
instance per remote endpoint, created by the first datagram from there.

*State.* The read buffer; the write queue, a `std::deque` of elements with the
datagram (`iov_`, `addr_`), the header for `sendmsg` (`msg_`, which points to both)
and the id of its submission; the number of enqueued bytes and the buffer cache;
the dispatcher's `layers_` and `timeouts_`.

*Operations.* `configure_next_read`, `enqueue`, `fetch_more_data`, the two event
handlers, `submit_datagrams` and the completions; the dispatcher's `next_layer`,
`consume`, `produce`, `has_more_data`, `handle_timeout`.

*Hard behaviour.* Pointers into a container whose elements move; completions out of
order; an application that reconfigures the read buffer while a span of it is being
consumed; one application's failure, which removes all.

*What makes it correct.* Each datagram is sent, and consumed, whole, for its own
endpoint and at most once; neither direction starves the other.

### 1.6 The TLS layer — `tls`

A layer between a transport and an application: `encrypt_buf_` holds what the
application enqueues until the handshake is done, two memory BIOs join OpenSSL to
the transport.  *Hard behaviour:* the handshake advances only inside `consume` and
`produce`; messages arrive in parts; data is enqueued before, during and after the
handshake.  *Correct if* plain bytes arrive once and in order, and no side waits for
what the other one holds back.

### 1.7 The parts without an event loop

* `intrusive_ptr`, `ref_counted`: counts of objects that threads share; an object
  is deleted once, after its last reference, also when it travels as a raw pointer.
* `socket_guard` and the `make_*` functions: whatever step fails, the descriptor
  is closed, once.
* `binary_serializer`, `_deserializer`, `serialized_size`: three recursions over
  types that must agree, and a buffer that grows under a span that points into it.
* `cli_parser`: options as prefixes, chained characters, values in three places.
* `config`: scopes by name, types by form, errors in the middle of a file.
* `ip`, `uri`: texts and byte orders on the way into the socket API and back.
* `packet`, `logger`, `error`, `format`, `tls_session`: see section 6.

## 2. The modules

| module | models | role |
|---|---|---|
| `EpollMultiplexer` | `epoll_multiplexer`, `multiplexer_base`, `manager_base`, `acceptor`, `pollset_updater` and the pipe | detailed |
| `MCEpollMultiplexer` | instances for TLC | |
| `EpollMultiplexerProofs` | its theorems | |
| `Alarms` | what `set_timeout()` and `handle_timeouts()` promise | abstract |
| `Timeouts` | `timeout_entry`, `set_timeout`, `handle_timeouts`, the wait of `poll_once` | detailed, implements `Alarms` |
| `MCTimeouts`, `TimeoutsProofs` | instances, theorems | |
| `ByteStream` | what a stream promises in one direction | abstract |
| `StreamTransport` | `stream_transport_base`, `stream_transport<event_handler, ...>` | detailed, implements `ByteStream` twice |
| `MCStreamTransport`, `StreamTransportProofs` | instances, theorems | |
| `DatagramChannel` | what a datagram transport promises in one direction | abstract |
| `DatagramTransport` | both variants of `datagram_transport`, with `datagram_dispatcher` | detailed, implements `DatagramChannel` twice |
| `MCDatagramTransport`, `DatagramProofs` | instances, theorems | |
| `MultiplexerBase` | what the kqueue and io_uring loops share, their peers and other threads | |
| `KqueueMultiplexer`, `UringMultiplexer` | one loop each, with its variants of updater, acceptor and stream transport | detailed, over `MultiplexerBase` |
| `Backends`, `MCBackends` | the two loops side by side: one set of properties for both | composition |
| `BackendsProofs` | theorems about both loops | |
| `TlsLayer` | `tls` on both ends of a connection | detailed, implements `ByteStream` twice |
| `MCTlsLayer`, `TlsLayerProofs` | instances, theorem | |
| `Ownership` | `ref_counted`, `intrusive_ptr` | |
| `SocketGuards` | `socket_guard`, `make_*_socket`, `make_pipe` | |
| `BinaryCodec` | the serializer and the deserializer | |
| `CommandLine`, `ConfigFile`, `Addresses` | `cli_parser`; `config`; `ip`, `uri` and byte order | |
| `Positions` | places in a text or a file, in their order, for these three | |
| `Library`, `MCLibrary` | the six parts without an event loop in one specification | composition |
| `LibraryProofs` | theorems about the six | |
| `DataInduction` | lemmas for proofs about numbers, sums and folds | |

`PROJECT.json` maps each definition to the lines it stands for.

### 2.1 EpollMultiplexer

`mpx` is a record: the fields of the object that matter (`managers_`, the masks,
`running_`, `shutting_down_`, whether `pipe_writer_` is valid) and the set that
epoll keeps (`registered`, `interest`).  The member functions that change them
are operators from records to records: `Mod`, `Add`, `Enable`, `Disable`, `Del`,
`Shutdown` (with `Retire`, its loop over the managers), `HandleResult` (the
lambda of `handle_events`), so that a call nested in a call in the code is an
operator applied to the result of another in the model.  A failed `epoll_ctl` is
remembered in `ctl_ok`.

*Steps of the loop thread.*  `Poll` is one `epoll_wait`: level triggered, at most
`MaxEvents` descriptors, all that are ready if they fit; `Reports` is one that
reports a given descriptor, for the fairness.  Which of the writable
descriptors have room is the kernel's choice.  The `Dispatch...` actions are one
handler call together with the handling of its result; `events` is what is left
of `pollset_`, and `cur` the manager whose write event follows its read event
without another lookup.  `SkipEvent` is the entry of a removed manager.  epoll
reports the entries in any order, so that the loop may take any of them next.
The branch of `handle_events` for a hang-up alone (`epoll_multiplexer.cpp:184`) is no
action: it compares with a value that contains `EPOLLRDHUP`, which epoll reports only to
those who ask for it, and `mod()` asks for `EPOLLIN` and `EPOLLOUT`.

*Other threads.*  `Start` and `AssignThreadId` are the two halves of `start()`,
because `mpx_thread_id_` is stored after the thread has begun to run;
`CallerCheck` and `CallerWrite` are the two halves of `shutdown()` on a foreign
thread, which reads `shutting_down_` and then writes to the pipe.  `fault` says
how the process was lost: `std::terminate()`, `SIGPIPE`, or the use of a
destroyed manager.

*Environment.*  A peer connects, sends portions of data and closes; a connection
in `Echoing` answers what it reads.  Outcomes of a connection's handlers are
those of `stream_transport` (`ok`, `done`, `error`; `temporary_error` is handled
like `ok`).  `Failures` selects the system calls that may fail.

`HandleError` and `AcceptFails` have a branch for a loop that does not know its
thread id yet: `shutdown()` then takes the loop thread for a foreign one.

### 2.2 Timeouts

`now` counts milliseconds, the unit of `epoll_wait`.  `timeouts` and `cached` are
the two ordered sets; `Insert` is `std::set::insert` for an `operator<` that
compares deadlines only.  `handle_timeouts()` is a sequence of steps, `Swap`,
then `Expire` and `HandlerReturns` for each expired entry, then `Finish`, because
the handlers that run in between call `set_timeout()`, and the clock goes on.
`Deadline` keeps the cast to `int`, with `IntRange` for 2^31.  An entry carries
the number of the manager that asked (`owner`, not a member of the code's
`timeout_entry`): the code finds the manager by descriptor, and `Accept` and
`Remove` change who has it.  `fault` is the exception of `managers_.at()`.

### 2.3 StreamTransport

A byte is its position in its stream, so `wire`, what the socket accepted, and
`consumed`, what the application was given, show a byte that is lost, repeated or
reordered.  A member of `queue` is a buffer together with its `iovec`: the memory
that `iov_base` points to, the size of the vector and `iov_len`, three things
that the code keeps in two containers.  `Gathered` is what `sendmsg()` is given,
`RemoveWritten` is `remove_written_data_from_queue()`; a 0 in memory stands for
the byte of a buffer that was cleared.  `phase`, `turn` and `fetches` are the
place in the loops of the two handlers; each read, fetch and write is a step,
between which the peer may send or close; after that, either call may fail for good
(`ReadFails`, `WriteFails`).  `gone` and `failed` are the
transport's removal, by the result of a handler and by an error of `consume()`.
`DisabledBy` says which operation the event loop disables for the result `done`
of either handler: kqueue's disables each handler's own.

### 2.4 DatagramTransport

`driver` says which specialisation is at work.  `memory` is the memory the deque
lives in and `front`, `back` the window of it that the deque is: an element keeps
the slot that its header points to (`hdr`), so that `Erase`, which moves the smaller
part of the deque into the gap as libstdc++ does, leaves headers behind that point
elsewhere.  A popped slot keeps its content: the kernel reads a header only at
`Enter`.  `Filled` is the difference between the drivers' reads: the event loop
appends to what it has received, a `recvmsg()` writes to the start of the buffer.
`ConsumeWith` is what a reconfiguration inside `init()` does to the span being
consumed.  `layers` is a sequence because `produce()` and `has_more_data()` iterate
over a map in an order of its own.  The ring has room for every submission here;
a full one is in `UringMultiplexer`.

### 2.5 MultiplexerBase, KqueueMultiplexer, UringMultiplexer

As in `EpollMultiplexer`, `mpx` is the object, and its member functions are operators
from records to records.  `mpx.queue` is the list for the kernel: changes in the one
case, submissions in the other.  `Changed` is `kevent()` applying a change list,
`Ready` what it may then report; `inflight` are the submissions that the kernel has.
The bytes of the streams are in `StreamTransport`; here a connection has unread
input, an end, and pending output, and a handler comes to any result that
`stream_transport` may return in that state.  `Living` and `Closed` are the reference
counts: a descriptor is free again when nothing refers to its manager.  A behaviour
of `Backends` belongs to one loop.  `RingDepth` is `max_uring_depth`; nothing is
submitted when the queue is full.

### 2.6 TlsLayer

A message of OpenSSL (flight, ticket, record) takes two units of the connection, so
that it may arrive in part.  `flights` is the order of the handshake, which both
sides know; `Handshake` and `Decrypted` are OpenSSL, everything else is the layer.
The transport below offers the bytes it receives in pieces of any size, and asks for
more data as long as it is registered for writing.  The layer's source includes
headers that the library no longer has, so it is modelled from that source and from
its test (`src/test/net/tls.cpp`), and composed with `ByteStream`, not with
`StreamTransport`.

### 2.7 The parts of Library

*Ownership.*  An operation on a pointer is a list of atomic steps (`Ref`, `Deref`,
`Set`), which interleave with those of other threads; only counts are shared.
*SocketGuards.*  `making` is a call of a `make_*` function with the system calls
that remain, each of which may fail.  `GuardAssign` is the move assignment, which
calls itself by way of `std::swap()` (finding below).
*BinaryCodec.*  A type is flat, a tuple or a list; `SizeOf`, `Bytes` and `Read` are
the three recursions, functions over what there is to serialize (`Things`, which has
the members of each thing, too) and over the types; `Realloc` is the growth of the
buffer, and `Deserialize` may read into a container with another room than the one
that was written.
*CommandLine, ConfigFile, Addresses.*  Arguments, lines and texts are sequences of
tokens; matching by prefix, the first of several entries, the byte order and the
delimiters are the code's.  A command line is its first argument, `program`, which
`parse()` drops whatever it is, and the `line` after it.  In a configuration, `history` is
the file that was parsed last and what was added after it, `earlier` what there was before
each of the files, and is gone: `EndFile` assigns, as `config.cpp:131` does.  `BindUdp`
binds to the port with its bytes in the wrong order, or to one that the kernel picks
for port 0.  "The first one found" and "between two delimiters" are said
with sets of positions (`Positions`), the loop over the characters of a short form with
a recursive function (`AfterTurns`), so that they can be reasoned about.

## 3. The runs

All runs finish within two minutes.

| run | question | bounds and preconditions |
|---|---|---|
| `EpollSafety` | Do the object, the masks, the epoll set, the batch and the pipe stay consistent whatever happens? | two descriptors, both connections may answer; two threads that call `shutdown()`, one of them before `start()` has returned; `accept`, `init` and `epoll_wait` may fail; batches of three of the four descriptors |
| `EpollLiveness` | Is one request to shut down carried out safely, and are connections served and removed until then? | one thread, after `start()`; one of two connections answers; two portions of input each; batches of two of the four descriptors; `epoll_wait` may fail |
| `TimeoutsKept` | Do the timeouts implement `Alarms`, and does each expire? | two descriptors, one of whose managers may go; two managers per descriptor; three timeouts; deadlines up to 3; deadlines differ, descriptors with timeouts are not reused |
| `StreamKept` | Does the transport implement `ByteStream` in each direction, and is everything flushed and read? | four policies (two exact ones, two ranges), buffers of one or two bytes, four bytes in, four out and one answer; two reads and two writes per event; the kernel takes buffers whole |
| `DatagramKept` | Does each variant implement `DatagramChannel` in each direction, and does neither direction starve the other? | two endpoints, both drivers, two datagrams in, one produced per application and one answer, one timeout, one failed completion; sends complete in the order of the queue; no policy is larger than the initial one |
| `BackendsKept` | Do the kqueue and the io_uring loop keep the kernel informed, read once at a time, add what is handed over, and end? | both loops, two connections, one of them handed over by a thread, the other with a peer that sends and closes; one failure of `accept`, a read or a write; batches of three; a ring of eight |
| `TlsKept` | Does the layer implement `ByteStream` in each direction, and does everything arrive? | the flights of TLS 1.2 and of TLS 1.3 with one ticket, one byte produced and one enqueued per side, every cut of the stream into reads, either side may reject what it receives |
| `LibraryKept` | Do the parts without an event loop keep what they are given? | two threads, two objects and two pointers each; three descriptors, two guards; five lists of arguments with up to four things in all, of types nested three deep, a buffer of none, one or three bytes before, and every part of the bytes; six options and lines of three arguments; two first arguments; two files one after the other, of two lines and some of eight, an entry added before and after each; endpoints of two octets and three ports, damaged in one token, through five conversions |
| `EpollEchoDisconnect` | finding 1 | connections answer |
| `TimeoutsReused` | finding 2 | reuse of descriptors allowed |
| `StreamShortWrite` | finding 3 | short writes may end anywhere |
| `DatagramMoved` | finding 4 | one endpoint; two sends of which the second completes first |

Why the bounds are enough:

* *Two connections* make one handler remove or keep the other's manager in the
  middle of a batch, and one descriptor be reused while an event of its last owner
  is in the batch.  Three connections add no pair.
* *`MaxEvents`* is 3 in `EpollSafety`, one less than the descriptors, so that a
  batch is sometimes full and sometimes complete (32 in the code); it is 2 in
  `EpollLiveness`, so that the pipe, the acceptor and the connections have to wait for
  their turn.
* *`MaxInput`* bounds unread portions; one distinguishes nothing from something,
  two let a handler read a part.
* *`MaxPipe`* bounds what the loop writes to its own pipe before it knows its thread.
* *`MaxTimeouts` = 3* is an expired entry, one that is pending, and one that the
  handler of the first sets; *`MaxOwners`* is the manager that asked and the next.
* *`IntRange`* is `Horizon` + 1 in `TimeoutsKept`: the longest wait just fits into the
  `int`, and none overflows.  *`MaxParsed`* is one file and a second one after it.
* *`MaxArrived`* and *`MaxProduced`* are, for streams, four bytes against buffers of
  up to three, so that input is received in parts, more than one buffer is queued,
  and `MaxEnqueued` = 3 ends a fetch with data left; *`Word`* is larger than any
  count.  For datagrams, two endpoints with a datagram each are what a dispatcher
  may confuse, and `MaxEnqueued` = 3 ends a fetch in the middle.
* *`RingDepth` = 8* is never filled by two connections, as 32 is not in the code;
  with 2 a resubmission is dropped and `MaskIsArmed` fails (section 5).
* *`MaxFaults`* is one failure: its effects outlive it in what has been submitted,
  and meet everything that may follow.
* *`MaxFrames` = 3* is enough to see that the move assignment does not return.
* *`MaxHops` = 5* is text, endpoint, kernel, endpoint, URI and back to an endpoint.
* *`SizeWidth` = 2* is one byte more than the counts of the instance need.

Deadlock is checked, but for three runs in which the system really stops:
`BackendsKept` after the loop has ended, `TlsKept` when everything has arrived or a
side has gone, and `LibraryKept` when a part has used up its bounds.  (So it is in
`EpollEarlyShutdown.cfg`, where the loop that lost its request waits for ever.)  `Ended` and
`Quiet` are the regular ends of the others: after `join()`, after a fault, and while
a peer that may send need not.

### 3.1 Properties

*Epoll: consistency.*  `PollsetMatches`: epoll and the masks agree and no `epoll_ctl`
fails.  `NoIdleManager`, `PendingIsRegistered`: no manager is left that would
never be reported, and queued output is registered.  `NoHalfClosedPipe`: the loop
never goes back to `epoll_wait` with the writer closed and the reader registered.

*Epoll: lifetime.*  `BorrowedManagerLives` is about the reference that
`handle_events` keeps from the read to the write event; `NoStaleDelivery` about an
event reported for a previous owner of a descriptor.  `NoAcceptAfterShutdown` says
that no step adds a manager once `shutdown()` has run.

*Epoll: shutdown and service.*  `OrderlyShutdownIsSafe`, `ShutdownCompletes`,
`InputServed`, `DisconnectRemovesManager`.  The last two are about connections
that never answer; finding 1 shows the other case.

*Timeouts.*  `SleepsNoLonger`, `NoneLost`, `AlarmsAreKept` (refinement) and
`EveryTimeoutExpires`.

*Streams.*  `RoomToRead`: partial input is not taken for the end of the stream,
because `recv()` of no bytes returns 0.  `QueueMatches`: queue, iovecs and counter
agree with one another and with what is not yet written.  `OutputScheduled`, the
two refinements `OutputInOrder` and `InputInOrder`, and `BothServed`: everything
enqueued is flushed and everything that arrives is read, neither at the cost of the
other.

*Datagrams.*  `QueueMatches`: each datagram is sent or in the queue, the counter is
right, and what the kernel sends for a submission is what its completion erases.
The two refinements `OutputAtMostOnce` and `InputWhole`, and `BothServed`.

*kqueue and io_uring.*  `MaskIsArmed`: each bit of a mask has its filter or its
submission.  `OneReader`: two submissions of one manager never read into its one
buffer.  `ShutdownEndsLoop` and `HandedOverIsAdded` under fairness.

*TLS.*  `PlainInOrder` (two refinements of `ByteStream`) and `EverythingArrives`: the
handshake ends on both sides unless one fails, and all bytes arrive.

*Library.*  `OwnershipKept`, `SocketsOwned`, `RoundTrip`, `OptionsFound` (for command
lines that can be read in one way), `EntriesScoped` and `EndpointKept`: each relates
what a program finds in the end to everything that was done before.  Of a bound socket,
`EndpointKept` says that datagrams arrive which are sent to the port it reports, by the way
through `to_sockaddr_in()`; the port asked for is another matter (`LibraryPort.cfg`).

### 3.2 Fairness

*`EpollMultiplexer`*: the loop thread and the owner of the multiplexer keep
running (`WF` of `Loop` and `Owner`), and a thread between the two halves of
`shutdown()` goes on (`WF` of `CallerWrite`): that is the scheduling of threads.
`Poll` is only enabled when something is ready.  When more descriptors are ready than
fit into a batch, Linux takes them from a list on which those it has reported go to the
end: one that stays readable is reported in the end (`SF` of `Reports`).  Without that,
TLC refutes `ShutdownCompletes` with batches of two: connections keep the pipe out.  Nothing makes a peer connect,
send or close, a thread call `shutdown()`, or a call fail.

*`Timeouts`*: the clock advances and the loop goes on (`WF` of `Tick` and `Loop`).
No event need arrive (`Event` and `Interrupted` have no fairness): a wait ends by
its own timeout.

*`StreamTransport`*: a handler that has started runs to its end (`WF`), and a
descriptor that is reported again and again gets its events handled (`SF` of
`ReadEvent` and `WriteEvent`: both are disabled while the other handler runs, and
the loop handles both events of an entry in turn).  The peer need not send, but
goes on reading, so that the socket becomes writable again; the first `sendmsg()`
of a write event takes something, since epoll and kqueue reported room.

*`DatagramTransport`*: the same, and a socket that returns `EAGAIN` takes a datagram
in the end (`SF` of `Send`, `SendCompletes`); what has been submitted completes.

*`Backends`*: each loop runs on its own thread (`WF`); kqueue reports filters that
are ready in turns, so that the pipe is not left out for ever (`SF` of a `Poll` that
reports it); the kernel completes the read of a pipe that has a message.  No peer,
and no other completion, has to do anything.

*`TlsLayer`*: the loop of each side calls the handlers of what is ready (`WF`); the
connection delivers what has been written, in pieces of any size.

## 4. The proofs

TLAPS proves the following for every value of the constants that satisfies the
assumptions stated in the modules (`EpollAssumption`, `TimeoutsAssumption`,
`StreamAssumption`, `DatagramAssumption`, `BaseAssumption`, `KqueueAssumption`,
`TlsAssumption`, `OwnershipAssumption`, `GuardsAssumption`, `CliAssumption`,
`ConfigAssumption`, `AddressAssumption`, `CodecAssumption`: types of constants, descriptors
that differ, finite sets, octets below 256, values that are of their types) and what the theorem itself assumes.

| theorem | property | assumes |
|---|---|---|
| `TypeCorrect`, `PollsetCorrect`, `OutputRegistered`, `NoManagerIdles`, `BorrowIsSafe`, `PipeNotHalfClosed`, `NoneAcceptedAfterShutdown`, `NoneDeliveredStale` | the eight of `EpollSafety` | any connections, threads and failures |
| `OneRequestIsSafe` | `OrderlyShutdownIsSafe` | one thread asks for the shutdown; only `epoll_wait` fails |
| `TimeoutsTypeCorrect` | `TypeOK` | nothing |
| `NeverOversleeps` | `SleepsNoLonger` | the latest deadline fits into the `int` |
| `NoTimeoutLost` | `NoneLost` | `Distinct` |
| `TimeoutsImplementAlarms` | `AlarmsAreKept` | `Distinct` and no `Reuse` |
| `AlwaysRoomToRead` | `RoomToRead` | every policy asks for no more than its buffer holds, and has a buffer |
| `OutputStaysScheduled` | `OutputScheduled` | a read handler that is done has reading disabled |
| `InputIsByteStream` | `InputInOrder` | nothing |
| `OutputIsByteStream`, `StreamTypeCorrect` | `OutputInOrder`, `TypeOK` | the socket takes whole buffers |
| `QueueStaysMatched` | `QueueMatches` | the same, and the queue is shorter than a `size_t` counts |
| `DatagramQueueMatches`, `DatagramsSentOnce` | `QueueMatches`, `OutputAtMostOnce` | sends complete in their order |
| `DatagramsConsumedWhole` | `InputWhole` | every datagram fits; no `init()` makes the read buffer grow |
| `OneReadAtATime` | `OneReader` | nothing |
| `RingKeepsMasks` | `MaskIsArmed`, io_uring | the submission queue never fills up |
| `ChangesKeepMasks` | `MaskIsArmed`, kqueue | nothing |
| `CountsAreExact` | `OwnershipKept` | no pointer is assigned to itself |
| `PlainIsByteStream` | `PlainInOrder` | nothing |
| `EverySocketIsOwned` | `SocketsOwned` | nothing |
| `OptionsAreFound` | `OptionsFound` | nothing |
| `EntriesAreScoped` | `EntriesScoped` | nothing |
| `EndpointIsKept` | `EndpointKept` | nothing |
| `ValuesRoundTrip` | `RoundTrip` | nothing |

Every loop disables reading for a read handler that is done.  The other assumptions the
code does not guarantee: they say under which use of it a property holds.  Short
writes inside a buffer and sends out of order are findings 3 and 4; two requests for shutdown, a failing `accept`, equal deadlines and reused
descriptors have configurations that TLC refutes; section 5 has a full ring, a policy
without a buffer, a growing read buffer and the assignment of a pointer to itself.

**The event loop.**  None of the properties is inductive: whether `epoll_ctl` can
fail depends on `registered` = `managers`, whether a manager may be removed on its
mask, and so on.  `Sound(m)` collects what every member function needs of the
object and leaves behind; there is a lemma per operator (`AddSound`, `EnableSound`,
`DelSound`, `DisableSound`, `ResultSound`, `ShutdownSound`) that also says what
happens to managers, masks and flags, as the code's functions would document it.
`IInv` adds what ties the object to the rest: `EventsMatch` (a write event is for a
connection that is registered for writing, the borrowed manager exists and its
write event is still to come, and until the acceptor has gone every entry of the
batch has its manager, which is what keeps stale events from a new owner),
`ShutdownKnowsThread` (only a loop that knows its id has shut down), and
`NoHalfClosedPipe`.  Each action preserves `IInv` by the lemmas of the operators it
calls, in the order of the calls.  `SafeInv` adds `Undisturbed`: as long as nobody has
asked for the shutdown, the pipe is open at both ends and empty, and no event is about
it.  That is what the only caller finds when it writes to the pipe.

**Timeouts.**  `TInv` says that outside `handle_timeouts()` the cached set is empty
and `current_timeout_` is no later than any deadline (`CurrentCovers`); that
pending deadlines differ and the two sets are disjoint (`DeadlinesDiffer`, under
`Distinct`); and that the descriptor of an entry has the manager that asked or
none (`NotReused`, without `Reuse`).  `CurrentCovers` and the arithmetic of the
cast give `NeverOversleeps`; `DeadlinesDiffer` makes the `insert` of `Finish` keep
every entry (`InsertAll`), and disjointness makes an expired entry leave
`Living(timeouts \cup cached)`, hence `NoTimeoutLost` and the refinement, one lemma
for each action of `Alarms`.

**Streams.**  `InInv` says that consumed and received bytes together are the bytes
taken, in order; `GotFacts` is the effect of one read.  The read buffer has room
because it is handed over as soon as it holds the minimum, which is no more than
its size.  For the output, `OutInv` says that the buffers of the queue form a `Chain`
of pieces of the stream, of which the first begins where the wire ends and the last
ends where the application is; `remove_written_data_from_queue()` takes pieces from
the front, as many as the socket took.  `Counted` is the counter, `Bounded` the rest of
`TypeOK`.

**Datagrams.**  The deque is a window of memory slots.  `QueueInv` says that the window
holds what was enqueued and not yet sent, in that order, with each header in its own
slot; `RingInv`, that each submission of a write has an element of its own, known by
its identifier, and that what the kernel holds is that element's datagram; `AppInv`
and `DriverInv` are about the applications and about handlers and ring, which do not
mix.  When sends complete in their order, only the first element is ever erased, and no
element moves away from its header: that is where the proof needs the assumption, and
where `DatagramMoved` shows the code to need it.  For the input, `InputInv` adds that
the buffer is empty between two reads and has room for every policy.

**TLS.**  What lies between the `encrypt_buf_` of one side and the `consume()` of the
other is a sequence of units: in the `rbio_` of the receiver, on the connection, and
enqueued below the sender (`Pending`).  `Way` says what it consists of: first as many
messages without data as there are flights that the receiver has not taken (`Flew`),
then messages with or without data that `Carries` the stream from the byte after the
last one delivered to the one before the first in `encrypt_buf_`.  The receiver is never
ahead of the flights that were sent (`Behind`), and before a side is done with the
handshake nothing follows its flights, so that no data is taken for a flight and no
flight for data.  A read may cut anywhere: `Pending` does not change when units move from
one place to the next, and OpenSSL uses whole messages only.  Once the receiver
has failed, nothing is said about its way any more; `delivered` stands still from then on.
Each step of the layer is then a step of one of the two streams or of neither.

**io_uring.**  `OneReader` is kept by `Orderly`: among the submissions in the queue and
in the kernel, each manager reads once at most; and, which makes it inductive, a
connection that waits in the pipe is there once and has no submission of any kind,
so that enabling it after `add()` makes the only one.  `Armed(m, f, X)` says that
each bit of a mask has its submission, except for the pairs `X` that a completion has
taken and the handler's result is about to submit again.

**kqueue.**  `MaskIsArmed` speaks of the last entry about a filter, and that is not
inductive: an entry that enables a filter is worth nothing unless it exists by then.
`Kept` says instead what comes of the list of changes: applied one by one to the
filters the kernel has, the entries leave each filter of a manager in existence, and on
if the mask has its operation.  `Makes(q, v, h, op, w)` is one filter's way through the
list, from v to w (`Course` lists its states); each operation appends entries to the
list, and a lemma per operation (`KqueueAddKept`, ... `KqueueShutdownKept`) says what it
makes of `Kept`.

**Pointers.**  The count of an object differs from its references while operations are
under way.  `OwnershipInv` looks at where the pointers will point when the steps that
remain have been taken (`EndsAs`): the count, with the references that are still to be
counted, is that of pointers and raw pointers, with those still to be given up
(`Balanced`); an object lives as long as its count is positive (`Lives`); and
who is about to count a reference has another one that lasts until then (`Backed`).
`Backed` is what fails when a pointer is assigned to itself.

**Sockets.**  `SocketsOwned` alone is not inductive: a failing step must have a socket
to close, and a move assignment must find no descriptors on the stack already.
`GuardsInv` adds both; `InStored` and `InDropped` say what one changed guard does to
the set of guarded descriptors, and that no two guards share one.

**Command line.**  `SoFar(options, line, parsed, n)` says of every option that it is
contained exactly if one of the first n arguments names it, with the values given there;
`CliInv` says that this holds for the arguments that are no longer in `args`.  It speaks
of lines that can be read in one way, as `OptionsFound` does, and needs that no two
options are the same (`Opts`), so that the first one found is the only one (`LongIs`,
`ShortIs`).  `Turned` is the invariant of the loop over the characters of a short form,
and `OneNamed` is where an ambiguous line would break it: an option with a value is named
once in its argument, and the rest is the value.  The number of options, three in the
assumption because the code's set orders them by `not_equal_to`, does not matter to the
proof.

**Configuration.**  The code keeps a stack of names and cuts it at each brace;
`EntriesScoped` names the scopes of a line as those that were opened before it and are
not closed in between.  `Nested` joins the two: from the line of an open scope on, as
many scopes have been opened as were closed, and those still open.  Hence a brace closes
the last of them (`CloseLast`), and `prefix` is the list of the names around the line
(`ScopesStep`).  `Holds` says that a dictionary has the first entry of each
key it has met, which `emplace` and `merge` preserve.

**Addresses.**  `Became` says for each form what the thing has to do with the text at the
start: an endpoint's text is the origin, a `sockaddr` is one of such an endpoint, a URI's
text is composed of the origin and the given words, and after an error the origin is the
text of no endpoint.  `EndpointIsText` and `TextIsEndpoint` say that the parser is the
inverse of the printer and accepts nothing else.  `split` finds exactly the delimiters
(`PartsOf`): neither an endpoint nor a word contains one, so that scheme, authority, path,
queries and fragments are cut where they were joined (`SchemeCut`, `HeadAndParts`).
The port of a bound socket is not 0, and swapping its bytes twice gives it back
(`BoundToPort`, `SwapTwice`).

**Serializer.**  The three recursions of the code run over types, and agree only because
each of them visits the members in the same order.  A type has a depth, above those of the
types inside it, and everything about the recursions is by induction over it: that
their equations have a solution (`StructuralExists`), hence that `SizeOf`, `Bytes` and
`Read` are what the equations say (`SizeOfFacts`, `BytesFacts`, `ReadFacts`); that the size
computed first is the number of bytes written (`SizeIsLength`), which is why the buffer
is never overrun; and that reading a thing's bytes gives the thing and leaves what follows,
or throws if they are not all there (`ThingReads`: `Agrees` allows a prefix).  A
count is read as it was written because it fits into its bytes (`CountIsRead`).  The
invariant `CodecInv` puts this together: the bytes of what has been written lie one
after the other before the free space (`Placed`), whatever the buffer was and however it
has grown, and the reader stands at the end of one of them (`Reading`).  `CodecAssumption`
says that types are nested to some depth, that a value has the shape of its type, and
that the number of its elements fits into a count: what the C++ types give.

**Data.**  `DataInduction` has the induction these proofs use.  The library's induction
theorems take a predicate, which cannot be instantiated here; a set of
numbers that contains 0 and each successor (`Inductive`) can.  A recursive
function of the library is what satisfies its equation: lemmas about sums
(`MapThenSumSet`) and folds over finite sets give a solution and show that there is no
other, and `FoldKeeps` carries a relation from element to element of a fold, such as
the loop of `shutdown()` over the managers.

*Model-checked only.*  Liveness (`ShutdownCompletes`, `InputServed`,
`DisconnectRemovesManager`, `EveryTimeoutExpires`, `BothServed`, `ShutdownEndsLoop`,
`HandedOverIsAdded`, `EverythingArrives`), which needs fairness and ENABLED: every other
property of a passing run has a theorem.  The configurations and findings in which a
property fails.

## 5. Findings

Each of the first four is a run that TLC refutes, with the line of the sources that
says otherwise (`PROJECT.json`, "findings").

1. The result of `handle_write_event()` is handled as that of a read
   (`epoll_multiplexer.cpp:203`): a connection that has answered never reads again
   and is never removed.
2. A timeout names a descriptor (`multiplexer_base.cpp:123`): after reuse it goes to
   the wrong manager.
3. A short write inside a buffer does not shorten its `iovec` and is counted
   against the buffers behind it (`stream_transport.hpp:154`).
4. `write_queue_.erase()` in the middle moves elements whose headers then point to
   other slots (`datagram_transport.hpp:198`): when the second of three sends
   completes first, one datagram is sent twice and another never.

Configurations that are kept for further properties the code does not have:

* `EpollTwoShutdowns.cfg`: two threads call `shutdown()` at about the same time; the
  second writes to a closed pipe, and `std::terminate()` is called
  (`multiplexer_base.cpp:77`).
* `EpollAcceptFails.cfg`: `accept()` fails for good; `handle_error()` destroys the
  acceptor inside its own handler, which is then used (`acceptor.cpp:53`).
* `EpollDrain.cfg`: `del(iterator)` tests `has_managers()` without the negation
  (`epoll_multiplexer.cpp:112`); a graceful shutdown drops queued output.
* `EpollEarlyShutdown.cfg`: `mpx_thread_id_` is stored too late
  (`multiplexer_base.cpp:33`); a request served in between is lost, and the loop never
  ends.
* `TimeoutsEqual.cfg`: two timeouts with equal deadlines are one for `std::set`
  (`timeout_entry.hpp:61`); the second is dropped.
* `LibraryReplaces.cfg`: a doc that the code does not follow.  `config.hpp:60` says of
  `parse()` that it "Parses a configuration file and adds entries to this instance";
  `config.cpp:131` assigns, and the entries of an earlier file and those added by hand
  are gone (`EntriesAdded`).  `EntriesScoped` takes neither side: it asks nothing of the
  earlier entries.
* `LibraryPort.cfg`: "The port number to bind to (0 for automatic assignment)", says
  `udp_datagram_socket.hpp:39`; `make_udp_datagram_socket` passes `htons(port)` to
  `bind()`, which swaps the bytes again (`udp_datagram_socket.cpp:37`): who asks for 80
  gets 20480, and is told so (`BoundAsAsked`).
* `LibraryFirstArgument.cfg`: `cli_parser.hpp:115` says of the argument of
  `parse(arg_span)` "typically argv without program name"; `cli_parser.cpp:70` takes the
  first argument for the name of the program, and an option there is lost (`FirstParsed`).

Each is checked with `tlc -config X.cfg` and `MCEpollMultiplexer`, `MCTimeouts` or
`MCLibrary`.

Seen in the code while it was modelled, and not given a run of their own:

* *epoll.*  "manager not found! This should never happen!"
  (`epoll_multiplexer.cpp:192`) happens whenever `shutdown()` removes a manager that has
  an entry later in the batch; it is `SkipEvent`, and harmless.
* *Timeouts.*  With no new owner of the descriptor, `managers_.at()` throws on the loop
  thread (`multiplexer_base.cpp:123`); it is `fault` in `Timeouts`, and the excuse in
  `EveryTimeoutExpires`.  A deadline more than 2^31 milliseconds ahead is cast to a
  negative `int` or wraps (`epoll_multiplexer.cpp:152`); hence the assumption of
  `NeverOversleeps`.
* *Streams.*  `receive_policy::stop()` leaves a buffer of no bytes, for which `recv()`
  returns 0, the end of the stream (`receive_policy.hpp:56`); hence `PoliciesFit`.
  `configure_next_read()` drops input received in part (`stream_transport.hpp:83`); the
  model calls it where nothing is received in part.
* *Datagrams.*  An application that returns `done` from `produce()` when it has nothing
  keeps the ones behind it from being asked: `BothServed` fails with `IdleProduce` =
  "done".  A read buffer that has to grow in the `init()` of a new application is
  freed under the span to be consumed: `InputWhole` fails when `InitialPolicies` is
  smaller than `Policies`.  The failure of one application removes all of them.
* *kqueue.*  An entry with `EV_EOF` for a connection that is gone removes the manager
  that has the descriptor now (`kqueue_multiplexer.cpp:240`), and any removes its
  manager before unread input is read.  `disable(read_accept)` becomes a change of
  filter 0, which fails, and failed changes are returned alone.
* *io_uring.*  A full submission queue drops the resubmission of a handler: with
  `RingDepth` = 2, `MaskIsArmed` fails.  A shutdown ends the loop at once, with output
  pending.  After an error taken for a temporary one, the operation is disabled
  although a poll for it has been submitted.  `tv_nsec` is assigned twice and
  `tv_sec` never (`uring_multiplexer.cpp:297`).
* *TLS.*  The result of `next_layer_.consume()` is ignored (`tls.hpp:127`); the alert
  for the other side stays in `wbio_` when OpenSSL fails (`tls.hpp:246`); nobody calls
  `SSL_shutdown`, so that a truncated stream looks like a complete one.
* *Pointers and guards.*  Assigning an `intrusive_ptr` with the only reference to
  itself deletes the object (`SelfAssigns` = TRUE violates `OwnershipKept`).  The move
  assignment of a `socket_guard` swaps by way of `std::swap()`, which assigns by move:
  it never returns, and owns its descriptors on the way (`AssignAgain`).
* *Command line and configuration.*  An option without a long form matches every long
  name; the rest of a short option's value is parsed as options (both excluded by
  `Unambiguous`).  A `}` without a scope is undefined (`crashed`); negative numbers and
  exponents become strings; the first of several entries counts.
* *Addresses.*  The `string_view`s of a copied `uri` refer to the
  original's text.

## 6. What is not modelled

*Packets* (`packet/*`): header layouts, which no target of the build uses.
*TLS session and context* (`openssl/*`, `transport_adaptor.hpp`): every line is
commented out.  *Logging, errors, formatting:* text and values without state.

Of the modelled parts, the modules leave out:

* the waits of the kqueue and io_uring loops and their system calls' own failures,
  completions that are cancelled, and what a multishot accept leaves behind;
* the buffer cache of the stream transport, and buffers of no bytes;
* the bytes that the io_uring variant of the stream transport moves;
* comparison, hashing and conversions to numbers that the standard library does.

Kernel, OpenSSL and peers are external actions, as far as `src/` relies on them.  The
C++ memory model is not modelled: an access is one step, except where two halves of an
operation on different threads are steps of their own.

## 7. The plan

*Done:* the epoll loop, timeouts, streams and datagrams, the kqueue and io_uring loops, the
TLS layer, pointers and sockets, the serializer, command line, configuration and addresses,
all with their theorems; the dispatcher.

*Next, in this order:*

1. A `Reactor`, the abstract specification of a loop (a manager is added, served,
   removed, and not served after that), implemented by all three.
2. The waits of the other loops, over `Alarms`; a multishot accept that ends.
