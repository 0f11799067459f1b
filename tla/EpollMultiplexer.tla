-------------------------- MODULE EpollMultiplexer --------------------------
(***************************************************************************)
(* The event loop of net::detail::epoll_multiplexer on top of              *)
(* multiplexer_base: the managers it owns, the epoll set in the kernel,    *)
(* the pipe through which other threads ask it to shut down, and the       *)
(* threads that start it, ask it to shut down and join it.                 *)
(*                                                                         *)
(* `mpx` is the object and its epoll set; each C++ member function that    *)
(* changes it is an operator from records to records, so that nested calls *)
(* are nested operators.  The steps of the loop thread are one epoll_wait, *)
(* and one handler call together with the handling of its result.          *)
(***************************************************************************)
EXTENDS Integers, FiniteSets

CONSTANTS
    Conn,          \* the file descriptors that accept() may return
    Pipe,          \* pipe_reader_, owned by the pollset_updater
    Acceptor,      \* the listening socket, owned by the acceptor
    None,          \* no manager is borrowed
    Callers,       \* the threads that call shutdown()
    EarlyCallers,  \* those that may do so before start() has returned
    Echoing,       \* connections whose handler answers what it reads
    Failures,      \* the system calls that may fail
    MaxEvents,     \* max_events, the size of pollset_
    MaxInput,      \* bound: unread portions of data on a connection
    MaxPipe        \* bound: messages the loop writes to its own pipe

ASSUME EpollAssumption ==
    /\ Pipe # Acceptor /\ Pipe \notin Conn /\ Acceptor \notin Conn
    /\ None \notin Conn \cup {Pipe, Acceptor}
    /\ IsFiniteSet(Conn)
    /\ EarlyCallers \subseteq Callers
    /\ Echoing \subseteq Conn
    /\ Failures \subseteq {"accept", "init", "poll"}
    /\ MaxEvents \in Nat \ {0} /\ MaxInput \in Nat \ {0} /\ MaxPipe \in Nat \ {0}

Handle == Conn \cup {Pipe, Acceptor}

Operation == {"read", "write", "accept"}

Flag == {"IN", "OUT"}

VARIABLES
    mpx,       \* the multiplexer object and the epoll set, see Multiplexer
    phase,     \* the loop thread: "unborn", "loop", "exited"
    owner,     \* the thread that calls start() and join()
    id_set,    \* mpx_thread_id_ holds the id of the loop thread
    caller,    \* the progress of each call to shutdown() from outside
    events,    \* the part of pollset_ that handle_events has not yet handled
    cur,       \* the manager between its read and its write event, or None
    pipe,      \* shutdown messages in the pipe
    fault,     \* how the process was lost, or "none"
    backlog,   \* connections that wait to be accepted
    conn       \* unread input, end of stream and queued output by descriptor

vars == <<mpx, phase, owner, id_set, caller, events, cur, pipe, fault,
          backlog, conn>>

loopVars == <<mpx, events, cur, pipe, fault>>

-----------------------------------------------------------------------------
(* The state of the object: managers_, the masks of the managers, what     *)
(* epoll was told about each descriptor, and the flags of multiplexer_base. *)

Multiplexer ==
    [managers : SUBSET Handle, mask : [Handle -> SUBSET Operation],
     registered : SUBSET Handle, interest : [Handle -> SUBSET Flag],
     running : BOOLEAN, shutting_down : BOOLEAN,
     writer : BOOLEAN,      \* pipe_writer_ is a valid descriptor
     ctl_ok : BOOLEAN]      \* no epoll_ctl has failed

Blank ==
    [managers |-> {}, mask |-> [h \in Handle |-> {}],
     registered |-> {}, interest |-> [h \in Handle |-> {}],
     running |-> FALSE, shutting_down |-> FALSE,
     writer |-> TRUE, ctl_ok |-> TRUE]

Connection == [input : 0..MaxInput, hup : BOOLEAN, pending : BOOLEAN]

Fresh == [input |-> 0, hup |-> FALSE, pending |-> FALSE]

(* Mutant: the mask goes to epoll as it is. *)
RawMask(ops) == ops

(* The lambda to_epoll_flag of mod(): a mask with any other bit maps to 0.  *)
ToEpollFlag(ops) ==
    (IF ops \subseteq {"read", "write"} /\ "read" \in ops THEN {"IN"} ELSE {})
    \cup
    (IF ops \subseteq {"read", "write"} /\ "write" \in ops THEN {"OUT"} ELSE {})

(* EPOLL_CTL_ADD of a registered descriptor and EPOLL_CTL_MOD or _DEL of an *)
(* unregistered one fail and leave the set alone.                           *)
Mod(m, h, ctl, ops) ==
    IF ctl = "ADD" <=> h \in m.registered
    THEN [m EXCEPT !.ctl_ok = FALSE]
    ELSE IF ctl = "DEL"
    THEN [m EXCEPT !.registered = @ \ {h}, !.interest[h] = {}]
    ELSE [m EXCEPT !.registered = @ \cup {h}, !.interest[h] = ToEpollFlag(ops)]

(* add() up to the call of mgr->init(), which the callers model. *)
Add(m, h, initial) ==
    LET masked == [m EXCEPT !.mask[h] = initial]
    IN  [Mod(masked, h, "ADD", initial) EXCEPT !.managers = @ \cup {h}]

Enable(m, h, op) ==
    IF op \in m.mask[h] THEN m
    ELSE LET masked == [m EXCEPT !.mask[h] = @ \cup {op}]
         IN  Mod(masked, h, "MOD", masked.mask[h])

(* del(socket).  A removed manager has no mask any more. *)
Del(m, h) ==
    LET gone == [Mod(m, h, "DEL", {}) EXCEPT !.managers = @ \ {h},
                                             !.mask[h] = {}]
    IN  [gone EXCEPT !.running = @ /\ ~(m.shutting_down /\ gone.managers = {})]

(* Mutants: epoll is not told; a manager without operations is kept. *)
DisableUntold(m, h, ops, remove) ==
    LET masked == [m EXCEPT !.mask[h] = @ \ ops]
    IN  IF m.mask[h] \cap ops = {} THEN m
        ELSE IF remove /\ masked.mask[h] = {} THEN Del(masked, h) ELSE masked

DisableKeeps(m, h, ops, remove) ==
    IF m.mask[h] \cap ops = {} THEN m
    ELSE Mod([m EXCEPT !.mask[h] = @ \ ops], h, "MOD", m.mask[h] \ ops)

Disable(m, h, ops, remove) ==
    IF m.mask[h] \cap ops = {} THEN m
    ELSE LET masked == [m EXCEPT !.mask[h] = @ \ ops]
             told   == Mod(masked, h, "MOD", masked.mask[h])
         IN  IF remove /\ masked.mask[h] = {} THEN Del(told, h) ELSE told

(* The loop of shutdown(): disable `ops` on `others` and remove those that  *)
(* have no operation left; then close the writer.                           *)
Retire(m, others, ops) ==
    LET mask == [h \in Handle |-> IF h \in others THEN m.mask[h] \ ops
                                  ELSE m.mask[h]]
        gone == {h \in others : mask[h] = {}}
    IN  [m EXCEPT
           !.shutting_down = TRUE,
           !.managers   = @ \ gone,
           !.mask       = mask,
           !.registered = @ \ gone,
           !.interest   = [h \in Handle |-> IF h \in others
                                            THEN ToEpollFlag(mask[h])
                                            ELSE m.interest[h]],
           !.writer     = FALSE,
           !.ctl_ok     = @ /\ others \subseteq m.registered]

(* Mutants: the acceptor, registered for "read", is overlooked, or skipped; *)
(* del(it) does not stop the loop while managers are left.                  *)
ShutdownAcceptOnly(m) == Retire(m, m.managers \ {Pipe}, {"accept"})
ShutdownSkipsAcceptor(m) ==
    Retire(m, m.managers \ {Pipe, Acceptor}, {"read", "accept"})
ShutdownKeepsRunning(m) == Retire(m, m.managers \ {Pipe}, {"read", "accept"})

(* shutdown() on the loop thread.  Each del(it) in it stops the loop if     *)
(* managers are left after it: one does, unless nothing is removed or the   *)
(* removed manager was the only one.                                        *)
Shutdown(m) ==
    LET retired == Retire(m, m.managers \ {Pipe}, {"read", "accept"})
        gone    == m.managers \ retired.managers
    IN  [retired EXCEPT !.running = @ /\ \A h \in gone : m.managers = {h}]

(* Mutants: "done" removes the manager at once; "ok" disarms it. *)
HandleResultRemoves(m, h, res, op) ==
    IF res \in {"done", "error"} THEN Del(m, h) ELSE m
HandleResultOneShot(m, h, res, op) ==
    IF res = "error" THEN Del(m, h) ELSE Disable(m, h, {op}, res = "done")

(* The lambda handle_result of handle_events(). *)
HandleResult(m, h, res, op) ==
    CASE res = "done"  -> Disable(m, h, {op}, TRUE)
      [] res = "error" -> Del(m, h)
      [] OTHER         -> m

(* A connection lives as long as its manager: the destructor closes it. *)
Alive(m, cs) == [c \in Conn |-> IF c \in m.managers THEN cs[c] ELSE Fresh]

-----------------------------------------------------------------------------
(* Init is the state init() leaves behind; set_thread_id() at its end       *)
(* clears mpx_thread_id_.                                                   *)
Init ==
    /\ mpx = Add(Add(Blank, Pipe, {"read"}), Acceptor, {"read"})
    /\ phase = "unborn" /\ owner = "idle" /\ id_set = FALSE
    /\ caller = [t \in Callers |-> "idle"]
    /\ events = [h \in Handle |-> {}] /\ cur = None
    /\ pipe = 0 /\ fault = "none"
    /\ backlog = 0 /\ conn = [c \in Conn |-> Fresh]

(* The process is alive. *)
Up == fault = "none"

BatchDone == cur = None /\ \A h \in Handle : events[h] = {}

-----------------------------------------------------------------------------
(* The peers.                                                               *)

(* No more peers at a time than descriptors, so that accept() finds one. *)
PeerConnect ==
    /\ Up /\ backlog + Cardinality(mpx.managers \cap Conn) < Cardinality(Conn)
    /\ Acceptor \in mpx.managers
    /\ backlog' = backlog + 1
    /\ UNCHANGED <<loopVars, phase, owner, id_set, caller, conn>>

PeerSend(c) ==
    /\ Up /\ c \in mpx.managers /\ ~conn[c].hup /\ conn[c].input < MaxInput
    /\ conn' = [conn EXCEPT ![c].input = @ + 1]
    /\ UNCHANGED <<loopVars, phase, owner, id_set, caller, backlog>>

PeerClose(c) ==
    /\ Up /\ c \in mpx.managers /\ ~conn[c].hup
    /\ conn' = [conn EXCEPT ![c].hup = TRUE]
    /\ UNCHANGED <<loopVars, phase, owner, id_set, caller, backlog>>

-----------------------------------------------------------------------------
(* The owner: start() stores the id only after the thread runs.             *)

Start ==
    /\ Up /\ owner = "idle" /\ ~mpx.running
    /\ mpx' = [mpx EXCEPT !.running = TRUE]
    /\ phase' = "loop" /\ owner' = "starting"
    /\ UNCHANGED <<id_set, caller, events, cur, pipe, fault, backlog, conn>>

AssignThreadId ==
    /\ Up /\ owner = "starting"
    /\ owner' = "started" /\ id_set' = TRUE
    /\ UNCHANGED <<loopVars, phase, caller, backlog, conn>>

Join ==
    /\ Up /\ owner = "started" /\ phase = "exited"
    /\ owner' = "joined"
    /\ UNCHANGED <<loopVars, phase, id_set, caller, backlog, conn>>

-----------------------------------------------------------------------------
(* shutdown() on another thread: it reads shutting_down_, then writes.      *)

CallerCheck(t) ==
    /\ Up /\ caller[t] = "idle"
    /\ owner \in {"started", "joined"} \/ t \in EarlyCallers
    /\ caller' = [caller EXCEPT ![t] = IF mpx.shutting_down THEN "done"
                                       ELSE "checked"]
    /\ UNCHANGED <<loopVars, phase, owner, id_set, backlog, conn>>

(* write_to_pipe(): an invalid pipe_writer_ ends in std::terminate(), a     *)
(* pipe nobody can read any more raises SIGPIPE.                            *)
WriteToPipe(m) ==
    IF ~m.writer THEN fault' = "terminate" /\ UNCHANGED pipe
    ELSE IF Pipe \notin m.managers THEN fault' = "sigpipe" /\ UNCHANGED pipe
    ELSE pipe' = pipe + 1 /\ UNCHANGED fault

CallerWrite(t) ==
    /\ Up /\ caller[t] = "checked"
    /\ caller' = [caller EXCEPT ![t] = "done"]
    /\ WriteToPipe(mpx)
    /\ UNCHANGED <<mpx, events, cur, phase, owner, id_set, backlog, conn>>

-----------------------------------------------------------------------------
(* The loop thread: run() and poll_once().                                  *)

Readable(h) ==
    CASE h = Pipe     -> pipe > 0
      [] h = Acceptor -> backlog > 0
      [] OTHER        -> conn[h].input > 0 \/ conn[h].hup

(* epoll_wait is level triggered and reports at most MaxEvents descriptors. *)
(* Input is always reported, room for output when the kernel has it.        *)
Poll ==
    /\ Up /\ phase = "loop" /\ BatchDone /\ mpx.running
    /\ \E writable \in SUBSET {h \in mpx.registered : "OUT" \in mpx.interest[h]} :
         LET readable == {h \in mpx.registered :
                            "IN" \in mpx.interest[h] /\ Readable(h)}
             ready    == readable \cup writable
         IN  \E batch \in SUBSET ready :
               /\ batch # {} /\ Cardinality(batch) <= MaxEvents
               /\ batch = ready \/ Cardinality(batch) = MaxEvents
               /\ events' = [h \in Handle |->
                               {f \in Flag : /\ h \in batch
                                             /\ f = "IN"  => h \in readable
                                             /\ f = "OUT" => h \in writable}]
    /\ UNCHANGED <<mpx, cur, pipe, fault, phase, owner, id_set, caller,
                   backlog, conn>>

(* Mutant: the failure is handled like any other, by shutdown(). *)
PollErrorShutsDown ==
    /\ "poll" \in Failures
    /\ Up /\ phase = "loop" /\ BatchDone /\ mpx.running
    /\ mpx' = Shutdown(mpx) /\ conn' = Alive(mpx', conn)
    /\ UNCHANGED <<events, cur, pipe, fault, phase, owner, id_set, caller,
                   backlog>>

(* epoll_wait fails with anything but EINTR: run() leaves its loop. *)
PollError ==
    /\ "poll" \in Failures
    /\ Up /\ phase = "loop" /\ BatchDone /\ mpx.running
    /\ mpx' = [mpx EXCEPT !.running = FALSE]
    /\ UNCHANGED <<events, cur, pipe, fault, phase, owner, id_set, caller,
                   backlog, conn>>

LoopExit ==
    /\ Up /\ phase = "loop" /\ BatchDone /\ ~mpx.running
    /\ phase' = "exited"
    /\ UNCHANGED <<loopVars, owner, id_set, caller, backlog, conn>>

(* handle_events() looks the manager up; the entry of a removed one is      *)
(* skipped.  (Its branch for a hang-up alone compares with EPOLLRDHUP set,  *)
(* which mod() never asks for: it is not taken.)                            *)
Found(h, flag) ==
    /\ Up /\ phase = "loop" /\ cur = None
    /\ flag \in events[h] /\ h \in mpx.managers

SkipEvent(h) ==
    /\ Up /\ phase = "loop" /\ cur = None
    /\ events[h] # {} /\ h \notin mpx.managers
    /\ events' = [events EXCEPT ![h] = {}]
    /\ UNCHANGED <<mpx, cur, pipe, fault, phase, owner, id_set, caller,
                   backlog, conn>>

(* What a connection's handle_read_event can come back with: it reads some  *)
(* of the input or all of it, meets the end of the stream, or fails.        *)
ReadOutcome(c) ==
    {[res |-> "ok", left |-> n] : n \in 0..(conn[c].input - 1)}
    \cup {[res |-> "error", left |-> 0]}
    \cup (IF conn[c].hup THEN {[res |-> "done", left |-> 0]} ELSE {})

(* Mutant: the wrong operation is enabled. *)
AnswerReads(m, c) == Enable(m, c, "read")

(* enqueue() of a transport: queue the answer, then register_writing(). *)
Answer(m, c) == Enable(m, c, "write")

DispatchRead(c) ==
    /\ Found(c, "IN")
    /\ \E out \in ReadOutcome(c), answers \in BOOLEAN :
         /\ answers => c \in Echoing /\ conn[c].input > 0
         /\ mpx' = HandleResult(IF answers THEN Answer(mpx, c) ELSE mpx,
                                c, out.res, "read")
         /\ conn' = Alive(mpx', [conn EXCEPT ![c].input = out.left,
                                             ![c].pending = @ \/ answers])
         /\ events' = [events EXCEPT ![c] = IF out.res = "error" THEN {}
                                            ELSE @ \ {"IN"}]
         /\ cur' = IF "OUT" \in events'[c] THEN c ELSE None
    /\ UNCHANGED <<pipe, fault, phase, owner, id_set, caller, backlog>>

(* The result of handle_write_event is handled with operation::read. *)
WriteResult(m, c, res) == HandleResult(m, c, res, "read")

(* handle_write_event flushes what is queued, some of it or none of it, or  *)
(* fails once the peer is gone; with nothing queued it is done at once.     *)
DispatchWrite(c) ==
    /\ Up
    /\ cur = c \/ (Found(c, "OUT") /\ "IN" \notin events[c])
    /\ \E res \in {"done"} \cup (IF conn[c].pending THEN {"ok"} ELSE {})
                           \cup (IF conn[c].hup THEN {"error"} ELSE {}) :
         /\ mpx' = WriteResult(mpx, c, res)
         /\ conn' = Alive(mpx', [conn EXCEPT ![c].pending = @ /\ res = "ok"])
    /\ events' = [events EXCEPT ![c] = {}]
    /\ cur' = None
    /\ UNCHANGED <<pipe, fault, phase, owner, id_set, caller, backlog>>

(* pollset_updater: shutdown(), then the result "done" removes the updater  *)
(* and closes the pipe.  Without the thread id shutdown() only writes to    *)
(* the pipe that is about to be closed.                                     *)
DispatchPipe ==
    /\ Found(Pipe, "IN")
    /\ mpx' = HandleResult(IF id_set THEN Shutdown(mpx) ELSE mpx,
                           Pipe, "done", "read")
    /\ pipe' = 0
    /\ conn' = Alive(mpx', conn)
    /\ events' = [events EXCEPT ![Pipe] = {}]
    /\ UNCHANGED <<cur, fault, phase, owner, id_set, caller, backlog>>

(* handle_error() on the loop thread is shutdown(). *)
HandleError(m) ==
    IF id_set THEN mpx' = Shutdown(m) /\ UNCHANGED <<pipe, fault>>
    ELSE /\ mpx' = m
         /\ IF m.shutting_down THEN UNCHANGED <<pipe, fault>>
            ELSE WriteToPipe(m)

AcceptStep ==
    /\ Found(Acceptor, "IN")
    /\ events' = [events EXCEPT ![Acceptor] = {}]
    /\ backlog' = backlog - 1
    /\ conn' = Alive(mpx', conn)
    /\ UNCHANGED <<cur, phase, owner, id_set, caller>>

DispatchAccept ==
    /\ \E c \in Conn \ mpx.managers : mpx' = Add(mpx, c, {"read"})
    /\ AcceptStep
    /\ UNCHANGED <<pipe, fault>>

(* The peer is gone before accept(), which fails temporarily. *)
AcceptAborted ==
    /\ UNCHANGED <<mpx, pipe, fault>>
    /\ AcceptStep

(* mgr->init() of the new manager fails: add() calls handle_error(). *)
AcceptInitFails ==
    /\ "init" \in Failures /\ (id_set \/ pipe < MaxPipe)
    /\ \E c \in Conn \ mpx.managers : HandleError(Add(mpx, c, {"read"}))
    /\ AcceptStep

(* accept() fails for good: handle_error() on the loop thread removes the   *)
(* acceptor, whose handler then returns "error" and is used once more for   *)
(* del(mgr.handle()).                                                       *)
AcceptFails ==
    /\ "accept" \in Failures
    /\ IF id_set
       THEN mpx' = Shutdown(mpx) /\ fault' = "use_after_free" /\ UNCHANGED pipe
       ELSE mpx' = Del(mpx, Acceptor) /\ WriteToPipe(mpx)
    /\ AcceptStep

-----------------------------------------------------------------------------
Peers == \/ PeerConnect
         \/ \E c \in Conn : PeerSend(c) \/ PeerClose(c)

Owner == Start \/ AssignThreadId \/ Join

Caller(t) == CallerCheck(t) \/ CallerWrite(t)

Dispatch == \/ \E h \in Handle : SkipEvent(h)
            \/ \E c \in Conn : DispatchRead(c) \/ DispatchWrite(c)
            \/ DispatchPipe
            \/ DispatchAccept \/ AcceptAborted \/ AcceptInitFails \/ AcceptFails

Loop == Poll \/ LoopExit \/ Dispatch

(* The program ends after join(), or is lost with a fault. *)
Ended ==
    /\ \/ owner = "joined" /\ \A t \in Callers : caller[t] = "done"
       \/ fault # "none"
    /\ UNCHANGED vars

Next ==
    \/ Peers \/ Owner \/ Loop \/ PollError
    \/ \E t \in Callers : Caller(t)
    \/ Ended

(* A wait reports that h can be read. *)
Reports(h) == Poll /\ "IN" \in events'[h]

(* The loop and the owner keep running, and a call to shutdown() that has   *)
(* begun goes on.  When more descriptors are ready than fit, epoll_wait     *)
(* takes them in turn: one that stays readable is reported in the end.      *)
(* Nobody has to call shutdown(), connect, send or close.                   *)
Spec ==
    /\ Init /\ [][Next]_vars
    /\ WF_vars(Loop) /\ WF_vars(Owner)
    /\ \A h \in Handle : SF_vars(Reports(h))
    /\ \A t \in Callers : WF_vars(CallerWrite(t))

-----------------------------------------------------------------------------
(* Properties.                                                              *)

(* The state of the object, of the threads and of the kernel is well        *)
(* formed; in particular epoll only ever hears of flags it knows.           *)
TypeOK ==
    /\ mpx \in Multiplexer
    /\ phase \in {"unborn", "loop", "exited"}
    /\ owner \in {"idle", "starting", "started", "joined"}
    /\ id_set \in BOOLEAN
    /\ caller \in [Callers -> {"idle", "checked", "done"}]
    /\ events \in [Handle -> SUBSET Flag]
    /\ cur \in Conn \cup {None}
    /\ pipe \in Nat
    /\ fault \in {"none", "terminate", "sigpipe", "use_after_free"}
    /\ backlog \in Int
    /\ conn \in [Conn -> Connection]

(* managers_, the masks of the managers and the epoll set agree after every *)
(* handler: a descriptor is registered iff it has a manager, for exactly    *)
(* the operations of its mask, and no epoll_ctl ever failed.                *)
PollsetMatches ==
    /\ mpx.ctl_ok
    /\ mpx.registered = mpx.managers
    /\ \A h \in mpx.managers : mpx.interest[h] = ToEpollFlag(mpx.mask[h])

(* enqueue() registers for writing and nothing takes that away while output *)
(* is queued: neither the result of a read, nor shutdown().                 *)
PendingIsRegistered ==
    \A c \in Conn : conn[c].pending => "write" \in mpx.mask[c]

(* No manager lingers that epoll would never report: whenever the last      *)
(* operation of a manager is disabled, the manager is removed with it.      *)
NoIdleManager == \A h \in mpx.managers : mpx.mask[h] # {}

(* The reference `*mgr` that handle_events holds from the read event to the *)
(* write event of one entry is to a manager that still exists.              *)
BorrowedManagerLives == cur # None => cur \in mpx.managers

(* While the loop can go back to epoll_wait the pipe is open at both ends   *)
(* or known to be closed at both: it never waits for requests on a pipe     *)
(* whose writer shutdown() closed, which epoll would report for ever.       *)
NoHalfClosedPipe ==
    mpx.running /\ Pipe \in mpx.managers => mpx.writer

(* shutdown() "stops accepting new connections": once it has run, managers  *)
(* are only ever removed, the acceptor's own later events included.         *)
NoAcceptAfterShutdown ==
    [][mpx.shutting_down => mpx'.managers \subseteq mpx.managers]_vars

(* A manager that is added never receives an event that epoll reported for  *)
(* an earlier owner of the same descriptor.                                 *)
NoStaleDelivery ==
    [][\A h \in mpx'.managers \ mpx.managers : events'[h] = {}]_vars

(* One request to shut down, made once start() has returned, never brings   *)
(* the process down, even when epoll_wait fails meanwhile.                  *)
OrderlyShutdownIsSafe == fault = "none"

(* A request to shut down is carried out: the loop ends and join() returns. *)
ShutdownCompletes ==
    \A t \in Callers : caller[t] = "done" ~> owner = "joined"

(* A connection that never writes and whose receive buffer is full is read  *)
(* from or removed, as long as the loop runs: no other connection's events, *)
(* and no others of the same batch, starve it.                              *)
InputServed ==
    \A c \in Conn \ Echoing :
        conn[c].input = MaxInput ~> conn[c].input < MaxInput \/ phase = "exited"

(* A manager that never writes is removed once its peer has disconnected,   *)
(* or with the loop.                                                        *)
Removed(c) == conn[c].hup ~> c \notin mpx.managers \/ phase = "exited"

DisconnectRemovesManager == \A c \in Conn \ Echoing : Removed(c)

-----------------------------------------------------------------------------
(* Claims of the sources that the code does not keep.                       *)

(* A graceful shutdown never ends in std::terminate(). *)
NeverTerminates == fault # "terminate"

(* No handler runs on a manager that has been destroyed. *)
NoUseAfterFree == fault # "use_after_free"

(* A manager that has answered is removed once its peer has disconnected.   *)
EchoDisconnectRemovesManager == \A c \in Conn : Removed(c)

(* Output queued before a graceful shutdown is written before the loop ends. *)
DrainedBeforeExit ==
    phase = "exited" => \A c \in Conn : ~conn[c].pending
=============================================================================
