--------------------------- MODULE MultiplexerBase ---------------------------
(***************************************************************************)
(* The part of multiplexer_base that its kqueue and io_uring backends      *)
(* share.  Both collect what they want of the kernel in a list (the change *)
(* list, the submission queue) that the kernel gets with the next          *)
(* poll_once(); a backend's module says what it does with the list.        *)
(*                                                                         *)
(* `mpx` is the object.  Its member functions are operators from records   *)
(* to records, so that nested calls are nested operators.  The threads     *)
(* that hand over managers and ask for the shutdown are in the environment.*)
(***************************************************************************)
EXTENDS Integers, Sequences, FiniteSetsExt, SequencesExt

CONSTANTS
    Backends,      \* "kqueue", "uring": the backends to look at
    Conn,          \* the descriptors of connections
    Updater,       \* pipe_reader_, owned by the pollset_updater
    Acceptor,      \* the listening socket, owned by the acceptor
    HandedOver,    \* the connections that another thread may add()
    Talking,       \* the connections whose peers send and close
    RingDepth,     \* max_uring_depth
    MayFail,       \* the calls that may fail: "accept", "read", "write"
    MaxInput,      \* bound: unread portions of data on a connection
    MaxFaults      \* bound: failures

ASSUME BaseAssumption ==
    /\ Backends \subseteq {"kqueue", "uring"} /\ Backends # {}
    /\ Updater # Acceptor /\ Updater \notin Conn /\ Acceptor \notin Conn
    /\ IsFiniteSet(Conn) /\ HandedOver \subseteq Conn /\ Talking \subseteq Conn
    /\ MayFail \subseteq {"accept", "read", "write"}
    /\ RingDepth \in Nat \ {0} /\ MaxInput \in Nat \ {0} /\ MaxFaults \in Nat

Handle == Conn \cup {Updater, Acceptor}

VARIABLES
    backend,   \* the backend at work
    mpx,       \* the multiplexer object
    pipe,      \* messages: a descriptor to add, or "shutdown"
    asked,     \* somebody has called shutdown()
    exited,    \* run() has left its loop
    backlog,   \* connections that wait to be accepted
    conn,      \* unread input, end of stream and queued output
    faults     \* failures so far

baseVars == <<backend, mpx, pipe, asked, exited, backlog, conn, faults>>

Fresh == [input |-> 0, hup |-> FALSE, pending |-> FALSE]

Blank ==
    [managers |-> {},                       \* managers_
     mask |-> [h \in Handle |-> {}],        \* mask_ of each manager
     running |-> TRUE, shutting_down |-> FALSE,
     queue |-> <<>>]                        \* what the kernel is to be told

BaseInit ==
    /\ backend \in Backends
    /\ pipe = <<>> /\ asked = FALSE /\ exited = FALSE
    /\ backlog = 0 /\ conn = [c \in Conn |-> Fresh] /\ faults = 0

-----------------------------------------------------------------------------
(* add() and manager() of the base: a manager is known by its descriptor.   *)
BaseAdd(m, h) == [m EXCEPT !.managers = @ \cup {h}, !.mask[h] = {}]
HasManager(m, h) == h \in m.managers

(* del(socket) and del(iterator) of the base. *)
BaseDel(m, h) == [m EXCEPT !.managers = @ \ {h}]

(* The loop of shutdown() takes reading and accepting from every manager    *)
(* but the updater, and removes those that have nothing else to do.         *)
Others(m) == m.managers \ {Updater}

ShutdownMask(m) ==
    [h \in Handle |-> IF h \in Others(m) THEN m.mask[h] \ {"read", "accept"}
                      ELSE m.mask[h]]

Retired(m) == {h \in Others(m) : ShutdownMask(m)[h] = {}}

BaseShutdown(m) ==
    [m EXCEPT !.shutting_down = TRUE, !.mask = ShutdownMask(m),
              !.managers = @ \ Retired(m)]

(* A connection lasts as long as its manager: the destructor closes it.     *)
Closed(live, cs) == [c \in Conn |-> IF c \in live THEN cs[c] ELSE Fresh]

(* The managers that the messages in the pipe hold. *)
InPipe == ToSet(pipe) \cap Conn

-----------------------------------------------------------------------------
(* The environment: peers and other threads.                                *)

Listening == ~exited /\ Acceptor \in mpx.managers

(* A connection that waits has a descriptor left for it. *)
PeerConnect(live) ==
    /\ Listening /\ backlog = 0 /\ Conn \ live # {}
    /\ backlog' = 1
    /\ UNCHANGED <<backend, mpx, pipe, asked, exited, conn, faults>>

PeerSend(c) ==
    /\ ~exited /\ c \in mpx.managers \cap Talking /\ ~conn[c].hup
    /\ conn[c].input < MaxInput
    /\ conn' = [conn EXCEPT ![c].input = @ + 1]
    /\ UNCHANGED <<backend, mpx, pipe, asked, exited, backlog, faults>>

PeerClose(c) ==
    /\ ~exited /\ c \in mpx.managers \cap Talking /\ ~conn[c].hup
    /\ conn' = [conn EXCEPT ![c].hup = TRUE]
    /\ UNCHANGED <<backend, mpx, pipe, asked, exited, backlog, faults>>

(* shutdown() on another thread. *)
RequestShutdown ==
    /\ ~asked /\ ~exited /\ ~mpx.shutting_down
    /\ asked' = TRUE
    /\ pipe' = Append(pipe, "shutdown")
    /\ UNCHANGED <<backend, mpx, exited, backlog, conn, faults>>

(* add() on another thread: the message takes over a reference. *)
HandOver(c, live) ==
    /\ ~exited /\ ~mpx.shutting_down
    /\ c \in HandedOver \ live
    /\ backlog > 0 => Conn \ live # {c}
    /\ pipe' = Append(pipe, c)
    /\ UNCHANGED <<backend, mpx, asked, exited, backlog, conn, faults>>

(* run() leaves its loop. *)
LoopExit ==
    /\ ~exited /\ ~mpx.running
    /\ exited' = TRUE
    /\ UNCHANGED <<backend, mpx, pipe, asked, backlog, conn, faults>>

(* What reading from a connection can come to; input has to be there for it *)
(* unless the peer has closed.  An answer is queued along with it.          *)
ReadOutcome(c) ==
    {[res |-> "ok", left |-> n, answers |-> a] :
       n \in 0..(conn[c].input - 1), a \in BOOLEAN}
    \cup (IF conn[c].input > 0 THEN {[res |-> "error", left |-> 0, answers |-> FALSE]}
          ELSE IF conn[c].hup THEN {[res |-> "done", left |-> 0, answers |-> FALSE]}
          ELSE {})
=============================================================================
