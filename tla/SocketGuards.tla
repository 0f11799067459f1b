---------------------------- MODULE SocketGuards ----------------------------
(***************************************************************************)
(* net::socket_guard, and the functions that make sockets under its        *)
(* protection: whatever step fails, the guard closes what has been opened. *)
(***************************************************************************)
EXTENDS Integers, Sequences

CONSTANTS
    Fd,         \* the descriptors
    Guards,     \* the guards a program has
    None,       \* invalid_socket
    MaxFrames   \* bound: the calls the stack has room for

ASSUME GuardsAssumption ==
    None \notin Fd /\ MaxFrames \in Nat

VARIABLES
    open,      \* the descriptors that are open
    held,      \* those the program holds without a guard
    guard,     \* sock_ of each guard
    making,    \* the call of a make function: the steps left, and its socket
    frames,    \* the calls of a move assignment on the stack
    stacked    \* the descriptors in their local variables

guardVars == <<open, held, guard, making, frames, stacked>>

GuardsInit ==
    /\ open = {} /\ held = {} /\ guard = [g \in Guards |-> None]
    /\ making = [steps |-> <<>>, sock |-> None]
    /\ frames = 0 /\ stacked = {}

-----------------------------------------------------------------------------
(* The system calls after socket() of make_tcp_accept_socket(),             *)
(* make_connected_tcp_stream_socket() and make_udp_datagram_socket().  The  *)
(* second turns port 0 down before socket(): nothing changes then.          *)
Steps == {<<"bind", "listen", "port_of">>, <<"connect">>, <<"bind", "port_of">>}

Free == Fd \ open

Running == frames = 0

Create ==
    /\ Running /\ making.sock = None
    /\ \E d \in Free, steps \in Steps :
         making' = [steps |-> steps, sock |-> d] /\ open' = open \cup {d}
    /\ UNCHANGED <<held, guard, frames, stacked>>

(* Two that need no guard: make_stream_socket_pair() and make_pipe(). *)
CreatePair ==
    /\ Running /\ making.sock = None
    /\ \E d, e \in Free :
         /\ d # e
         /\ open' = open \cup {d, e} /\ held' = held \cup {d, e}
    /\ UNCHANGED <<guard, making, frames, stacked>>

StepSucceeds ==
    /\ Running /\ making.steps # <<>>
    /\ making' = [making EXCEPT !.steps = Tail(@)]
    /\ UNCHANGED <<open, held, guard, frames, stacked>>

(* Mutant: the guard is released before the step is known to have worked. *)
FailsReleased == open

(* The guard of a call that fails closes the socket. *)
Fails == open \ {making.sock}

StepFails ==
    /\ Running /\ making.steps # <<>>
    /\ open' = Fails
    /\ making' = [steps |-> <<>>, sock |-> None]
    /\ UNCHANGED <<held, guard, frames, stacked>>

(* return guard.release(). *)
Made ==
    /\ Running /\ making.sock # None /\ making.steps = <<>>
    /\ held' = held \cup {making.sock}
    /\ making' = [steps |-> <<>>, sock |-> None]
    /\ UNCHANGED <<open, guard, frames, stacked>>

-----------------------------------------------------------------------------
(* close() of what is not invalid_socket. *)
Without(d) == IF d = None THEN open ELSE open \ {d}

CloseHeld ==
    /\ Running
    /\ \E d \in held : held' = held \ {d} /\ open' = Without(d)
    /\ UNCHANGED <<guard, making, frames, stacked>>

(* make_socket_guard(), reset(sock) and operator=(Socket). *)
GuardReset(g) ==
    /\ Running
    /\ \E d \in held :
         /\ held' = held \ {d} /\ open' = Without(guard[g])
         /\ guard' = [guard EXCEPT ![g] = d]
    /\ UNCHANGED <<making, frames, stacked>>

(* reset() and the destructor. *)
GuardDrop(g) ==
    /\ Running /\ guard[g] # None
    /\ open' = Without(guard[g]) /\ guard' = [guard EXCEPT ![g] = None]
    /\ UNCHANGED <<held, making, frames, stacked>>

GuardRelease(g) ==
    /\ Running /\ guard[g] # None
    /\ held' = held \cup {guard[g]} /\ guard' = [guard EXCEPT ![g] = None]
    /\ UNCHANGED <<open, making, frames, stacked>>

(* The move constructor, of a guard that did not exist. *)
GuardMove(g, h) ==
    /\ Running /\ guard[g] = None /\ guard[h] # None
    /\ guard' = [guard EXCEPT ![g] = guard[h], ![h] = None]
    /\ UNCHANGED <<open, held, making, frames, stacked>>

(* The move assignment moves its operand into tmp and swaps the guard with  *)
(* tmp; std::swap() moves the guard into a temporary of its own and assigns *)
(* tmp to the guard: the same operator is called again.                     *)
GuardAssign(g, h) ==
    /\ Running /\ g # h
    /\ frames' = 1 /\ stacked' = {guard[g], guard[h]} \ {None}
    /\ guard' = [guard EXCEPT ![g] = None, ![h] = None]
    /\ UNCHANGED <<open, held, making>>

AssignAgain ==
    /\ frames \in 1..(MaxFrames - 1)
    /\ frames' = frames + 1
    /\ UNCHANGED <<open, held, guard, making, stacked>>

GuardsNext ==
    \/ Create \/ CreatePair \/ StepSucceeds \/ StepFails \/ Made \/ CloseHeld
    \/ AssignAgain
    \/ \E g \in Guards : GuardReset(g) \/ GuardDrop(g) \/ GuardRelease(g)
    \/ \E g, h \in Guards : GuardMove(g, h) \/ GuardAssign(g, h)

GuardsSpec == GuardsInit /\ [][GuardsNext]_guardVars

-----------------------------------------------------------------------------
(* Properties.                                                              *)

(* Every open descriptor has exactly one owner, the program, a guard or a   *)
(* function at work, and nobody owns a descriptor that has been closed:     *)
(* none leaks, and none is closed twice or after it has been used again.    *)
Guarded == {guard[g] : g \in Guards} \ {None}
AtWork == {making.sock} \ {None}

SocketsOwned ==
    /\ open = held \cup Guarded \cup AtWork \cup stacked
    /\ held \cap Guarded = {} /\ held \cap AtWork = {} /\ held \cap stacked = {}
    /\ Guarded \cap AtWork = {} /\ Guarded \cap stacked = {} /\ AtWork \cap stacked = {}
    /\ \A g, h \in Guards : guard[g] = guard[h] /\ g # h => guard[g] = None
=============================================================================
