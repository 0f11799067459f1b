------------------------------- MODULE Alarms -------------------------------
(***************************************************************************)
(* What set_timeout() and handle_timeouts() of multiplexer_base promise: a *)
(* clock, and a set of alarms.  An alarm that a manager asks for stays     *)
(* pending until it goes off, once and not before its time, or until its   *)
(* manager is gone.                                                        *)
(***************************************************************************)
EXTENDS Integers, Sequences

CONSTANTS
    Handle,   \* the descriptors of the managers
    Owner,    \* the numbers of the managers that share a descriptor
    Time      \* the times an alarm can be set to

VARIABLES
    now,      \* the time
    next,     \* the identifier of the next alarm
    pending,  \* the alarms of living managers that have not gone off
    fired     \* the alarms that went off, in order

alarmVars == <<now, next, pending, fired>>

Init == now = 0 /\ next = 0 /\ pending = {} /\ fired = <<>>

Tick == /\ now' > now
        /\ UNCHANGED <<next, pending, fired>>

Request ==
    /\ \E handle \in Handle, owner \in Owner, when \in Time :
         pending' = pending \cup {[handle |-> handle, owner |-> owner,
                                   when |-> when, id |-> next]}
    /\ next' = next + 1
    /\ UNCHANGED <<now, fired>>

Fire ==
    /\ \E a \in pending : /\ a.when <= now
                          /\ pending' = pending \ {a}
                          /\ fired' = Append(fired, a)
    /\ UNCHANGED <<now, next>>

Cancel ==
    /\ \E a \in pending : pending' = {b \in pending : b.handle # a.handle}
    /\ UNCHANGED <<now, next, fired>>

Next == Tick \/ Request \/ Fire \/ Cancel

Spec == Init /\ [][Next]_alarmVars
=============================================================================
