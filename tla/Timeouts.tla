------------------------------ MODULE Timeouts ------------------------------
(***************************************************************************)
(* The timeouts of multiplexer_base: the ordered sets timeouts_ and        *)
(* cached_timeouts_, the deadline current_timeout_ that poll_once() sleeps *)
(* until, and the managers, found by descriptor when a timeout expires.    *)
(* One tick of the clock is a millisecond, the unit of epoll_wait.         *)
(***************************************************************************)
EXTENDS Integers, Sequences, FiniteSets

CONSTANTS
    Handle,       \* the descriptors that can have a manager
    Removable,    \* those whose manager may go while it has timeouts
    MaxOwners,    \* bound: managers that share a descriptor one after another
    MaxTimeouts,  \* bound: calls of set_timeout()
    Horizon,      \* bound: the latest deadline
    IntRange,     \* the non-negative values of an int, 2^31 in the code
    Distinct,     \* no two pending timeouts have the same deadline
    Reuse,        \* a descriptor is used again while it has timeouts
    NoTime        \* no deadline, or no end of a wait

ASSUME TimeoutsAssumption ==
    /\ Removable \subseteq Handle
    /\ MaxOwners \in Nat \ {0} /\ MaxTimeouts \in Nat /\ Horizon \in Nat
    /\ IntRange \in Nat \ {0} /\ NoTime \notin Nat
    /\ Distinct \in BOOLEAN /\ Reuse \in BOOLEAN

VARIABLES
    now,       \* steady_clock::now()
    timeouts,  \* timeouts_
    cached,    \* cached_timeouts_; the iterator is at its first entry
    current,   \* current_timeout_
    next_id,   \* current_timeout_id_
    manager,   \* the number of the manager that has a descriptor, or 0
    born,      \* managers a descriptor has had so far
    phase,     \* "events", "waiting", "timeouts" or "handler"
    running,   \* the descriptor of the manager whose handle_timeout() runs
    until,     \* when epoll_wait times out
    fired,     \* the entries that expired, with the manager that was called
    fault      \* "none", or the exception that ended the process

vars == <<now, timeouts, cached, current, next_id, manager, born, phase,
          running, until, fired, fault>>

loopVars == <<phase, running, until, fired, fault>>

-----------------------------------------------------------------------------
(* `owner` is not a member of timeout_entry: it remembers who asked.        *)
Entry == [handle : Handle, owner : 1..MaxOwners, when : 0..Horizon, id : Nat]

First(e, S) == e \in S /\ \A f \in S : e.when <= f.when

(* std::set<timeout_entry>::insert: entries with equal deadlines are equal  *)
(* for operator<, and the one that is in the set stays.                     *)
Insert(S, new) == S \cup {e \in new : \A f \in S : f.when # e.when}

(* static_cast<int> of the milliseconds that are left, for epoll_wait: what *)
(* does not fit wraps, and a negative timeout never ends the wait.          *)
Deadline(t) ==
    LET left == IF t <= now THEN 0 ELSE t - now
        ms   == left % (2 * IntRange)
    IN  IF ms < IntRange THEN now + ms ELSE NoTime

(* Mutants: the deadline is not brought forward, or never set again; the    *)
(* iterator stays, or runs to the end; operator[] in place of at().         *)
Later(t, when) == IF t = NoTime THEN when ELSE t
Forgotten(S, t) == t = NoTime
NotPassed(S, e) == S
AllPassed(S, e) == {}
NeverMissing(h) == FALSE

(* begin()->when() of an ordered set, if there is one. *)
Earliest(S, t) == IF S = {} THEN t = NoTime
                  ELSE \E e \in S : First(e, S) /\ t = e.when

(* current_timeout_ after set_timeout(). *)
Sooner(t, when) == IF t = NoTime \/ when < t THEN when ELSE t

(* The iterator of handle_timeouts() moves on. *)
Passed(S, e) == S \ {e}

(* managers_.at() finds nothing. *)
Missing(h) == manager[h] = 0

-----------------------------------------------------------------------------
Init ==
    /\ now = 0 /\ timeouts = {} /\ cached = {} /\ current = NoTime
    /\ next_id = 0
    /\ manager = [h \in Handle |-> 1] /\ born = [h \in Handle |-> 1]
    /\ phase = "events" /\ running \in Handle /\ until = NoTime
    /\ fired = <<>> /\ fault = "none"

Up == fault = "none"

(* The clock goes on whatever the loop does. *)
Tick ==
    /\ Up /\ now < Horizon
    /\ now' = now + 1
    /\ UNCHANGED <<timeouts, cached, current, next_id, manager, born, loopVars>>

(* A handler of the manager of h is running. *)
InHandler(h) ==
    /\ manager[h] # 0
    /\ phase = "events" \/ (phase = "handler" /\ running = h)

SetTimeout(h, when) ==
    /\ Up /\ InHandler(h) /\ next_id < MaxTimeouts
    /\ Distinct => \A e \in timeouts \cup cached : e.when # when
    /\ timeouts' = Insert(timeouts, {[handle |-> h, owner |-> manager[h],
                                      when |-> when, id |-> next_id]})
    /\ current' = Sooner(current, when)
    /\ next_id' = next_id + 1
    /\ UNCHANGED <<now, cached, manager, born, loopVars>>

-----------------------------------------------------------------------------
(* The managers, between the handlers of one batch of events.               *)

Accept(h) ==
    /\ Up /\ phase = "events" /\ manager[h] = 0 /\ born[h] < MaxOwners
    /\ Reuse \/ \A e \in timeouts \cup cached : e.handle # h
    /\ born' = [born EXCEPT ![h] = @ + 1]
    /\ manager' = [manager EXCEPT ![h] = born'[h]]
    /\ UNCHANGED <<now, timeouts, cached, current, next_id, loopVars>>

(* del() takes no notice of the timeouts of the manager. *)
Remove(h) ==
    /\ Up /\ phase = "events" /\ manager[h] # 0 /\ h \in Removable
    /\ manager' = [manager EXCEPT ![h] = 0]
    /\ UNCHANGED <<now, timeouts, cached, current, next_id, born, loopVars>>

-----------------------------------------------------------------------------
(* The loop thread: poll_once().                                            *)

Wait ==
    /\ Up /\ phase = "events"
    /\ phase' = "waiting"
    /\ until' = IF current = NoTime THEN NoTime ELSE Deadline(current)
    /\ UNCHANGED <<now, timeouts, cached, current, next_id, manager, born,
                   running, fired, fault>>

(* EINTR, while epoll_wait sleeps: poll_once() returns, and run() calls it  *)
(* again.                                                                   *)
Interrupted ==
    /\ Up /\ phase = "waiting"
    /\ until # NoTime => now < until
    /\ phase' = "events" /\ until' = NoTime
    /\ UNCHANGED <<now, timeouts, cached, current, next_id, manager, born,
                   running, fired, fault>>

(* epoll_wait returns, and handle_timeouts() swaps the two sets. *)
Swap ==
    /\ Up /\ phase = "waiting"
    /\ phase' = "timeouts" /\ until' = NoTime
    /\ cached' = timeouts /\ timeouts' = cached
    /\ UNCHANGED <<now, current, next_id, manager, born, running, fired, fault>>

Event == Swap

TimedOut == until # NoTime /\ until <= now /\ Swap

(* The first entry has expired: its handler is called on the manager that   *)
(* has the descriptor now; managers_.at() throws if there is none.          *)
Expire ==
    /\ Up /\ phase = "timeouts"
    /\ \E e \in cached :
         /\ First(e, cached) /\ e.when <= now
         /\ IF Missing(e.handle)
            THEN fault' = "out_of_range" /\ UNCHANGED <<cached, fired, phase, running>>
            ELSE /\ fired' = Append(fired, [e EXCEPT !.owner = manager[e.handle]])
                 /\ cached' = Passed(cached, e)
                 /\ phase' = "handler" /\ running' = e.handle
                 /\ UNCHANGED fault
    /\ UNCHANGED <<now, timeouts, current, next_id, manager, born, until>>

HandlerReturns ==
    /\ Up /\ phase = "handler"
    /\ phase' = "timeouts"
    /\ UNCHANGED <<now, timeouts, cached, current, next_id, manager, born,
                   running, until, fired, fault>>

(* The first entry has not expired: the rest goes back into timeouts_.      *)
Finish ==
    /\ Up /\ phase = "timeouts" /\ \A e \in cached : e.when > now
    /\ timeouts' = Insert(timeouts, cached)
    /\ cached' = {}
    /\ Earliest(timeouts', current')
    /\ phase' = "events"
    /\ UNCHANGED <<now, next_id, manager, born, running, until, fired, fault>>

-----------------------------------------------------------------------------
Handlers ==
    \E h \in Handle : \/ Accept(h) \/ Remove(h)
                      \/ \E when \in now..Horizon : SetTimeout(h, when)

Loop == Wait \/ TimedOut \/ Expire \/ HandlerReturns \/ Finish

(* The process was ended by an exception. *)
Ended == fault # "none" /\ UNCHANGED vars

Next == Tick \/ Handlers \/ Loop \/ Event \/ Interrupted \/ Ended

(* Time passes and the loop goes on.  No event need ever arrive. *)
Spec == Init /\ [][Next]_vars /\ WF_vars(Tick) /\ WF_vars(Loop)

-----------------------------------------------------------------------------
(* Properties.                                                              *)

(* The sets, the clock and the managers are well formed. *)
TypeOK ==
    /\ now \in 0..Horizon
    /\ timeouts \in SUBSET Entry /\ cached \in SUBSET Entry
    /\ current \in 0..Horizon \cup {NoTime}
    /\ next_id \in Nat
    /\ manager \in [Handle -> 0..MaxOwners] /\ born \in [Handle -> 1..MaxOwners]
    /\ phase \in {"events", "waiting", "timeouts", "handler"}
    /\ running \in Handle
    /\ until \in Nat \cup {NoTime}
    /\ fired \in Seq(Entry)
    /\ fault \in {"none", "out_of_range"}

(* The loop never sleeps past a deadline: it would end its wait at the      *)
(* first one that is still to come, or at once if one has passed.           *)
SleepsNoLonger ==
    phase = "waiting" => \A e \in timeouts :
        until # NoTime /\ until <= IF e.when > now THEN e.when ELSE now

(* Whatever set_timeout() returned an identifier for is in one of the sets  *)
(* or has expired.                                                          *)
NoneLost ==
    \A i \in 0..(next_id - 1) :
        \/ \E e \in timeouts \cup cached : e.id = i
        \/ \E k \in 1..Len(fired) : fired[k].id = i

(* Refinement: alarms go off once, in time, for the manager that asked.     *)
Living(S) == {e \in S : manager[e.handle] = e.owner}

Clock == INSTANCE Alarms WITH
             Owner <- 1..MaxOwners, Time <- 0..Horizon,
             next <- next_id, pending <- Living(timeouts \cup cached)

AlarmsAreKept == Clock!Spec

(* Every timeout expires, also those that a handler of a timeout sets, and  *)
(* however many events keep the loop busy, unless the process ends before.  *)
EveryTimeoutExpires ==
    \A i \in 0..(MaxTimeouts - 1) :
        next_id > i ~> \/ \E k \in 1..Len(fired) : fired[k].id = i
                       \/ fault # "none"

-----------------------------------------------------------------------------
(* A claim of the sources that the code does not keep.                       *)

(* The manager that is called is the one that asked for the timeout. *)
RightManagerCalled ==
    [][fired' # fired => fired'[Len(fired')] \in cached]_vars
=============================================================================
