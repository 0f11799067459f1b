--------------------------- MODULE TimeoutsProofs ---------------------------
(***************************************************************************)
(* Proofs about Timeouts for any number of descriptors, managers and       *)
(* timeouts.  TInv relates the two ordered sets, current_timeout_ and the  *)
(* phase of the loop; the theorems say under which conditions on the       *)
(* program (deadlines that fit into an int, different deadlines, no reuse  *)
(* of descriptors) it keeps what its documentation promises.               *)
(***************************************************************************)
EXTENDS Timeouts, TLAPS

(* Outside handle_timeouts() the cached set is empty and current_timeout_   *)
(* is no later than any pending deadline.                                   *)
CurrentCovers ==
    phase \in {"events", "waiting"} =>
        /\ cached = {}
        /\ \A e \in timeouts : current # NoTime /\ current <= e.when

(* No two pending entries have the same deadline: operator< tells them      *)
(* apart, and none of them is in both sets.                                 *)
DeadlinesDiffer ==
    Distinct => /\ timeouts \cap cached = {}
                /\ \A e, f \in timeouts \cup cached : e.when = f.when => e = f

(* The descriptor of a pending entry has the manager that asked, or none.   *)
NotReused ==
    ~Reuse => \A e \in timeouts \cup cached :
                  manager[e.handle] = 0 \/ manager[e.handle] = e.owner

TInv == TypeOK /\ CurrentCovers /\ DeadlinesDiffer /\ NotReused

-----------------------------------------------------------------------------
LEMMA InsertType ==
  ASSUME NEW S \in SUBSET Entry, NEW T \in SUBSET Entry
  PROVE  /\ Insert(S, T) \in SUBSET Entry
         /\ S \subseteq Insert(S, T) /\ Insert(S, T) \subseteq S \cup T
  BY DEF Insert

(* std::set::insert keeps every entry when no two deadlines are equal.      *)
LEMMA InsertAll ==
  ASSUME NEW S, NEW T,
         \A e, f \in S \cup T : e.when = f.when => e = f
  PROVE  Insert(S, T) = S \cup T
<1>1. \A e \in T : e \in Insert(S, T)
  <2> SUFFICES ASSUME NEW e \in T, e \notin S PROVE \A f \in S : f.when # e.when
    BY DEF Insert
  <2> QED
    OBVIOUS
<1>2. Insert(S, T) \subseteq S \cup T /\ S \subseteq Insert(S, T)
  BY DEF Insert
<1> QED
  BY <1>1, <1>2

(* A number below the modulus is its own remainder. *)
LEMMA SmallModulus ==
  ASSUME NEW a \in Nat, NEW b \in Nat, a < b
  PROVE  a % b = a
  OBVIOUS

(* A time that fits into an int ends the wait at the deadline. *)
LEMMA DeadlineFits ==
  ASSUME now \in Nat, NEW t \in Nat, t < IntRange
  PROVE  Deadline(t) = IF t <= now THEN now ELSE t
<1> DEFINE rest == IF t <= now THEN 0 ELSE t - now
<1>1. rest \in Nat /\ rest < IntRange /\ IntRange \in Nat
  BY TimeoutsAssumption
<1>2. rest % (2 * IntRange) = rest
  <2>1. 2 * IntRange \in Nat /\ rest < 2 * IntRange
    BY <1>1
  <2> HIDE DEF rest
  <2> QED
    BY <1>1, <2>1, SmallModulus
<1>3. now + rest = IF t <= now THEN now ELSE t
  OBVIOUS
<1>4. Deadline(t) = IF rest % (2 * IntRange) < IntRange
                    THEN now + (rest % (2 * IntRange)) ELSE NoTime
  BY DEF Deadline
<1> HIDE DEF rest
<1>5. Deadline(t) = now + rest
  BY <1>1, <1>2, <1>4
<1> QED
  BY <1>3, <1>5

-----------------------------------------------------------------------------
(* TInv is inductive.                                                       *)

LEMMA InitTInv == Init => TInv
<1> SUFFICES ASSUME Init PROVE TInv
  OBVIOUS
<1>1. TypeOK
  BY TimeoutsAssumption DEF Init, TypeOK
<1>2. CurrentCovers /\ DeadlinesDiffer /\ NotReused
  BY DEF Init, CurrentCovers, DeadlinesDiffer, NotReused
<1> QED
  BY <1>1, <1>2 DEF TInv

LEMMA StutterTInv == TInv /\ UNCHANGED vars => TInv'
  BY Zenon DEF TInv, TypeOK, CurrentCovers, DeadlinesDiffer, NotReused, vars

LEMMA TickTInv == TInv /\ Tick => TInv'
<1> SUFFICES ASSUME TInv, Tick PROVE TInv'
  OBVIOUS
<1>1. /\ now' \in 0..Horizon
      /\ UNCHANGED <<timeouts, cached, current, next_id, manager, born, phase,
                     running, until, fired, fault>>
  BY TimeoutsAssumption DEF Tick, TInv, TypeOK, loopVars
<1>2. TypeOK'
  BY <1>1, Zenon DEF TInv, TypeOK
<1>3. CurrentCovers' /\ DeadlinesDiffer' /\ NotReused'
  BY <1>1, Zenon DEF TInv, CurrentCovers, DeadlinesDiffer, NotReused
<1> QED
  BY <1>2, <1>3 DEF TInv

LEMMA SetTimeoutTInv ==
  ASSUME TInv, NEW h \in Handle, NEW when \in now..Horizon, SetTimeout(h, when)
  PROVE  TInv'
<1> DEFINE new == [handle |-> h, owner |-> manager[h], when |-> when,
                   id |-> next_id]
<1>1. /\ timeouts' = Insert(timeouts, {new})
      /\ current' = Sooner(current, when) /\ next_id' = next_id + 1
      /\ UNCHANGED <<now, cached, manager, born, phase, running, until,
                     fired, fault>>
      /\ manager[h] # 0
      /\ Distinct => \A e \in timeouts \cup cached : e.when # when
  BY DEF SetTimeout, InHandler, loopVars
<1>2. new \in Entry /\ when \in 0..Horizon /\ new.when = when
      /\ new.handle = h /\ new.owner = manager[h]
  BY <1>1, TimeoutsAssumption DEF TInv, TypeOK, Entry
<1> HIDE DEF new
<1>3. /\ timeouts' \in SUBSET Entry
      /\ timeouts \subseteq timeouts' /\ timeouts' \subseteq timeouts \cup {new}
  BY <1>1, <1>2, InsertType DEF TInv, TypeOK
<1>4. current' \in 0..Horizon /\ current' <= when
      /\ (current # NoTime => current' <= current)
  BY <1>1, <1>2, TimeoutsAssumption DEF Sooner, TInv, TypeOK
<1>5. TypeOK'
  <2>1. current' \in 0..Horizon \cup {NoTime} /\ next_id' \in Nat
    BY <1>1, <1>4 DEF TInv, TypeOK
  <2> QED
    BY <1>1, <1>3, <2>1, Zenon DEF TInv, TypeOK
<1>6. CurrentCovers'
  <2> SUFFICES ASSUME phase \in {"events", "waiting"}
               PROVE  /\ cached = {}
                      /\ \A e \in timeouts' : current' # NoTime /\ current' <= e.when
    BY <1>1 DEF CurrentCovers
  <2>1. cached = {} /\ \A e \in timeouts : current # NoTime /\ current <= e.when
    BY DEF TInv, CurrentCovers
  <2>2. \A e \in timeouts : e.when \in Int /\ (current # NoTime => current \in Int)
    BY DEF TInv, TypeOK, Entry
  <2> QED
    BY <1>2, <1>3, <1>4, <2>1, <2>2, TimeoutsAssumption
<1>7. DeadlinesDiffer'
  <2> SUFFICES ASSUME Distinct
               PROVE  /\ timeouts' \cap cached = {}
                      /\ \A e, f \in timeouts' \cup cached :
                           e.when = f.when => e = f
    BY <1>1 DEF DeadlinesDiffer
  <2>1. \A e \in timeouts \cup cached : e.when # new.when
    BY <1>1, <1>2
  <2>2. /\ timeouts \cap cached = {}
        /\ \A e, f \in timeouts \cup cached : e.when = f.when => e = f
    BY DEF TInv, DeadlinesDiffer
  <2>3. new \notin cached
    BY <2>1
  <2> QED
    BY <1>3, <2>1, <2>2, <2>3
<1>8. NotReused'
  BY <1>1, <1>2, <1>3 DEF TInv, NotReused
<1> QED
  BY <1>5, <1>6, <1>7, <1>8 DEF TInv

LEMMA AcceptTInv ==
  ASSUME TInv, NEW h \in Handle, Accept(h)
  PROVE  TInv'
<1>1. /\ manager[h] = 0 /\ born[h] < MaxOwners
      /\ Reuse \/ \A e \in timeouts \cup cached : e.handle # h
      /\ born' = [born EXCEPT ![h] = @ + 1]
      /\ manager' = [manager EXCEPT ![h] = born'[h]]
      /\ UNCHANGED <<now, timeouts, cached, current, next_id, phase, running,
                     until, fired, fault>>
  BY DEF Accept, loopVars
<1>2. born' \in [Handle -> 1..MaxOwners] /\ manager' \in [Handle -> 0..MaxOwners]
  BY <1>1, TimeoutsAssumption DEF TInv, TypeOK
<1>3. TypeOK'
  BY <1>1, <1>2, Zenon DEF TInv, TypeOK
<1>4. CurrentCovers' /\ DeadlinesDiffer'
  BY <1>1, Zenon DEF TInv, CurrentCovers, DeadlinesDiffer
<1>5. NotReused'
  <2> SUFFICES ASSUME ~Reuse, NEW e \in timeouts \cup cached
               PROVE  manager'[e.handle] = 0 \/ manager'[e.handle] = e.owner
    BY <1>1 DEF NotReused
  <2>1. e.handle # h /\ e.handle \in Handle
    BY <1>1 DEF TInv, TypeOK, Entry
  <2>2. manager'[e.handle] = manager[e.handle]
    BY <1>1, <2>1 DEF TInv, TypeOK
  <2> QED
    BY <2>2 DEF TInv, NotReused
<1> QED
  BY <1>3, <1>4, <1>5 DEF TInv

LEMMA RemoveTInv ==
  ASSUME TInv, NEW h \in Handle, Remove(h)
  PROVE  TInv'
<1>1. /\ manager' = [manager EXCEPT ![h] = 0]
      /\ UNCHANGED <<now, timeouts, cached, current, next_id, born, phase,
                     running, until, fired, fault>>
  BY DEF Remove, loopVars
<1>2. manager' \in [Handle -> 0..MaxOwners]
  BY <1>1, TimeoutsAssumption DEF TInv, TypeOK
<1>3. TypeOK'
  BY <1>1, <1>2, Zenon DEF TInv, TypeOK
<1>4. CurrentCovers' /\ DeadlinesDiffer'
  BY <1>1, Zenon DEF TInv, CurrentCovers, DeadlinesDiffer
<1>5. NotReused'
  BY <1>1 DEF TInv, TypeOK, Entry, NotReused
<1> QED
  BY <1>3, <1>4, <1>5 DEF TInv

(* Whatever the cast to int makes of it, the end of a wait is a time. *)
LEMMA DeadlineType ==
  ASSUME now \in Nat, NEW t \in Nat
  PROVE  Deadline(t) \in Nat \cup {NoTime}
<1> DEFINE rest == IF t <= now THEN 0 ELSE t - now
           ms == rest % (2 * IntRange)
<1>1. rest \in Nat /\ 2 * IntRange \in Nat \ {0}
  BY TimeoutsAssumption
<1>2. Deadline(t) = IF ms < IntRange THEN now + ms ELSE NoTime
  BY DEF Deadline
<1> HIDE DEF rest
<1>3. ms \in Nat
  BY <1>1
<1> HIDE DEF ms
<1> QED
  BY <1>2, <1>3

LEMMA WaitTInv == TInv /\ Wait => TInv'
<1> SUFFICES ASSUME TInv, Wait PROVE TInv'
  OBVIOUS
<1>1. /\ phase = "events" /\ phase' = "waiting"
      /\ until' = IF current = NoTime THEN NoTime ELSE Deadline(current)
      /\ UNCHANGED <<now, timeouts, cached, current, next_id, manager, born,
                     running, fired, fault>>
  BY DEF Wait
<1>2. until' \in Nat \cup {NoTime}
  BY <1>1, DeadlineType, TimeoutsAssumption DEF TInv, TypeOK
<1>3. TypeOK'
  BY <1>1, <1>2, Zenon DEF TInv, TypeOK
<1>4. CurrentCovers' /\ DeadlinesDiffer' /\ NotReused'
  BY <1>1 DEF TInv, CurrentCovers, DeadlinesDiffer, NotReused
<1> QED
  BY <1>3, <1>4 DEF TInv

LEMMA InterruptedTInv == TInv /\ Interrupted => TInv'
<1> SUFFICES ASSUME TInv, Interrupted PROVE TInv'
  OBVIOUS
<1>1. /\ phase = "waiting" /\ phase' = "events" /\ until' = NoTime
      /\ UNCHANGED <<now, timeouts, cached, current, next_id, manager, born,
                     running, fired, fault>>
  BY DEF Interrupted
<1>2. TypeOK'
  BY <1>1, Zenon DEF TInv, TypeOK
<1>3. CurrentCovers' /\ DeadlinesDiffer' /\ NotReused'
  BY <1>1 DEF TInv, CurrentCovers, DeadlinesDiffer, NotReused
<1> QED
  BY <1>2, <1>3 DEF TInv

LEMMA SwapTInv == TInv /\ Swap => TInv'
<1> SUFFICES ASSUME TInv, Swap PROVE TInv'
  OBVIOUS
<1>1. /\ phase = "waiting" /\ phase' = "timeouts" /\ until' = NoTime
      /\ cached' = timeouts /\ timeouts' = cached
      /\ UNCHANGED <<now, current, next_id, manager, born, running, fired, fault>>
  BY DEF Swap
<1>2. TypeOK'
  BY <1>1, Zenon DEF TInv, TypeOK
<1>3. CurrentCovers'
  BY <1>1 DEF CurrentCovers
<1>4. DeadlinesDiffer' /\ NotReused'
  BY <1>1 DEF TInv, DeadlinesDiffer, NotReused
<1> QED
  BY <1>2, <1>3, <1>4 DEF TInv

LEMMA ExpireTInv == TInv /\ Expire => TInv'
<1> SUFFICES ASSUME TInv, Expire PROVE TInv'
  OBVIOUS
<1>1. /\ phase = "timeouts"
      /\ UNCHANGED <<now, timeouts, current, next_id, manager, born, until>>
  BY DEF Expire
<1>2. PICK e \in cached :
        IF Missing(e.handle)
        THEN fault' = "out_of_range" /\ UNCHANGED <<cached, fired, phase, running>>
        ELSE /\ fired' = Append(fired, [e EXCEPT !.owner = manager[e.handle]])
             /\ cached' = Passed(cached, e)
             /\ phase' = "handler" /\ running' = e.handle
             /\ UNCHANGED fault
  BY DEF Expire
<1>3. cached' \subseteq cached /\ phase' \notin {"events", "waiting"}
  BY <1>1, <1>2 DEF Passed
<1>4. CASE Missing(e.handle)
  BY <1>1, <1>2, <1>4, Zenon DEF TInv, TypeOK, CurrentCovers, DeadlinesDiffer,
     NotReused
<1>5. CASE ~Missing(e.handle)
  <2>1. e \in Entry /\ e.handle \in Handle /\ manager[e.handle] \in 1..MaxOwners
    BY <1>5 DEF TInv, TypeOK, Entry, Missing
  <2> DEFINE expired == [e EXCEPT !.owner = manager[e.handle]]
  <2>2. expired \in Entry
    BY <2>1 DEF Entry
  <2>3. fired' \in Seq(Entry) /\ cached' \in SUBSET Entry
    <3>1. fired' = Append(fired, expired)
      BY <1>2, <1>5
    <3> HIDE DEF expired
    <3> QED
      BY <1>3, <2>2, <3>1 DEF TInv, TypeOK
  <2>4. phase' = "handler" /\ running' \in Handle /\ UNCHANGED fault
    BY <1>2, <1>5, <2>1
  <2>5. TypeOK'
    BY <1>1, <2>3, <2>4, Zenon DEF TInv, TypeOK
  <2>6. CurrentCovers' /\ DeadlinesDiffer' /\ NotReused'
    BY <1>1, <1>3 DEF TInv, CurrentCovers, DeadlinesDiffer, NotReused
  <2> QED
    BY <2>5, <2>6 DEF TInv
<1> QED
  BY <1>4, <1>5

LEMMA HandlerReturnsTInv == TInv /\ HandlerReturns => TInv'
<1> SUFFICES ASSUME TInv, HandlerReturns PROVE TInv'
  OBVIOUS
<1>1. /\ phase' = "timeouts"
      /\ UNCHANGED <<now, timeouts, cached, current, next_id, manager, born,
                     running, until, fired, fault>>
  BY DEF HandlerReturns
<1>2. TypeOK'
  BY <1>1, Zenon DEF TInv, TypeOK
<1>3. CurrentCovers' /\ DeadlinesDiffer' /\ NotReused'
  BY <1>1 DEF TInv, CurrentCovers, DeadlinesDiffer, NotReused
<1> QED
  BY <1>2, <1>3 DEF TInv

(* What is left of the cached set goes back without a loss. *)
LEMMA FinishKeepsAll ==
  ASSUME TInv, Finish, Distinct
  PROVE  timeouts' = timeouts \cup cached
  BY InsertAll DEF TInv, DeadlinesDiffer, Finish

LEMMA FinishTInv == TInv /\ Finish => TInv'
<1> SUFFICES ASSUME TInv, Finish PROVE TInv'
  OBVIOUS
<1>1. /\ timeouts' = Insert(timeouts, cached) /\ cached' = {}
      /\ Earliest(timeouts', current') /\ phase' = "events"
      /\ UNCHANGED <<now, next_id, manager, born, running, until, fired, fault>>
  BY DEF Finish
<1>2. timeouts' \in SUBSET Entry /\ timeouts' \subseteq timeouts \cup cached
  BY <1>1, InsertType DEF TInv, TypeOK
<1>3. \/ timeouts' = {} /\ current' = NoTime
      \/ \E e \in timeouts' : /\ current' = e.when
                              /\ \A f \in timeouts' : e.when <= f.when
  BY <1>1 DEF Earliest, First
<1>4. current' \in 0..Horizon \cup {NoTime}
      /\ \A e \in timeouts' : current' # NoTime /\ current' <= e.when
  BY <1>2, <1>3, TimeoutsAssumption DEF Entry
<1>5. TypeOK'
  <2>1. cached' \in SUBSET Entry
    BY <1>1
  <2> QED
    BY <1>1, <1>2, <1>4, <2>1, Zenon DEF TInv, TypeOK
<1>6. CurrentCovers'
  BY <1>1, <1>4 DEF CurrentCovers
<1>7. DeadlinesDiffer' /\ NotReused'
  BY <1>1, <1>2 DEF TInv, DeadlinesDiffer, NotReused
<1> QED
  BY <1>5, <1>6, <1>7 DEF TInv

LEMMA NextTInv == TInv /\ [Next]_vars => TInv'
<1> SUFFICES ASSUME TInv, [Next]_vars PROVE TInv'
  OBVIOUS
<1>1. CASE Tick
  BY <1>1, TickTInv
<1>2. CASE Handlers
  BY <1>2, AcceptTInv, RemoveTInv, SetTimeoutTInv DEF Handlers
<1>3. CASE Loop \/ Event
  BY <1>3, WaitTInv, SwapTInv, ExpireTInv, HandlerReturnsTInv, FinishTInv
     DEF Loop, TimedOut, Event
<1>4. CASE Interrupted
  BY <1>4, InterruptedTInv
<1>5. CASE Ended \/ UNCHANGED vars
  BY <1>5, StutterTInv DEF Ended
<1> QED
  BY <1>1, <1>2, <1>3, <1>4, <1>5 DEF Next

(* The two sets hold well-formed entries, current_timeout_ covers them and  *)
(* the phases follow poll_once().                                           *)
LEMMA TInvHolds == Spec => []TInv
  BY InitTInv, NextTInv, PTL DEF Spec

(* Type correctness: in particular whatever static_cast<int> makes of a     *)
(* deadline is a time or the endless wait, and every expired entry was      *)
(* handled by a manager that exists.                                        *)
THEOREM TimeoutsTypeCorrect == Spec => []TypeOK
<1>1. TInv => TypeOK
  BY DEF TInv
<1> QED
  BY <1>1, TInvHolds, PTL

-----------------------------------------------------------------------------
(* The wait of the loop.                                                    *)

LEMMA SleepStep ==
  ASSUME Horizon < IntRange, TInv, SleepsNoLonger, [Next]_vars
  PROVE  SleepsNoLonger'
<1>1. CASE Wait
  <2> SUFFICES ASSUME NEW e \in timeouts
               PROVE  /\ until' # NoTime
                      /\ until' <= IF e.when > now THEN e.when ELSE now
    BY <1>1 DEF SleepsNoLonger, Wait
  <2>1. /\ current \in Nat /\ current < IntRange /\ current <= e.when
        /\ current # NoTime /\ now \in Nat /\ e.when \in Nat
    BY <1>1, TimeoutsAssumption DEF Wait, TInv, TypeOK, CurrentCovers, Entry
  <2>2. until' = IF current <= now THEN now ELSE current
    BY <1>1, <2>1, DeadlineFits DEF Wait
  <2> QED
    BY <2>1, <2>2, TimeoutsAssumption
<1>2. CASE Tick
  <2> SUFFICES ASSUME phase = "waiting", NEW e \in timeouts
               PROVE  /\ until # NoTime
                      /\ until <= IF e.when > now' THEN e.when ELSE now'
    BY <1>2 DEF SleepsNoLonger, Tick, loopVars
  <2>1. /\ until # NoTime /\ until <= IF e.when > now THEN e.when ELSE now
        /\ now' = now + 1
    BY <1>2 DEF SleepsNoLonger, Tick
  <2>2. now \in Nat /\ e.when \in Nat /\ until \in Nat
    BY <2>1 DEF TInv, TypeOK, Entry
  <2> QED
    BY <2>1, <2>2
<1>3. CASE Handlers
  BY <1>3 DEF Handlers, Accept, Remove, SetTimeout, InHandler, loopVars,
     SleepsNoLonger
<1>4. CASE Swap \/ Expire \/ HandlerReturns \/ Finish \/ Interrupted
  <2>1. phase' # "waiting"
    BY <1>4 DEF Swap, Expire, HandlerReturns, Finish, Interrupted
  <2> QED
    BY <2>1 DEF SleepsNoLonger
<1>5. CASE UNCHANGED vars
  BY <1>5 DEF vars, SleepsNoLonger
<1> QED
  BY <1>1, <1>2, <1>3, <1>4, <1>5 DEF Next, Loop, Event, TimedOut, Ended

(* poll_once() never sleeps past a deadline, as long as the milliseconds    *)
(* until the latest one fit into the int that epoll_wait takes.             *)
THEOREM NeverOversleeps ==
  ASSUME Horizon < IntRange
  PROVE  Spec => []SleepsNoLonger
<1>1. Init => SleepsNoLonger
  BY DEF Init, SleepsNoLonger
<1>2. TInv /\ SleepsNoLonger /\ [Next]_vars => SleepsNoLonger'
  BY SleepStep
<1> QED
  BY <1>1, <1>2, TInvHolds, PTL DEF Spec

-----------------------------------------------------------------------------
(* No timeout is lost.                                                      *)

Kept(i) == \/ \E e \in timeouts \cup cached : e.id = i
           \/ \E k \in 1..Len(fired) : fired[k].id = i

(* What is pending and what was fired stays so, or goes from the one to the *)
(* other.                                                                   *)
LEMMA KeptStep ==
  ASSUME Distinct, TInv, [Next]_vars, NEW i \in Nat, Kept(i)
  PROVE  Kept(i)'
<1>1. CASE Expire
  <2>1. PICK e \in cached :
          IF Missing(e.handle)
          THEN UNCHANGED <<cached, fired>>
          ELSE /\ fired' = Append(fired, [e EXCEPT !.owner = manager[e.handle]])
               /\ cached' = cached \ {e}
    BY <1>1 DEF Expire, Passed
  <2>2. timeouts' = timeouts
    BY <1>1 DEF Expire
  <2>3. CASE Missing(e.handle)
    BY <2>1, <2>2, <2>3 DEF Kept
  <2>4. CASE ~Missing(e.handle)
    <3> DEFINE expired == [e EXCEPT !.owner = manager[e.handle]]
    <3>1. e \in Entry
      BY DEF TInv, TypeOK
    <3>2. expired.id = e.id
      BY <3>1 DEF Entry
    <3>3. fired' = Append(fired, expired) /\ cached' = cached \ {e}
      BY <2>1, <2>4
    <3> HIDE DEF expired
    <3>4. /\ Len(fired') = Len(fired) + 1 /\ Len(fired) \in Nat
          /\ fired'[Len(fired) + 1] = expired
          /\ \A k \in 1..Len(fired) : fired'[k] = fired[k]
      BY <3>3 DEF TInv, TypeOK
    <3>5. CASE e.id = i
      <4>1. Len(fired) + 1 \in 1..Len(fired')
        BY <3>4
      <4> QED
        BY <3>2, <3>4, <3>5, <4>1 DEF Kept
    <3>6. CASE \E f \in timeouts \cup cached : f.id = i /\ f # e
      BY <2>2, <3>3, <3>6 DEF Kept
    <3>7. CASE \E k \in 1..Len(fired) : fired[k].id = i
      <4>1. 1..Len(fired) \subseteq 1..Len(fired')
        BY <3>4
      <4> QED
        BY <3>4, <3>7, <4>1 DEF Kept
    <3> QED
      BY <3>5, <3>6, <3>7 DEF Kept
  <2> QED
    BY <2>3, <2>4
<1>2. CASE ~Expire
  <2>1. fired' = fired
    BY <1>2 DEF Next, Tick, Handlers, Accept, Remove, SetTimeout, Loop, Wait,
       TimedOut, Swap, HandlerReturns, Finish, Event, Interrupted, Ended,
       loopVars, vars
  <2>2. timeouts \cup cached \subseteq timeouts' \cup cached'
    <3>1. CASE Finish
      BY <3>1, FinishKeepsAll
    <3>2. CASE \E h \in Handle, when \in now..Horizon : SetTimeout(h, when)
      BY <3>2 DEF SetTimeout, Insert
    <3>3. CASE Swap
      BY <3>3 DEF Swap
    <3>4. CASE UNCHANGED <<timeouts, cached>>
      BY <3>4
    <3> QED
      BY <1>2, <3>1, <3>2, <3>3, <3>4 DEF Next, Tick, Handlers, Accept, Remove,
         Loop, Wait, TimedOut, HandlerReturns, Event, Interrupted, Ended,
         vars
  <2> QED
    BY <2>1, <2>2 DEF Kept
<1> QED
  BY <1>1, <1>2

LEMMA NoneLostStep ==
  ASSUME Distinct, TInv, NoneLost, [Next]_vars
  PROVE  NoneLost'
<1> SUFFICES ASSUME NEW i \in 0..(next_id' - 1) PROVE Kept(i)'
  BY DEF NoneLost, Kept
<1>1. next_id \in Nat
  BY DEF TInv, TypeOK
<1>2. CASE i \in 0..(next_id - 1)
  <2>1. Kept(i) /\ i \in Nat
    BY <1>1, <1>2 DEF NoneLost, Kept
  <2> QED
    BY <2>1, KeptStep
<1>3. CASE i \notin 0..(next_id - 1)
  <2>1. next_id' # next_id
    BY <1>3
  <2>2. PICK h \in Handle, when \in now..Horizon : SetTimeout(h, when)
    BY <2>1 DEF Next, Tick, Handlers, Accept, Remove, Loop, Wait, TimedOut,
       Swap, Expire, HandlerReturns, Finish, Event, Interrupted, Ended, vars
  <2>3. next_id' = next_id + 1
    BY <2>2 DEF SetTimeout
  <2>4. i = next_id
    BY <1>1, <1>3, <2>3
  <2> DEFINE new == [handle |-> h, owner |-> manager[h], when |-> when,
                     id |-> next_id]
  <2>5. new \in timeouts' /\ new.id = next_id
    BY <2>2 DEF SetTimeout, Insert
  <2> HIDE DEF new
  <2> QED
    BY <2>4, <2>5 DEF Kept
<1> QED
  BY <1>2, <1>3

(* Every timeout for which set_timeout() returned an identifier is pending  *)
(* or has expired, when no two pending ones have the same deadline.         *)
THEOREM NoTimeoutLost ==
  ASSUME Distinct
  PROVE  Spec => []NoneLost
<1>1. Init => NoneLost
  BY DEF Init, NoneLost
<1>2. TInv /\ NoneLost /\ [Next]_vars => NoneLost'
  BY NoneLostStep
<1> QED
  BY <1>1, <1>2, TInvHolds, PTL DEF Spec

-----------------------------------------------------------------------------
(* Timeouts implements Alarms.                                              *)

Pending == Living(timeouts \cup cached)

(* A step that leaves the clock, the identifiers, the entries, the managers *)
(* and what has been fired alone is a stutter of the alarms.                *)
LEMMA ClockStutter ==
  ASSUME UNCHANGED <<now, next_id, fired>>, Pending' = Pending
  PROVE  UNCHANGED Clock!alarmVars
  BY DEF Clock!alarmVars, Pending

LEMMA ClockTick ==
  ASSUME TInv, Tick
  PROVE  Clock!Tick
<1>1. now' > now
  BY DEF Tick, TInv, TypeOK
<1>2. UNCHANGED <<timeouts, cached, manager, next_id, fired>>
  BY DEF Tick, loopVars
<1>3. Pending' = Pending
  BY <1>2 DEF Pending, Living
<1> QED
  BY <1>1, <1>2, <1>3 DEF Clock!Tick, Pending

LEMMA ClockRequest ==
  ASSUME Distinct, TInv, NEW h \in Handle, NEW when \in now..Horizon,
         SetTimeout(h, when)
  PROVE  Clock!Request
<1> DEFINE new == [handle |-> h, owner |-> manager[h], when |-> when,
                   id |-> next_id]
<1>1. /\ timeouts' = timeouts \cup {new}
      /\ next_id' = next_id + 1
      /\ UNCHANGED <<now, cached, manager, fired>>
      /\ manager[h] # 0
  BY DEF SetTimeout, InHandler, Insert, loopVars
<1>2. when \in 0..Horizon /\ manager[h] \in 1..MaxOwners
  BY <1>1, TimeoutsAssumption DEF TInv, TypeOK
<1>3. new.handle = h /\ new.owner = manager[h]
  OBVIOUS
<1>4. new = [handle |-> h, owner |-> manager[h], when |-> when, id |-> next_id]
  OBVIOUS
<1> HIDE DEF new
<1>5. Pending' = Pending \cup {new}
  BY <1>1, <1>3 DEF Pending, Living
<1> QED
  BY <1>1, <1>2, <1>4, <1>5 DEF Clock!Request, Pending

(* A new manager has no entry under its descriptor. *)
LEMMA ClockAccept ==
  ASSUME ~Reuse, TInv, NEW h \in Handle, Accept(h)
  PROVE  UNCHANGED Clock!alarmVars
<1>1. /\ UNCHANGED <<now, timeouts, cached, next_id, fired>>
      /\ \A e \in timeouts \cup cached : e.handle # h
      /\ manager' = [manager EXCEPT ![h] = born'[h]]
  BY DEF Accept, loopVars
<1>2. \A e \in timeouts \cup cached : manager'[e.handle] = manager[e.handle]
  BY <1>1 DEF TInv, TypeOK, Entry
<1>3. Pending' = Pending
  BY <1>1, <1>2 DEF Pending, Living
<1> QED
  BY <1>1, <1>3, ClockStutter

(* The alarms of a manager that goes are cancelled. *)
LEMMA ClockRemove ==
  ASSUME TInv, NEW h \in Handle, Remove(h)
  PROVE  Clock!Cancel \/ UNCHANGED Clock!alarmVars
<1>1. /\ UNCHANGED <<now, timeouts, cached, next_id, fired>>
      /\ manager' = [manager EXCEPT ![h] = 0]
  BY DEF Remove, loopVars
<1>2. \A e \in timeouts \cup cached :
        /\ e.owner # 0
        /\ manager'[e.handle] = IF e.handle = h THEN 0 ELSE manager[e.handle]
  BY <1>1 DEF TInv, TypeOK, Entry
<1>3. Pending' = {b \in Pending : b.handle # h}
  BY <1>1, <1>2 DEF Pending, Living
<1>4. CASE \E a \in Pending : a.handle = h
  BY <1>1, <1>3, <1>4 DEF Clock!Cancel, Pending
<1>5. CASE \A a \in Pending : a.handle # h
  <2>1. Pending' = Pending
    BY <1>3, <1>5
  <2> QED
    BY <1>1, <2>1, ClockStutter
<1> QED
  BY <1>4, <1>5

(* An expired entry is an alarm that goes off, for the manager that asked.  *)
LEMMA ClockFire ==
  ASSUME Distinct, ~Reuse, TInv, Expire
  PROVE  Clock!Fire \/ UNCHANGED Clock!alarmVars
<1>1. PICK e \in cached :
        /\ e.when <= now
        /\ IF Missing(e.handle)
           THEN UNCHANGED <<cached, fired>>
           ELSE /\ fired' = Append(fired, [e EXCEPT !.owner = manager[e.handle]])
                /\ cached' = cached \ {e}
  BY DEF Expire, Passed
<1>2. UNCHANGED <<now, timeouts, next_id, manager>>
  BY DEF Expire
<1>3. CASE Missing(e.handle)
  <2>1. UNCHANGED <<cached, fired>>
    BY <1>1, <1>3
  <2>2. Pending' = Pending
    BY <1>2, <2>1 DEF Pending, Living
  <2> QED
    BY <1>2, <2>1, <2>2, ClockStutter
<1>4. CASE ~Missing(e.handle)
  <2>1. manager[e.handle] = e.owner
    BY <1>4 DEF TInv, NotReused, Missing
  <2>2. e \in Entry
    BY DEF TInv, TypeOK
  <2>3. [e EXCEPT !.owner = e.owner] = e
    BY <2>2 DEF Entry
  <2>4. [e EXCEPT !.owner = manager[e.handle]] = e
    BY <2>1, <2>3, Zenon
  <2>5. fired' = Append(fired, e) /\ cached' = cached \ {e}
    BY <1>1, <1>4, <2>4
  <2>6. e \notin timeouts
    BY DEF TInv, DeadlinesDiffer
  <2>7. e \in Pending /\ Pending' = Pending \ {e}
    BY <1>2, <2>1, <2>5, <2>6 DEF Pending, Living
  <2> QED
    BY <1>1, <1>2, <2>5, <2>7 DEF Clock!Fire, Pending
<1> QED
  BY <1>3, <1>4

LEMMA ClockStep ==
  ASSUME Distinct, ~Reuse, TInv, [Next]_vars
  PROVE  [Clock!Next]_(Clock!alarmVars)
<1>1. CASE Tick
  BY <1>1, ClockTick DEF Clock!Next
<1>2. CASE Handlers
  BY <1>2, ClockRequest, ClockAccept, ClockRemove DEF Handlers, Clock!Next
<1>3. CASE Expire
  BY <1>3, ClockFire DEF Clock!Next
<1>4. CASE Swap \/ Finish
  <2>1. UNCHANGED <<now, next_id, manager, fired>>
    BY <1>4 DEF Swap, Finish
  <2>2. timeouts' \cup cached' = timeouts \cup cached
    <3>1. CASE Swap
      BY <3>1 DEF Swap
    <3>2. CASE Finish
      <4>1. cached' = {}
        BY <3>2 DEF Finish
      <4> QED
        BY <3>2, <4>1, FinishKeepsAll
    <3> QED
      BY <1>4, <3>1, <3>2
  <2>3. Pending' = Pending
    BY <2>1, <2>2 DEF Pending, Living
  <2> QED
    BY <2>1, <2>3, ClockStutter
<1>5. CASE Wait \/ HandlerReturns \/ Interrupted \/ UNCHANGED vars
  <2>1. UNCHANGED <<now, next_id, manager, fired, timeouts, cached>>
    BY <1>5 DEF Wait, HandlerReturns, Interrupted, vars
  <2>2. Pending' = Pending
    BY <2>1 DEF Pending, Living
  <2> QED
    BY <2>1, <2>2, ClockStutter
<1> QED
  BY <1>1, <1>2, <1>3, <1>4, <1>5 DEF Next, Loop, Event, TimedOut, Ended

(* The timeouts implement Alarms: each goes off at most once, not before    *)
(* its time, and for the manager that asked for it, when no two pending     *)
(* deadlines are equal and no descriptor is used again while a timeout of   *)
(* its last manager is pending.                                             *)
THEOREM TimeoutsImplementAlarms ==
  ASSUME Distinct, ~Reuse
  PROVE  Spec => AlarmsAreKept
<1>1. Init => Clock!Init
  BY DEF Init, Clock!Init, Living
<1>2. TInv /\ [Next]_vars => [Clock!Next]_(Clock!alarmVars)
  BY ClockStep
<1> QED
  BY <1>1, <1>2, TInvHolds, PTL DEF Spec, AlarmsAreKept, Clock!Spec

=============================================================================
