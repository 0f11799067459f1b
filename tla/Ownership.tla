----------------------------- MODULE Ownership -----------------------------
(***************************************************************************)
(* util::ref_counted and util::intrusive_ptr.  Each thread has intrusive   *)
(* pointers of its own; the objects are shared, their counts are atomic,   *)
(* and everything else a pointer does is not: an operation is a list of    *)
(* atomic steps that interleave with those of the other threads.  Raw      *)
(* pointers that were released wait, as in a pipe, for somebody to adopt   *)
(* them.                                                                   *)
(***************************************************************************)
EXTENDS Integers, Sequences, FiniteSets

CONSTANTS
    Threads,       \* the threads
    Objects,       \* the memory for objects: an object lives in it once
    Slots,         \* the names of a thread's pointers
    Null,          \* nullptr
    SelfAssigns,   \* a thread may assign a pointer to itself
    MaxReleased    \* bound: the raw pointers to an object that wait to be adopted

ASSUME OwnershipAssumption ==
    /\ IsFiniteSet(Threads) /\ IsFiniteSet(Slots) /\ IsFiniteSet(Objects)
    /\ Null \notin Objects /\ SelfAssigns \in BOOLEAN /\ MaxReleased \in Nat

Pointers == Threads \X Slots

VARIABLES
    life,    \* "unborn", "alive", "deleted"
    count,   \* ref_count_
    ptr,     \* ptr_ of each pointer
    raw,     \* how many released raw pointers to each object there are
    todo     \* the steps that remain of each thread's operation

ownershipVars == <<life, count, ptr, raw, todo>>

OwnershipInit ==
    /\ life = [o \in Objects |-> "unborn"] /\ count = [o \in Objects |-> 0]
    /\ ptr = [p \in Pointers |-> Null] /\ raw = [o \in Objects |-> 0]
    /\ todo = [t \in Threads |-> <<>>]

-----------------------------------------------------------------------------
(* The steps of an operation: on the object o, or o into the pointer p.     *)
Ref(o) == IF o = Null THEN <<>> ELSE << [do |-> "ref", o |-> o, p |-> Null] >>
Deref(o) == IF o = Null THEN <<>> ELSE << [do |-> "deref", o |-> o, p |-> Null] >>
Set(p, o) == << [do |-> "set", o |-> o, p |-> p] >>

(* Mutant: the old object keeps the reference. *)
ResetOnly(p, o, add_ref) == Set(p, o) \o (IF add_ref THEN Ref(o) ELSE <<>>)

(* reset(): the old object first, then set_ptr(). *)
Reset(p, o, add_ref) == Deref(ptr[p]) \o Set(p, o) \o (IF add_ref THEN Ref(o) ELSE <<>>)

(* The move assignment swaps; the temporary it is assigned from then        *)
(* releases the old object.                                                 *)
Take(p, o) == Set(p, o) \o Deref(ptr[p])

-----------------------------------------------------------------------------
Begins(t, steps) == todo[t] = <<>> /\ todo' = [todo EXCEPT ![t] = steps]

(* p = make_intrusive<T>(): the count is 1 from the start. *)
Make(t, s) ==
    \E o \in Objects :
      /\ life[o] = "unborn"
      /\ Begins(t, Take(<<t, s>>, o))
      /\ life' = [life EXCEPT ![o] = "alive"] /\ count' = [count EXCEPT ![o] = 1]
      /\ UNCHANGED <<ptr, raw>>

(* p = q, and p = raw_ptr of an object the thread has a pointer to. *)
CopyAssign(t, s, r) ==
    /\ s # r \/ SelfAssigns
    /\ ptr[<<t, r>>] # Null
    /\ Begins(t, Reset(<<t, s>>, ptr[<<t, r>>], TRUE))
    /\ UNCHANGED <<life, count, ptr, raw>>

(* p = as_intrusive_ptr of the object of q, or another copy that is moved from. *)
Borrow(t, s, r) ==
    /\ ptr[<<t, r>>] # Null
    /\ Begins(t, Ref(ptr[<<t, r>>]) \o Take(<<t, s>>, ptr[<<t, r>>]))
    /\ UNCHANGED <<life, count, ptr, raw>>

(* p = std::move(q). *)
MoveAssign(t, s, r) ==
    /\ todo[t] = <<>> /\ ptr[<<t, r>>] # ptr[<<t, s>>]
    /\ ptr' = [ptr EXCEPT ![<<t, s>>] = ptr[<<t, r>>], ![<<t, r>>] = ptr[<<t, s>>]]
    /\ UNCHANGED <<life, count, raw, todo>>

(* p.reset(), and the destructor. *)
Drop(t, s) ==
    /\ ptr[<<t, s>>] # Null
    /\ Begins(t, Reset(<<t, s>>, Null, TRUE))
    /\ UNCHANGED <<life, count, ptr, raw>>

(* p.release(), as add() does before it writes the message. *)
Release(t, s) ==
    LET o == ptr[<<t, s>>] IN
    /\ todo[t] = <<>> /\ o # Null /\ raw[o] < MaxReleased
    /\ ptr' = [ptr EXCEPT ![<<t, s>>] = Null] /\ raw' = [raw EXCEPT ![o] = @ + 1]
    /\ UNCHANGED <<life, count, todo>>

(* p = make_intrusive(raw, false), as the updater does with the message. *)
Adopt(t, s) ==
    \E o \in Objects :
      /\ raw[o] > 0 /\ raw' = [raw EXCEPT ![o] = @ - 1]
      /\ Begins(t, Take(<<t, s>>, o))
      /\ UNCHANGED <<life, count, ptr>>

(* deref(): the thread that takes the last reference deletes the object.    *)
Deletes(o) == count[o] = 1

Step(t) ==
    /\ todo[t] # <<>>
    /\ todo' = [todo EXCEPT ![t] = Tail(@)]
    /\ LET step == Head(todo[t]) IN
         CASE step.do = "ref" ->
                count' = [count EXCEPT ![step.o] = @ + 1] /\ UNCHANGED <<life, ptr>>
           [] step.do = "deref" ->
                /\ count' = [count EXCEPT ![step.o] = @ - 1]
                /\ life' = IF Deletes(step.o) THEN [life EXCEPT ![step.o] = "deleted"]
                           ELSE life
                /\ UNCHANGED ptr
           [] step.do = "set" ->
                ptr' = [ptr EXCEPT ![step.p] = step.o] /\ UNCHANGED <<life, count>>
    /\ UNCHANGED raw

OwnershipNext ==
    \E t \in Threads :
      \/ Step(t)
      \/ \E s \in Slots : Make(t, s) \/ Drop(t, s) \/ Release(t, s) \/ Adopt(t, s)
      \/ \E s, r \in Slots : CopyAssign(t, s, r) \/ Borrow(t, s, r) \/ MoveAssign(t, s, r)

OwnershipSpec == OwnershipInit /\ [][OwnershipNext]_ownershipVars

-----------------------------------------------------------------------------
(* Properties.                                                              *)

(* No thread counts on a deleted object, and between operations an object   *)
(* lives exactly as long as something refers to it: nothing is freed too    *)
(* early, and nothing is left behind.                                       *)
OwnershipKept ==
    /\ \A t \in Threads :
         todo[t] # <<>> /\ Head(todo[t]).do # "set" => life[Head(todo[t]).o] = "alive"
    /\ \A p \in Pointers : todo[p[1]] = <<>> /\ ptr[p] # Null => life[ptr[p]] = "alive"
    /\ (\A t \in Threads : todo[t] = <<>>) =>
         \A o \in Objects :
           /\ life[o] = "alive" <=> count[o] > 0
           /\ count[o] = Cardinality({p \in Pointers : ptr[p] = o}) + raw[o]
=============================================================================
