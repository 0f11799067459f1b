--------------------------- MODULE LibraryProofs ---------------------------
(***************************************************************************)
(* What is proved of the parts of the library that do not need an event    *)
(* loop, for any number of threads, objects, descriptors, options, lines,  *)
(* words and values: reference counts are exact, as long as no pointer is  *)
(* assigned to itself; every open descriptor has exactly one owner; a      *)
(* configuration file's entries get the names of the scopes they lie in;   *)
(* an endpoint survives all conversions; an option has what was given;     *)
(* the deserializer gives back what has been serialized.                   *)
(***************************************************************************)
EXTENDS Ownership, SocketGuards, BinaryCodec, CommandLine, ConfigFile, Addresses, DataInduction,
        SequenceTheorems, TLAPS

-----------------------------------------------------------------------------
(* Intrusive pointers. *)

RefStep(o) == [do |-> "ref", o |-> o, p |-> Null]
DerefStep(o) == [do |-> "deref", o |-> o, p |-> Null]
SetStep(p, o) == [do |-> "set", o |-> o, p |-> p]

Target == Objects \cup {Null}
AnyStep == [do : {"ref", "deref"}, o : Objects, p : {Null}]
           \cup [do : {"set"}, o : Target, p : Pointers]

(* The steps of a list, of which no two are of the same kind. *)
Items(l) == {l[k] : k \in DOMAIN l}
Distinct(l) == \A j, k \in DOMAIN l : l[j].do = l[k].do => j = k

-----------------------------------------------------------------------------
(* A pointer's value once its thread's operation has ended, fin, is what it *)
(* is now unless a step to set it remains.                                  *)
EndsAs(fin) ==
    \A p \in Pointers :
       IF \E o \in Target : SetStep(p, o) \in Items(todo[p[1]])
       THEN SetStep(p, fin[p]) \in Items(todo[p[1]])
       ELSE fin[p] = ptr[p]

(* Who will point to x; the threads that still have to count a reference to *)
(* it, and that still have to give one up.                                  *)
PointTo(fin, x) == {p \in Pointers : fin[p] = x}
ToRef(td, x) == {t \in Threads : RefStep(x) \in Items(td[t])}
ToDeref(td, x) == {t \in Threads : DerefStep(x) \in Items(td[t])}

(* The count that remains when every operation has ended. *)
Balanced(fin) ==
    \A x \in Objects :
       count[x] + Cardinality(ToRef(todo, x))
         = Cardinality(PointTo(fin, x)) + raw[x] + Cardinality(ToDeref(todo, x))

(* Whoever is about to count a reference for one pointer has the object in  *)
(* another one, or begins with that step and gives up a reference later.    *)
Backed(fin) ==
    \A t \in Threads, x \in Objects :
       RefStep(x) \in Items(todo[t]) =>
         \E q, r \in Pointers :
           /\ q[1] = t /\ r[1] = t /\ fin[q] = x /\ fin[r] = x
           /\ q # r \/ (Head(todo[t]) = RefStep(x) /\ DerefStep(x) \in Items(todo[t]))

OwnTypes ==
    /\ life \in [Objects -> {"unborn", "alive", "deleted"}]
    /\ count \in [Objects -> Nat] /\ raw \in [Objects -> Nat]
    /\ ptr \in [Pointers -> Target]
    /\ todo \in [Threads -> Seq(AnyStep)]
    /\ \A t \in Threads :
         /\ Distinct(todo[t])
         /\ \A p \in Pointers, o \in Target : SetStep(p, o) \in Items(todo[t]) => p[1] = t

Lives == \A x \in Objects : life[x] = "alive" <=> count[x] > 0

OwnershipInv ==
    /\ OwnTypes /\ Lives
    /\ \E fin \in [Pointers -> Target] : EndsAs(fin) /\ Balanced(fin) /\ Backed(fin)

-----------------------------------------------------------------------------
(* Lists of steps. *)

LEMMA StepKinds ==
    /\ \A s \in AnyStep : s.do \in {"ref", "deref", "set"}
    /\ \A o \in Objects : RefStep(o) \in AnyStep /\ RefStep(o).do = "ref" /\ RefStep(o).o = o
    /\ \A o \in Objects :
         DerefStep(o) \in AnyStep /\ DerefStep(o).do = "deref" /\ DerefStep(o).o = o
    /\ \A p \in Pointers, o \in Target :
         /\ SetStep(p, o) \in AnyStep /\ SetStep(p, o).do = "set"
         /\ SetStep(p, o).p = p /\ SetStep(p, o).o = o
    /\ \A s \in AnyStep :
         /\ s.do = "ref" => \E o \in Objects : s = RefStep(o)
         /\ s.do = "deref" => \E o \in Objects : s = DerefStep(o)
         /\ s.do = "set" => \E p \in Pointers, o \in Target : s = SetStep(p, o)
    /\ \A o, x : /\ RefStep(o) = RefStep(x) <=> o = x
                 /\ DerefStep(o) = DerefStep(x) <=> o = x
                 /\ RefStep(o) # DerefStep(x)
    /\ \A p, q, o, x : SetStep(p, o) = SetStep(q, x) <=> (p = q /\ o = x)
    /\ \A p, o, x : SetStep(p, o) # RefStep(x) /\ SetStep(p, o) # DerefStep(x)
  <1>1. \A o : RefStep(o).do = "ref" /\ RefStep(o).o = o
    BY DEF RefStep
  <1>2. \A o : DerefStep(o).do = "deref" /\ DerefStep(o).o = o
    BY DEF DerefStep
  <1>3. \A p, o : SetStep(p, o).do = "set" /\ SetStep(p, o).p = p /\ SetStep(p, o).o = o
    BY DEF SetStep
  <1>4. ASSUME NEW s \in AnyStep
        PROVE  \/ \E o \in Objects : s = RefStep(o)
               \/ \E o \in Objects : s = DerefStep(o)
               \/ \E p \in Pointers, o \in Target : s = SetStep(p, o)
    <2>1. CASE s \in [do : {"ref", "deref"}, o : Objects, p : {Null}]
      <3>1. s = [do |-> s.do, o |-> s.o, p |-> Null] /\ s.o \in Objects
            /\ s.do \in {"ref", "deref"}
        BY <2>1
      <3> QED
        BY <3>1 DEF RefStep, DerefStep
    <2>2. CASE s \in [do : {"set"}, o : Target, p : Pointers]
      <3>1. s = [do |-> "set", o |-> s.o, p |-> s.p] /\ s.o \in Target /\ s.p \in Pointers
        BY <2>2
      <3> QED
        BY <3>1 DEF SetStep
    <2> QED
      BY <2>1, <2>2 DEF AnyStep
  <1>5. /\ \A o \in Objects : RefStep(o) \in AnyStep /\ DerefStep(o) \in AnyStep
        /\ \A p \in Pointers, o \in Target : SetStep(p, o) \in AnyStep
    BY DEF AnyStep, RefStep, DerefStep, SetStep
  <1>6. /\ \A o, x : /\ RefStep(o) = RefStep(x) <=> o = x
                     /\ DerefStep(o) = DerefStep(x) <=> o = x
        /\ \A p, q, o, x : SetStep(p, o) = SetStep(q, x) <=> (p = q /\ o = x)
    BY DEF RefStep, DerefStep, SetStep
  <1>7. /\ \A o, x : RefStep(o) # DerefStep(x)
        /\ \A p, o, x : SetStep(p, o) # RefStep(x) /\ SetStep(p, o) # DerefStep(x)
    BY <1>1, <1>2, <1>3
  <1> QED
    BY <1>1, <1>2, <1>3, <1>4, <1>5, <1>6, <1>7

(* The first step is taken from a list. *)
LEMMA StepTaken ==
    ASSUME NEW l \in Seq(AnyStep), l # <<>>, Distinct(l)
    PROVE  /\ Head(l) \in Items(l) /\ Head(l) \in AnyStep
           /\ Tail(l) \in Seq(AnyStep) /\ Distinct(Tail(l))
           /\ Items(Tail(l)) = Items(l) \ {Head(l)}
           /\ \A s \in Items(Tail(l)) : s.do # Head(l).do
  <1> DEFINE r == Tail(l)
  <1>1. /\ r \in Seq(AnyStep) /\ Head(l) = l[1] /\ 1 \in DOMAIN l /\ l[1] \in AnyStep
        /\ \A k \in DOMAIN r : k + 1 \in DOMAIN l /\ r[k] = l[k + 1] /\ k \in Nat /\ k + 1 # 1
        /\ \A k \in DOMAIN l : k # 1 => k - 1 \in DOMAIN r /\ r[k - 1] = l[k]
    <2>1. /\ r \in Seq(AnyStep) /\ Head(l) = l[1] /\ Len(r) = Len(l) - 1 /\ Len(l) \in Nat
          /\ \A i \in 1..Len(r) : r[i] = l[i + 1]
      BY HeadTailProperties
    <2>2. Len(l) >= 1 /\ l[1] \in AnyStep
      OBVIOUS
    <2>3. ASSUME NEW k \in DOMAIN l, k # 1
          PROVE  k - 1 \in DOMAIN r /\ r[k - 1] = l[k]
      <3>1. k - 1 \in 1..Len(r) /\ (k - 1) + 1 = k
        BY <2>1, <2>3
      <3> HIDE DEF r
      <3> QED
        BY <2>1, <3>1
    <2> HIDE DEF r
    <2> QED
      BY <2>1, <2>2, <2>3
  <1> HIDE DEF r
  <1>2. Distinct(r)
    <2> SUFFICES ASSUME NEW j \in DOMAIN r, NEW k \in DOMAIN r, r[j].do = r[k].do
                 PROVE  j = k
      BY DEF Distinct
    <2>1. /\ j + 1 \in DOMAIN l /\ k + 1 \in DOMAIN l /\ j \in Nat /\ k \in Nat
          /\ l[j + 1].do = l[k + 1].do
      BY <1>1
    <2>2. j + 1 = k + 1
      BY <2>1, Zenon DEF Distinct
    <2> QED
      BY <2>1, <2>2
  <1>3. \A s \in Items(r) : s.do # Head(l).do
    <2> SUFFICES ASSUME NEW k \in DOMAIN r
                 PROVE  r[k].do # l[1].do
      BY <1>1 DEF Items
    <2>1. k + 1 \in DOMAIN l /\ r[k] = l[k + 1] /\ k + 1 # 1 /\ 1 \in DOMAIN l
      BY <1>1
    <2> QED
      BY <2>1, Zenon DEF Distinct
  <1>4. Items(r) = Items(l) \ {Head(l)}
    <2>1. Items(r) \subseteq Items(l) \ {Head(l)}
      <3>1. ASSUME NEW k \in DOMAIN r
            PROVE  r[k] \in Items(l) /\ r[k] # Head(l)
        <4>1. k + 1 \in DOMAIN l /\ r[k] = l[k + 1]
          BY <1>1
        <4>2. r[k].do # Head(l).do
          BY <1>3 DEF Items
        <4> QED
          BY <4>1, <4>2 DEF Items
      <3> QED
        BY <3>1 DEF Items
    <2>2. Items(l) \ {Head(l)} \subseteq Items(r)
      <3>1. ASSUME NEW k \in DOMAIN l, l[k] # Head(l)
            PROVE  l[k] \in Items(r)
        <4>1. k - 1 \in DOMAIN r /\ r[k - 1] = l[k]
          BY <1>1, <3>1
        <4> QED
          BY <4>1 DEF Items
      <3> QED
        BY <3>1 DEF Items
    <2> QED
      BY <2>1, <2>2
  <1>5. Head(l) \in Items(l)
    BY <1>1 DEF Items
  <1> QED
    BY <1>1, <1>2, <1>3, <1>4, <1>5 DEF r

(* One list after the other, with steps of other kinds. *)
LEMMA Chained ==
    ASSUME NEW a \in Seq(AnyStep), NEW b \in Seq(AnyStep), Distinct(a), Distinct(b),
           \A s \in Items(a), r \in Items(b) : s.do # r.do
    PROVE  /\ a \o b \in Seq(AnyStep) /\ Distinct(a \o b)
           /\ Items(a \o b) = Items(a) \cup Items(b)
           /\ a # <<>> => Head(a \o b) = Head(a)
  <1> DEFINE r == a \o b
  <1>1. /\ r \in Seq(AnyStep) /\ Len(r) = Len(a) + Len(b) /\ Len(a) \in Nat /\ Len(b) \in Nat
        /\ \A i \in 1..(Len(a) + Len(b)) : r[i] = IF i <= Len(a) THEN a[i] ELSE b[i - Len(a)]
    BY ConcatProperties
  <1> HIDE DEF r
  <1>2. ASSUME NEW i \in DOMAIN r
        PROVE  \/ i \in DOMAIN a /\ r[i] = a[i]
               \/ i \notin DOMAIN a /\ i - Len(a) \in DOMAIN b /\ r[i] = b[i - Len(a)]
    BY <1>1
  <1>3. \A i \in DOMAIN a : i \in DOMAIN r /\ r[i] = a[i]
    BY <1>1
  <1>4. ASSUME NEW i \in DOMAIN b
        PROVE  Len(a) + i \in DOMAIN r /\ r[Len(a) + i] = b[i]
    <2>1. /\ Len(a) + i \in 1..(Len(a) + Len(b)) /\ (Len(a) + i) - Len(a) = i
          /\ ~(Len(a) + i <= Len(a))
      BY <1>1
    <2> QED
      BY <1>1, <2>1
  <1>5. Distinct(r)
    <2> SUFFICES ASSUME NEW j \in DOMAIN r, NEW k \in DOMAIN r, r[j].do = r[k].do
                 PROVE  j = k
      BY DEF Distinct
    <2>1. CASE j \in DOMAIN a /\ k \in DOMAIN a
      BY <1>2, <2>1 DEF Distinct
    <2>2. CASE j \notin DOMAIN a /\ k \notin DOMAIN a
      <3>1. j - Len(a) = k - Len(a)
        BY <1>2, <2>2 DEF Distinct
      <3> QED
        BY <1>1, <3>1
    <2>3. CASE ~(j \in DOMAIN a <=> k \in DOMAIN a)
      BY <1>2, <2>3 DEF Items
    <2> QED
      BY <2>1, <2>2, <2>3
  <1>6. Items(r) = Items(a) \cup Items(b)
    <2>1. Items(r) \subseteq Items(a) \cup Items(b)
      BY <1>2 DEF Items
    <2>2. Items(a) \subseteq Items(r)
      BY <1>3 DEF Items
    <2>3. Items(b) \subseteq Items(r)
      BY <1>4 DEF Items
    <2> QED
      BY <2>1, <2>2, <2>3
  <1>7. a # <<>> => Head(r) = Head(a)
    <2> SUFFICES ASSUME a # <<>>
                 PROVE  Head(r) = Head(a)
      OBVIOUS
    <2>1. 1 \in DOMAIN a /\ r[1] = a[1]
      BY <1>3
    <2>2. r # <<>>
      BY <1>1, <2>1
    <2> QED
      BY <1>1, <2>1, <2>2
  <1> QED
    BY <1>1, <1>5, <1>6, <1>7 DEF r

(* A list of one step and of none. *)
LEMMA Short ==
    /\ <<>> \in Seq(AnyStep) /\ Distinct(<<>>) /\ Items(<<>>) = {}
    /\ \A s \in AnyStep : /\ <<s>> \in Seq(AnyStep) /\ Distinct(<<s>>) /\ Items(<<s>>) = {s}
                          /\ <<s>> # <<>> /\ Head(<<s>>) = s
  BY DEF Distinct, Items

-----------------------------------------------------------------------------
(* Counting. *)
One(b) == IF b THEN 1 ELSE 0

LEMMA OneChanged ==
    ASSUME NEW S, IsFiniteSet(S), NEW A \in SUBSET S, NEW B \in SUBSET S, NEW e,
           A \ {e} = B \ {e}
    PROVE  /\ Cardinality(A) \in Nat /\ Cardinality(B) \in Nat
           /\ Cardinality(B) = Cardinality(A) + One(e \in B) - One(e \in A)
  <1>1. IsFiniteSet(A) /\ IsFiniteSet(B)
    BY FS_Subset
  <1>2. /\ Cardinality(A) \in Nat /\ Cardinality(B) \in Nat
        /\ Cardinality(A \ {e}) = IF e \in A THEN Cardinality(A) - 1 ELSE Cardinality(A)
        /\ Cardinality(B \ {e}) = IF e \in B THEN Cardinality(B) - 1 ELSE Cardinality(B)
    BY <1>1, FS_CardinalityType, FS_RemoveElement
  <1> DEFINE a == Cardinality(A)
             b == Cardinality(B)
             c == Cardinality(A \ {e})
  <1>3. /\ a \in Nat /\ b \in Nat /\ c = Cardinality(B \ {e})
        /\ c = IF e \in A THEN a - 1 ELSE a
        /\ c = IF e \in B THEN b - 1 ELSE b
    BY <1>2
  <1> HIDE DEF a, b, c
  <1>4. b = a + One(e \in B) - One(e \in A)
    BY <1>3 DEF One
  <1> QED
    BY <1>3, <1>4 DEF a, b

LEMMA Finite ==
    /\ IsFiniteSet(Pointers) /\ IsFiniteSet(Threads)
    /\ \A fin, x : IsFiniteSet(PointTo(fin, x)) /\ Cardinality(PointTo(fin, x)) \in Nat
    /\ \A td, x : /\ IsFiniteSet(ToRef(td, x)) /\ Cardinality(ToRef(td, x)) \in Nat
                  /\ IsFiniteSet(ToDeref(td, x)) /\ Cardinality(ToDeref(td, x)) \in Nat
  <1>1. IsFiniteSet(Pointers) /\ IsFiniteSet(Threads)
    BY OwnershipAssumption, FS_Product DEF Pointers
  <1>2. /\ \A fin, x : PointTo(fin, x) \in SUBSET Pointers
        /\ \A td, x : ToRef(td, x) \in SUBSET Threads /\ ToDeref(td, x) \in SUBSET Threads
    BY DEF PointTo, ToRef, ToDeref
  <1>3. /\ \A fin, x : IsFiniteSet(PointTo(fin, x))
        /\ \A td, x : IsFiniteSet(ToRef(td, x)) /\ IsFiniteSet(ToDeref(td, x))
    BY <1>1, <1>2, FS_Subset
  <1> QED
    BY <1>1, <1>3, FS_CardinalityType

(* One pointer will point elsewhere. *)
LEMMA PointToAfter ==
    ASSUME NEW fin \in [Pointers -> Target], NEW p \in Pointers, NEW o \in Target, NEW x,
           NEW g \in [Pointers -> Target], g[p] = o, \A q \in Pointers \ {p} : g[q] = fin[q]
    PROVE  Cardinality(PointTo(g, x))
             = Cardinality(PointTo(fin, x)) + One(o = x) - One(fin[p] = x)
  <1> DEFINE A == PointTo(fin, x)
             B == PointTo(g, x)
  <1>2. A \in SUBSET Pointers /\ B \in SUBSET Pointers /\ A \ {p} = B \ {p}
    BY DEF PointTo
  <1>3. (p \in A <=> fin[p] = x) /\ (p \in B <=> o = x)
    BY DEF PointTo
  <1>4. Cardinality(B) = Cardinality(A) + One(p \in B) - One(p \in A)
    <2> HIDE DEF A, B
    <2> QED
      BY <1>2, Finite, OneChanged
  <1> QED
    BY <1>3, <1>4 DEF One

(* One thread has another list. *)
LEMMA ToDoAfter ==
    ASSUME NEW t \in Threads, NEW td, NEW l, NEW x,
           td[t] = l, \A u \in Threads \ {t} : td[u] = todo[u]
    PROVE  /\ Cardinality(ToRef(td, x)) = Cardinality(ToRef(todo, x))
                + One(RefStep(x) \in Items(l)) - One(RefStep(x) \in Items(todo[t]))
           /\ Cardinality(ToDeref(td, x)) = Cardinality(ToDeref(todo, x))
                + One(DerefStep(x) \in Items(l)) - One(DerefStep(x) \in Items(todo[t]))
  <1>2. /\ ToRef(todo, x) \in SUBSET Threads /\ ToRef(td, x) \in SUBSET Threads
        /\ ToRef(todo, x) \ {t} = ToRef(td, x) \ {t}
        /\ t \in ToRef(td, x) <=> RefStep(x) \in Items(l)
        /\ t \in ToRef(todo, x) <=> RefStep(x) \in Items(todo[t])
    BY DEF ToRef
  <1>3. /\ ToDeref(todo, x) \in SUBSET Threads /\ ToDeref(td, x) \in SUBSET Threads
        /\ ToDeref(todo, x) \ {t} = ToDeref(td, x) \ {t}
        /\ t \in ToDeref(td, x) <=> DerefStep(x) \in Items(l)
        /\ t \in ToDeref(todo, x) <=> DerefStep(x) \in Items(todo[t])
    BY DEF ToDeref
  <1> DEFINE A == ToRef(todo, x)
             B == ToRef(td, x)
             C == ToDeref(todo, x)
             D == ToDeref(td, x)
  <1>4. /\ A \in SUBSET Threads /\ B \in SUBSET Threads /\ A \ {t} = B \ {t}
        /\ C \in SUBSET Threads /\ D \in SUBSET Threads /\ C \ {t} = D \ {t}
    BY <1>2, <1>3, Zenon
  <1> HIDE DEF A, B, C, D
  <1>5. /\ Cardinality(B) = Cardinality(A) + One(t \in B) - One(t \in A)
        /\ Cardinality(D) = Cardinality(C) + One(t \in D) - One(t \in C)
    <2>1. IsFiniteSet(Threads)
      BY OwnershipAssumption
    <2>2. Cardinality(B) = Cardinality(A) + One(t \in B) - One(t \in A)
      BY <1>4, <2>1, OneChanged
    <2>3. Cardinality(D) = Cardinality(C) + One(t \in D) - One(t \in C)
      BY <1>4, <2>1, OneChanged
    <2> QED
      BY <2>2, <2>3
  <1> QED
    BY <1>2, <1>3, <1>5 DEF One, A, B, C, D

(* There are at least as many pointers as threads that each have one.       *)
LEMMA Enough ==
    ASSUME NEW x, NEW Q \in SUBSET Pointers, \A t \in ToRef(todo, x) : \E q \in Q : q[1] = t
    PROVE  Cardinality(ToRef(todo, x)) <= Cardinality(Q)
  <1> DEFINE g == [t \in ToRef(todo, x) |-> CHOOSE q \in Q : q[1] = t]
  <1>1. \A t \in ToRef(todo, x) : g[t] \in Q /\ g[t][1] = t
    OBVIOUS
  <1>2. g \in [ToRef(todo, x) -> Q]
    BY <1>1
  <1> HIDE DEF g
  <1>3. g \in Injection(ToRef(todo, x), Q)
    BY <1>1, <1>2 DEF Injection, IsInjective
  <1>4. IsFiniteSet(Q)
    BY Finite, FS_Subset
  <1> QED
    BY <1>3, <1>4, FS_Injection

-----------------------------------------------------------------------------
(* What the invariant says of counts. *)

LEMMA Reserve ==
    ASSUME NEW fin \in [Pointers -> Target], OwnTypes, Balanced(fin), Backed(fin),
           NEW x \in Objects
    PROVE  /\ Cardinality(ToRef(todo, x)) <= Cardinality(PointTo(fin, x))
           /\ \A p \in Pointers :
                fin[p] = x /\ todo[p[1]] = <<>> => count[x] > 0
           /\ \A t \in Threads : todo[t] # <<>> /\ Head(todo[t]) = RefStep(x) => count[x] > 0
           /\ \A t \in Threads : DerefStep(x) \in Items(todo[t]) => count[x] > 0
  <1> DEFINE R == Cardinality(ToRef(todo, x))
             F == Cardinality(PointTo(fin, x))
             D == Cardinality(ToDeref(todo, x))
  <1>1. R \in Nat /\ F \in Nat /\ D \in Nat /\ count[x] \in Nat /\ raw[x] \in Nat
        /\ count[x] + R = F + raw[x] + D
    BY Finite DEF OwnTypes, Balanced
  <1>2. \A t \in ToRef(todo, x) : t \in Threads /\ \E q \in PointTo(fin, x) : q[1] = t
    BY DEF ToRef, Backed, PointTo
  <1>3. R <= F
    BY <1>2, Enough DEF PointTo
  <1> HIDE DEF R, F, D
  <1>4. ASSUME NEW p \in PointTo(fin, x),
               \A t \in ToRef(todo, x) : \E q \in PointTo(fin, x) \ {p} : q[1] = t
        PROVE  count[x] > 0
    <2>1. R <= Cardinality(PointTo(fin, x) \ {p})
      BY <1>4, Enough DEF PointTo, R
    <2>2. Cardinality(PointTo(fin, x) \ {p}) = F - 1
      BY Finite, FS_RemoveElement DEF F
    <2> QED
      BY <1>1, <2>1, <2>2
  <1>5. ASSUME NEW p \in Pointers, fin[p] = x, todo[p[1]] = <<>>
        PROVE  count[x] > 0
    <2>1. p \in PointTo(fin, x)
      BY <1>5 DEF PointTo
    <2>2. p[1] \notin ToRef(todo, x)
      BY <1>5 DEF ToRef, Items
    <2> QED
      BY <1>2, <1>4, <2>1, <2>2
  <1>6. ASSUME NEW t \in Threads, DerefStep(x) \in Items(todo[t])
        PROVE  count[x] > 0
    <2>1. ToDeref(todo, x) # {}
      BY <1>6 DEF ToDeref
    <2>2. D # 0
      BY <2>1, Finite, FS_EmptySet DEF D
    <2> QED
      BY <1>1, <1>3, <2>2
  <1>7. ASSUME NEW t \in Threads, todo[t] # <<>>, Head(todo[t]) = RefStep(x)
        PROVE  count[x] > 0
    <2>1. RefStep(x) \in Items(todo[t])
      BY <1>7, StepTaken DEF OwnTypes
    <2>2. PICK q, r \in Pointers :
            /\ q[1] = t /\ r[1] = t /\ fin[q] = x /\ fin[r] = x
            /\ q # r \/ DerefStep(x) \in Items(todo[t])
      BY <2>1 DEF Backed
    <2>3. CASE q # r
      <3>1. r \in PointTo(fin, x) /\ q \in PointTo(fin, x) \ {r}
        BY <2>2, <2>3 DEF PointTo
      <3>2. ASSUME NEW u \in ToRef(todo, x)
            PROVE  \E v \in PointTo(fin, x) \ {r} : v[1] = u
        <4>1. PICK v \in PointTo(fin, x) : v[1] = u
          BY <1>2
        <4>2. CASE v = r
          BY <2>2, <3>1, <4>1, <4>2
        <4>3. CASE v # r
          BY <4>1, <4>3
        <4> QED
          BY <4>2, <4>3
      <3> QED
        BY <1>4, <3>1, <3>2
    <2> QED
      BY <1>6, <2>2, <2>3
  <1> QED
    BY <1>3, <1>5, <1>6, <1>7 DEF R, F

-----------------------------------------------------------------------------
(* The lists of the operations. *)

Refs(o) == IF o = Null THEN {} ELSE {RefStep(o)}
Derefs(o) == IF o = Null THEN {} ELSE {DerefStep(o)}

LEMMA OwnershipParts ==
    ASSUME NEW p \in Pointers, NEW o \in Target
    PROVE  /\ Ref(o) \in Seq(AnyStep) /\ Distinct(Ref(o)) /\ Items(Ref(o)) = Refs(o)
           /\ Deref(o) \in Seq(AnyStep) /\ Distinct(Deref(o)) /\ Items(Deref(o)) = Derefs(o)
           /\ Set(p, o) \in Seq(AnyStep) /\ Distinct(Set(p, o))
           /\ Items(Set(p, o)) = {SetStep(p, o)}
           /\ Refs(o) \subseteq AnyStep /\ Derefs(o) \subseteq AnyStep /\ SetStep(p, o) \in AnyStep
           /\ \A s \in Refs(o) : s.do = "ref"
           /\ \A s \in Derefs(o) : s.do = "deref"
           /\ SetStep(p, o).do = "set"
           /\ o # Null => Ref(o) # <<>> /\ Head(Ref(o)) = RefStep(o)
  <1>1. o # Null => o \in Objects
    BY DEF Target
  <1>2. /\ o # Null => RefStep(o) \in AnyStep /\ DerefStep(o) \in AnyStep
        /\ o # Null => RefStep(o).do = "ref" /\ DerefStep(o).do = "deref"
        /\ SetStep(p, o) \in AnyStep /\ SetStep(p, o).do = "set"
    BY <1>1, StepKinds
  <1>3. /\ Ref(o) = IF o = Null THEN <<>> ELSE <<RefStep(o)>>
        /\ Deref(o) = IF o = Null THEN <<>> ELSE <<DerefStep(o)>>
        /\ Set(p, o) = <<SetStep(p, o)>>
    BY DEF Ref, Deref, Set, RefStep, DerefStep, SetStep
  <1>4. CASE o = Null
    BY <1>2, <1>3, <1>4, Short, Zenon DEF Refs, Derefs
  <1>5. CASE o # Null
    BY <1>2, <1>3, <1>5, Short, Zenon DEF Refs, Derefs
  <1> QED
    BY <1>4, <1>5

(* What is done when o is put where the object old has been; a reference is *)
(* counted or taken over.                                                   *)
Puts(l, p, o, old, refs) ==
    /\ l \in Seq(AnyStep) /\ Distinct(l)
    /\ Items(l) = {SetStep(p, o)} \cup Derefs(old) \cup (IF refs THEN Refs(o) ELSE {})

LEMMA TakePuts ==
    ASSUME NEW p \in Pointers, NEW o \in Target, ptr[p] \in Target
    PROVE  Puts(Take(p, o), p, o, ptr[p], FALSE)
  <1> DEFINE a == Set(p, o)
             b == Deref(ptr[p])
  <1>1. Take(p, o) = a \o b
    BY DEF Take
  <1>2. /\ a \in Seq(AnyStep) /\ Distinct(a) /\ Items(a) = {SetStep(p, o)}
        /\ b \in Seq(AnyStep) /\ Distinct(b) /\ Items(b) = Derefs(ptr[p])
        /\ \A s \in Derefs(ptr[p]) : s.do = "deref"
        /\ SetStep(p, o).do = "set"
    BY OwnershipParts
  <1> HIDE DEF a, b
  <1>3. a \o b \in Seq(AnyStep) /\ Distinct(a \o b) /\ Items(a \o b) = Items(a) \cup Items(b)
    <2>1. \A s \in Items(a), r \in Items(b) : s.do # r.do
      BY <1>2
    <2> QED
      BY <1>2, <2>1, Chained
  <1> QED
    BY <1>1, <1>2, <1>3 DEF Puts

LEMMA ResetPuts ==
    ASSUME NEW p \in Pointers, NEW o \in Target, ptr[p] \in Target
    PROVE  Puts(Reset(p, o, TRUE), p, o, ptr[p], TRUE)
  <1> DEFINE a == Deref(ptr[p])
             b == Set(p, o)
             c == Ref(o)
             d == a \o b
  <1>1. Reset(p, o, TRUE) = d \o c
    BY DEF Reset
  <1>2. /\ a \in Seq(AnyStep) /\ Distinct(a) /\ Items(a) = Derefs(ptr[p])
        /\ b \in Seq(AnyStep) /\ Distinct(b) /\ Items(b) = {SetStep(p, o)}
        /\ c \in Seq(AnyStep) /\ Distinct(c) /\ Items(c) = Refs(o)
        /\ \A s \in Derefs(ptr[p]) : s.do = "deref"
        /\ \A s \in Refs(o) : s.do = "ref"
        /\ SetStep(p, o).do = "set"
    BY OwnershipParts
  <1> HIDE DEF a, b, c
  <1>3. d \in Seq(AnyStep) /\ Distinct(d) /\ Items(d) = Items(a) \cup Items(b)
    <2>1. \A s \in Items(a), r \in Items(b) : s.do # r.do
      BY <1>2
    <2> QED
      BY <1>2, <2>1, Chained
  <1> HIDE DEF d
  <1>4. d \o c \in Seq(AnyStep) /\ Distinct(d \o c) /\ Items(d \o c) = Items(d) \cup Items(c)
    <2>1. \A s \in Items(d), r \in Items(c) : s.do # r.do
      BY <1>2, <1>3
    <2> QED
      BY <1>2, <1>3, <2>1, Chained
  <1>5. Items(d \o c) = {SetStep(p, o)} \cup Derefs(ptr[p]) \cup Refs(o)
    BY <1>2, <1>3, <1>4
  <1> QED
    BY <1>1, <1>4, <1>5 DEF Puts

LEMMA BorrowPuts ==
    ASSUME NEW p \in Pointers, NEW o \in Objects, ptr[p] \in Target
    PROVE  /\ Puts(Ref(o) \o Take(p, o), p, o, ptr[p], TRUE)
           /\ Head(Ref(o) \o Take(p, o)) = RefStep(o)
  <1> DEFINE a == Ref(o)
             b == Take(p, o)
  <1>1. o \in Target /\ o # Null
    BY OwnershipAssumption DEF Target
  <1>2. /\ a \in Seq(AnyStep) /\ Distinct(a) /\ Items(a) = Refs(o) /\ a # <<>>
        /\ Head(a) = RefStep(o)
        /\ \A s \in Refs(o) : s.do = "ref"
        /\ \A s \in Derefs(ptr[p]) : s.do = "deref"
        /\ SetStep(p, o).do = "set"
    BY <1>1, OwnershipParts
  <1>3. b \in Seq(AnyStep) /\ Distinct(b) /\ Items(b) = {SetStep(p, o)} \cup Derefs(ptr[p])
    BY <1>1, TakePuts DEF Puts
  <1> HIDE DEF a, b
  <1>4. /\ a \o b \in Seq(AnyStep) /\ Distinct(a \o b) /\ Items(a \o b) = Items(a) \cup Items(b)
        /\ Head(a \o b) = Head(a)
    <2>1. \A s \in Items(a), r \in Items(b) : s.do # r.do
      BY <1>2, <1>3
    <2> QED
      BY <1>2, <1>3, <2>1, Chained
  <1> QED
    BY <1>2, <1>3, <1>4 DEF Puts, a, b

-----------------------------------------------------------------------------
(* An operation begins: the thread of p will put o there, counting a        *)
(* reference or taking over one that is there.                              *)
Begin(p, o, l, refs) ==
    /\ p \in Pointers /\ todo[p[1]] = <<>> /\ o \in Target /\ refs \in BOOLEAN
    /\ Puts(l, p, o, ptr[p], refs)
    /\ refs /\ o # Null =>
         \E r \in Pointers : r[1] = p[1] /\ ptr[r] = o /\ (r # p \/ Head(l) = RefStep(o))
    /\ todo' = [todo EXCEPT ![p[1]] = l] /\ ptr' = ptr
    /\ count' \in [Objects -> Nat] /\ raw' \in [Objects -> Nat]
    /\ life' \in [Objects -> {"unborn", "alive", "deleted"}]
    /\ Lives'
    /\ \A x \in Objects :
         count'[x] + One(refs /\ o = x) + raw[x] = count[x] + One(o = x) + raw'[x]

(* What the list of a beginning operation holds. *)
Began(p, o, l, refs) ==
    /\ p \in Pointers /\ o \in Target /\ ptr' = ptr
    /\ p[1] \in Threads /\ ptr[p] \in Target /\ Items(todo[p[1]]) = {}
    /\ l \in Seq(AnyStep) /\ Distinct(l)
    /\ todo \in [Threads -> Seq(AnyStep)] /\ todo' \in [Threads -> Seq(AnyStep)]
    /\ todo'[p[1]] = l
    /\ \A u \in Threads \ {p[1]} : todo'[u] = todo[u]
    /\ \A q, x : SetStep(q, x) \in Items(l) <=> (q = p /\ x = o)
    /\ \A x \in Objects : DerefStep(x) \in Items(l) <=> ptr[p] = x
    /\ \A x \in Objects : RefStep(x) \in Items(l) <=> (refs /\ o = x)

LEMMA BeginSteps ==
    ASSUME OwnTypes, NEW p, NEW o, NEW l, NEW refs, Begin(p, o, l, refs)
    PROVE  Began(p, o, l, refs)
  <1>1. p[1] \in Threads /\ ptr[p] \in Target /\ Null \notin Objects /\ refs \in BOOLEAN
    BY OwnershipAssumption DEF Begin, Pointers, OwnTypes
  <1>2. Items(todo[p[1]]) = {}
    BY DEF Begin, Items
  <1>3. /\ l \in Seq(AnyStep) /\ Distinct(l)
        /\ Items(l) = {SetStep(p, o)} \cup Derefs(ptr[p]) \cup (IF refs THEN Refs(o) ELSE {})
    BY DEF Begin, Puts
  <1>4. /\ todo' \in [Threads -> Seq(AnyStep)]
        /\ todo'[p[1]] = l /\ \A u \in Threads \ {p[1]} : todo'[u] = todo[u]
    BY <1>1, <1>3 DEF Begin, OwnTypes
  <1>5. /\ \A s : s \in Derefs(ptr[p]) <=> (ptr[p] # Null /\ s = DerefStep(ptr[p]))
        /\ \A s : s \in Refs(o) <=> (o # Null /\ s = RefStep(o))
    BY DEF Derefs, Refs
  <1>6. \A s : s \in Items(l) <=> \/ s = SetStep(p, o)
                                  \/ ptr[p] # Null /\ s = DerefStep(ptr[p])
                                  \/ refs /\ o # Null /\ s = RefStep(o)
    BY <1>1, <1>3, <1>5
  <1>7. \A q, x : SetStep(q, x) \in Items(l) <=> (q = p /\ x = o)
    BY <1>6, StepKinds
  <1>8. \A x \in Objects : DerefStep(x) \in Items(l) <=> ptr[p] = x
    BY <1>1, <1>6, StepKinds
  <1>9. \A x \in Objects : RefStep(x) \in Items(l) <=> (refs /\ o = x)
    BY <1>1, <1>6, StepKinds
  <1>10. /\ p \in Pointers /\ o \in Target /\ ptr' = ptr
         /\ todo \in [Threads -> Seq(AnyStep)]
    BY DEF Begin, OwnTypes
  <1> QED
    BY <1>1, <1>2, <1>3, <1>4, <1>7, <1>8, <1>9, <1>10 DEF Began

LEMMA BeginEnds ==
    ASSUME OwnTypes, NEW p, NEW o, NEW l, NEW refs, Begin(p, o, l, refs),
           NEW fin \in [Pointers -> Target], EndsAs(fin),
           NEW g \in [Pointers -> Target], g[p] = o, \A q \in Pointers \ {p} : g[q] = fin[q]
    PROVE  EndsAs(g)' /\ fin[p] = ptr[p]
  <1>1. /\ p \in Pointers /\ ptr' = ptr /\ o \in Target /\ p[1] \in Threads
        /\ Items(todo[p[1]]) = {}
        /\ todo'[p[1]] = l /\ \A u \in Threads \ {p[1]} : todo'[u] = todo[u]
        /\ \A q, x : SetStep(q, x) \in Items(l) <=> (q = p /\ x = o)
    <2>1. Began(p, o, l, refs)
      BY BeginSteps
    <2> QED
      BY <2>1 DEF Began
  <1>2. \A q \in Pointers : q[1] = p[1] => fin[q] = ptr[q]
    BY <1>1 DEF EndsAs
  <1>3. ASSUME NEW q \in Pointers
        PROVE  IF \E x \in Target : SetStep(q, x) \in Items(todo'[q[1]])
               THEN SetStep(q, g[q]) \in Items(todo'[q[1]])
               ELSE g[q] = ptr'[q]
    <2>1. q[1] \in Threads
      BY DEF Pointers
    <2>2. CASE q[1] # p[1]
      <3>1. todo'[q[1]] = todo[q[1]] /\ g[q] = fin[q] /\ ptr'[q] = ptr[q]
        BY <1>1, <2>1, <2>2
      <3>2. IF \E x \in Target : SetStep(q, x) \in Items(todo[q[1]])
            THEN SetStep(q, fin[q]) \in Items(todo[q[1]])
            ELSE fin[q] = ptr[q]
        BY DEF EndsAs
      <3> QED
        BY <3>1, <3>2
    <2>3. CASE q[1] = p[1] /\ q # p
      <3>1. g[q] = ptr'[q]
        BY <1>1, <1>2, <2>3
      <3>2. ~\E x \in Target : SetStep(q, x) \in Items(todo'[q[1]])
        BY <1>1, <2>3
      <3> QED
        BY <3>1, <3>2
    <2>4. CASE q = p
      <3>1. SetStep(q, g[q]) \in Items(todo'[q[1]])
        BY <1>1, <2>4
      <3> QED
        BY <1>1, <3>1, <2>4
    <2> QED
      BY <2>2, <2>3, <2>4
  <1>4. EndsAs(g)'
    BY <1>3 DEF EndsAs
  <1> QED
    BY <1>1, <1>2, <1>4

LEMMA BeginBalanced ==
    ASSUME OwnTypes, NEW p, NEW o, NEW l, NEW refs, Begin(p, o, l, refs),
           NEW fin \in [Pointers -> Target], fin[p] = ptr[p], Balanced(fin)
    PROVE  Balanced([fin EXCEPT ![p] = o])'
  <1> DEFINE g == [fin EXCEPT ![p] = o]
             t == p[1]
  <1>1. /\ p \in Pointers /\ o \in Target /\ t \in Threads /\ Items(todo[t]) = {}
        /\ todo'[t] = l /\ todo \in [Threads -> Seq(AnyStep)]
        /\ \A u \in Threads \ {t} : todo'[u] = todo[u]
        /\ \A x \in Objects : DerefStep(x) \in Items(l) <=> ptr[p] = x
        /\ \A x \in Objects : RefStep(x) \in Items(l) <=> (refs /\ o = x)
    <2>1. Began(p, o, l, refs)
      BY BeginSteps
    <2> QED
      BY <2>1 DEF Began
  <1>2. ASSUME NEW x \in Objects
        PROVE  count'[x] + Cardinality(ToRef(todo', x))
                 = Cardinality(PointTo(g, x)) + raw'[x] + Cardinality(ToDeref(todo', x))
    <2> DEFINE R == Cardinality(ToRef(todo, x))
               D == Cardinality(ToDeref(todo, x))
               F == Cardinality(PointTo(fin, x))
               R1 == Cardinality(ToRef(todo', x))
               D1 == Cardinality(ToDeref(todo', x))
               F1 == Cardinality(PointTo(g, x))
    <2>1. F1 = F + One(o = x) - One(ptr[p] = x)
      <3>1. Cardinality(PointTo(g, x))
              = Cardinality(PointTo(fin, x)) + One(o = x) - One(fin[p] = x)
        <4>1. p \in Pointers /\ o \in Target
          BY <1>1
        <4>2. g \in [Pointers -> Target] /\ g[p] = o /\ \A q \in Pointers \ {p} : g[q] = fin[q]
          BY <4>1
        <4> HIDE DEF t, g
        <4> QED
          BY <4>1, <4>2, PointToAfter
      <3> QED
        BY <3>1
    <2>2. /\ R1 = R + One(RefStep(x) \in Items(l)) - One(RefStep(x) \in Items(todo[t]))
          /\ D1 = D + One(DerefStep(x) \in Items(l)) - One(DerefStep(x) \in Items(todo[t]))
      <3>1. PICK td : td = todo'
        OBVIOUS
      <3>2. /\ t \in Threads /\ todo \in [Threads -> Seq(AnyStep)] /\ td[t] = l
            /\ \A u \in Threads \ {t} : td[u] = todo[u]
        BY <1>1, <3>1
      <3> HIDE DEF t, g
      <3>3. /\ Cardinality(ToRef(td, x)) = Cardinality(ToRef(todo, x))
                 + One(RefStep(x) \in Items(l)) - One(RefStep(x) \in Items(todo[t]))
            /\ Cardinality(ToDeref(td, x)) = Cardinality(ToDeref(todo, x))
                 + One(DerefStep(x) \in Items(l)) - One(DerefStep(x) \in Items(todo[t]))
        BY <3>2, ToDoAfter
      <3> QED
        BY <3>1, <3>3
    <2>3. R \in Nat /\ D \in Nat /\ F \in Nat
      BY Finite
    <2>4. count[x] + R = F + raw[x] + D
      BY DEF Balanced
    <2>5. /\ count[x] \in Nat /\ raw[x] \in Nat /\ count'[x] \in Nat /\ raw'[x] \in Nat
          /\ count'[x] + One(refs /\ o = x) + raw[x] = count[x] + One(o = x) + raw'[x]
      BY DEF OwnTypes, Begin
    <2>6. /\ RefStep(x) \in Items(l) <=> (refs /\ o = x)
          /\ DerefStep(x) \in Items(l) <=> ptr[p] = x
          /\ RefStep(x) \notin Items(todo[t]) /\ DerefStep(x) \notin Items(todo[t])
      BY <1>1
    <2> HIDE DEF R, D, F, R1, D1, F1, t
    <2>7. R1 = R + One(refs /\ o = x) /\ D1 = D + One(ptr[p] = x)
      BY <2>2, <2>3, <2>6 DEF One
    <2>8. One(refs /\ o = x) \in Nat /\ One(o = x) \in Nat /\ One(ptr[p] = x) \in Nat
      BY DEF One
    <2> DEFINE i == One(refs /\ o = x)
               j == One(o = x)
               k == One(ptr[p] = x)
    <2>9. /\ i \in Nat /\ j \in Nat /\ k \in Nat /\ R1 = R + i /\ D1 = D + k /\ F1 = F + j - k
          /\ count'[x] + i + raw[x] = count[x] + j + raw'[x]
      BY <2>1, <2>5, <2>7, <2>8
    <2> HIDE DEF i, j, k
    <2>10. count'[x] + R1 = F1 + raw'[x] + D1
      <3> DEFINE c == count[x]
                 c1 == count'[x]
                 w == raw[x]
                 w1 == raw'[x]
      <3>1. /\ c \in Nat /\ c1 \in Nat /\ w \in Nat /\ w1 \in Nat
            /\ c + R = F + w + D /\ c1 + i + w = c + j + w1
        BY <2>4, <2>5, <2>9
      <3> HIDE DEF c, c1, w, w1
      <3>2. /\ i \in Nat /\ j \in Nat /\ k \in Nat
            /\ R1 = R + i /\ D1 = D + k /\ F1 = F + j - k
        BY <2>9
      <3>3. c1 + (R + i) = (F + j - k) + w1 + (D + k)
        BY <2>3, <3>1, <3>2
      <3> QED
        BY <3>2, <3>3 DEF c1, w1
    <2> QED
      BY <2>10 DEF R1, D1, F1
  <1> HIDE DEF g
  <1>3. Balanced(g)'
    BY <1>2 DEF Balanced, PointTo, ToRef, ToDeref
  <1> QED
    BY <1>3 DEF g

LEMMA BeginBacked ==
    ASSUME OwnTypes, NEW p, NEW o, NEW l, NEW refs, Begin(p, o, l, refs),
           NEW fin \in [Pointers -> Target], EndsAs(fin), Backed(fin),
           NEW g \in [Pointers -> Target], g[p] = o, \A q \in Pointers \ {p} : g[q] = fin[q]
    PROVE  Backed(g)'
  <1>1. /\ p \in Pointers /\ o \in Target /\ p[1] \in Threads /\ Items(todo[p[1]]) = {}
        /\ todo'[p[1]] = l /\ \A u \in Threads \ {p[1]} : todo'[u] = todo[u]
        /\ \A x \in Objects : DerefStep(x) \in Items(l) <=> ptr[p] = x
        /\ \A x \in Objects : RefStep(x) \in Items(l) <=> (refs /\ o = x)
        /\ Null \notin Objects
    <2>1. Began(p, o, l, refs)
      BY BeginSteps
    <2> QED
      BY <2>1, OwnershipAssumption DEF Began
  <1>2. \A q \in Pointers : q[1] = p[1] => fin[q] = ptr[q]
    BY <1>1 DEF EndsAs
  <1>3. ASSUME NEW u \in Threads, NEW x \in Objects, RefStep(x) \in Items(todo'[u])
        PROVE  \E q, r \in Pointers :
                 /\ q[1] = u /\ r[1] = u /\ g[q] = x /\ g[r] = x
                 /\ q # r \/ (Head(todo'[u]) = RefStep(x) /\ DerefStep(x) \in Items(todo'[u]))
    <2>1. CASE u # p[1]
      <3>1. PICK q, r \in Pointers :
              /\ q[1] = u /\ r[1] = u /\ fin[q] = x /\ fin[r] = x
              /\ q # r \/ (Head(todo[u]) = RefStep(x) /\ DerefStep(x) \in Items(todo[u]))
        BY <1>1, <1>3, <2>1 DEF Backed
      <3>2. q # p /\ r # p /\ todo'[u] = todo[u]
        BY <1>1, <2>1, <3>1
      <3> QED
        BY <3>1, <3>2
    <2>2. CASE u = p[1]
      <3>1. refs /\ o = x /\ o # Null
        BY <1>1, <1>3, <2>2
      <3>2. PICK r \in Pointers : r[1] = p[1] /\ ptr[r] = o /\ (r # p \/ Head(l) = RefStep(o))
        BY <3>1 DEF Begin
      <3>3. fin[r] = o
        BY <1>2, <3>2
      <3>4. CASE r # p
        BY <1>1, <2>2, <3>1, <3>2, <3>3, <3>4
      <3>5. CASE r = p
        <4>1. Head(todo'[u]) = RefStep(x) /\ DerefStep(x) \in Items(todo'[u])
          BY <1>1, <2>2, <3>1, <3>2, <3>5
        <4> QED
          BY <1>1, <2>2, <3>1, <4>1
      <3> QED
        BY <3>4, <3>5
    <2> QED
      BY <2>1, <2>2
  <1> QED
    BY <1>3 DEF Backed

LEMMA Begun ==
    ASSUME OwnershipInv, NEW p, NEW o, NEW l, NEW refs, Begin(p, o, l, refs)
    PROVE  OwnershipInv'
  <1>1. OwnTypes
    BY DEF OwnershipInv
  <1>2. PICK fin \in [Pointers -> Target] : EndsAs(fin) /\ Balanced(fin) /\ Backed(fin)
    BY DEF OwnershipInv
  <1> DEFINE g == [fin EXCEPT ![p] = o]
  <1>3. g \in [Pointers -> Target] /\ g[p] = o /\ \A q \in Pointers \ {p} : g[q] = fin[q]
    BY DEF Begin
  <1>4. OwnTypes'
    <2>0. Began(p, o, l, refs)
      BY <1>1, BeginSteps
    <2>1. ASSUME NEW u \in Threads
          PROVE  /\ Distinct(todo'[u])
                 /\ \A q \in Pointers, x \in Target : SetStep(q, x) \in Items(todo'[u]) => q[1] = u
      <3>1. CASE u = p[1]
        BY <3>1, <2>0 DEF Began
      <3>2. CASE u # p[1]
        <4>1. todo'[u] = todo[u]
          BY <3>2, <2>0 DEF Began
        <4> QED
          BY <1>1, <4>1 DEF OwnTypes
      <3> QED
        BY <3>1, <3>2
    <2>2. todo' \in [Threads -> Seq(AnyStep)]
      BY <2>0 DEF Began
    <2>3. /\ life' \in [Objects -> {"unborn", "alive", "deleted"}]
          /\ count' \in [Objects -> Nat] /\ raw' \in [Objects -> Nat]
          /\ ptr' \in [Pointers -> Target]
      BY <1>1 DEF Begin, OwnTypes
    <2> QED
      BY <2>1, <2>2, <2>3 DEF OwnTypes
  <1> HIDE DEF g
  <1>5. EndsAs(g)' /\ fin[p] = ptr[p]
    BY <1>1, <1>2, <1>3, BeginEnds
  <1>6. Balanced(g)'
    BY <1>1, <1>2, <1>5, BeginBalanced DEF g
  <1>7. Backed(g)'
    BY <1>1, <1>2, <1>3, BeginBacked
  <1>8. Lives'
    BY DEF Begin
  <1> QED
    BY <1>3, <1>4, <1>5, <1>6, <1>7, <1>8 DEF OwnershipInv

-----------------------------------------------------------------------------
(* The operations that begin a list. *)

LEMMA MakeKeeps ==
    ASSUME OwnershipInv, NEW t \in Threads, NEW s \in Slots, Make(t, s)
    PROVE  OwnershipInv'
  <1>1. PICK o \in Objects :
          /\ life[o] = "unborn" /\ Begins(t, Take(<<t, s>>, o))
          /\ life' = [life EXCEPT ![o] = "alive"] /\ count' = [count EXCEPT ![o] = 1]
          /\ ptr' = ptr /\ raw' = raw
    BY DEF Make
  <1> DEFINE p == <<t, s>>
             l == Take(p, o)
  <1>2. p \in Pointers /\ p[1] = t /\ o \in Target
    BY DEF Pointers, Target
  <1>3. OwnTypes /\ Lives
    BY DEF OwnershipInv
  <1>4. /\ ptr[p] \in Target
        /\ life \in [Objects -> {"unborn", "alive", "deleted"}]
        /\ count \in [Objects -> Nat] /\ raw \in [Objects -> Nat]
    BY <1>2, <1>3 DEF OwnTypes
  <1>5. count[o] = 0
    BY <1>1, <1>3, <1>4 DEF Lives
  <1>6. Puts(l, p, o, ptr[p], FALSE)
    BY <1>2, <1>4, TakePuts
  <1>7. todo[p[1]] = <<>> /\ todo' = [todo EXCEPT ![p[1]] = l]
    BY <1>1, <1>2 DEF Begins
  <1> HIDE DEF p, l
  <1>8. Lives'
    BY <1>1, <1>3, <1>4, <1>5 DEF Lives
  <1>9. ASSUME NEW x \in Objects
        PROVE  count'[x] + One(FALSE /\ o = x) + raw[x] = count[x] + One(o = x) + raw'[x]
    BY <1>1, <1>4, <1>5 DEF One
  <1>10. /\ count' \in [Objects -> Nat] /\ raw' \in [Objects -> Nat]
         /\ life' \in [Objects -> {"unborn", "alive", "deleted"}]
    BY <1>1, <1>4
  <1>11. Begin(p, o, l, FALSE)
    BY <1>1, <1>2, <1>6, <1>7, <1>8, <1>9, <1>10 DEF Begin
  <1> QED
    BY <1>11, Begun

(* What CopyAssign, Borrow and Drop have in common: nothing but the list. *)
LEMMA ListOnly ==
    ASSUME OwnershipInv, NEW p \in Pointers, NEW o \in Target, NEW l,
           todo[p[1]] = <<>>, todo' = [todo EXCEPT ![p[1]] = l],
           life' = life, count' = count, ptr' = ptr, raw' = raw,
           Puts(l, p, o, ptr[p], TRUE),
           o # Null => \E r \in Pointers : r[1] = p[1] /\ ptr[r] = o
                                           /\ (r # p \/ Head(l) = RefStep(o))
    PROVE  OwnershipInv'
  <1>1. OwnTypes /\ Lives /\ Lives'
    BY DEF OwnershipInv, Lives
  <1>2. /\ count \in [Objects -> Nat] /\ raw \in [Objects -> Nat]
        /\ life \in [Objects -> {"unborn", "alive", "deleted"}]
    BY <1>1 DEF OwnTypes
  <1>3. ASSUME NEW x \in Objects
        PROVE  count'[x] + One(TRUE /\ o = x) + raw[x] = count[x] + One(o = x) + raw'[x]
    BY <1>2 DEF One
  <1>4. Begin(p, o, l, TRUE)
    BY <1>1, <1>2, <1>3 DEF Begin
  <1> QED
    BY <1>4, Begun

LEMMA CopyAssignKeeps ==
    ASSUME OwnershipInv, SelfAssigns = FALSE,
           NEW t \in Threads, NEW s \in Slots, NEW r \in Slots, CopyAssign(t, s, r)
    PROVE  OwnershipInv'
  <1> DEFINE p == <<t, s>>
             q == <<t, r>>
             o == ptr[q]
             l == Reset(p, o, TRUE)
  <1>1. p \in Pointers /\ q \in Pointers /\ p[1] = t /\ q[1] = t /\ p # q
    BY DEF Pointers, CopyAssign
  <1>2. ptr[p] \in Target /\ o \in Target
    BY <1>1 DEF OwnershipInv, OwnTypes
  <1>3. Puts(l, p, o, ptr[p], TRUE)
    BY <1>1, <1>2, ResetPuts
  <1>4. /\ todo[p[1]] = <<>> /\ todo' = [todo EXCEPT ![p[1]] = l]
        /\ life' = life /\ count' = count /\ ptr' = ptr /\ raw' = raw
    BY <1>1 DEF CopyAssign, Begins
  <1>5. \E u \in Pointers : u[1] = p[1] /\ ptr[u] = o /\ (u # p \/ Head(l) = RefStep(o))
    BY <1>1
  <1> HIDE DEF p, q, o, l
  <1> QED
    BY <1>1, <1>2, <1>3, <1>4, <1>5, ListOnly

LEMMA BorrowKeeps ==
    ASSUME OwnershipInv,
           NEW t \in Threads, NEW s \in Slots, NEW r \in Slots, Borrow(t, s, r)
    PROVE  OwnershipInv'
  <1> DEFINE p == <<t, s>>
             q == <<t, r>>
             o == ptr[q]
             l == Ref(o) \o Take(p, o)
  <1>1. p \in Pointers /\ q \in Pointers /\ p[1] = t /\ q[1] = t
    BY DEF Pointers
  <1>2. ptr[p] \in Target /\ o \in Objects /\ o \in Target
    BY <1>1 DEF OwnershipInv, OwnTypes, Borrow, Target
  <1>3. Puts(l, p, o, ptr[p], TRUE) /\ Head(l) = RefStep(o)
    BY <1>1, <1>2, BorrowPuts
  <1>4. /\ todo[p[1]] = <<>> /\ todo' = [todo EXCEPT ![p[1]] = l]
        /\ life' = life /\ count' = count /\ ptr' = ptr /\ raw' = raw
    BY <1>1 DEF Borrow, Begins
  <1>5. \E u \in Pointers : u[1] = p[1] /\ ptr[u] = o /\ (u # p \/ Head(l) = RefStep(o))
    BY <1>1, <1>3
  <1> HIDE DEF p, q, o, l
  <1> QED
    BY <1>1, <1>2, <1>3, <1>4, <1>5, ListOnly

LEMMA DropKeeps ==
    ASSUME OwnershipInv, NEW t \in Threads, NEW s \in Slots, Drop(t, s)
    PROVE  OwnershipInv'
  <1> DEFINE p == <<t, s>>
             l == Reset(p, Null, TRUE)
  <1>1. p \in Pointers /\ p[1] = t /\ Null \in Target
    BY DEF Pointers, Target
  <1>2. ptr[p] \in Target
    BY <1>1 DEF OwnershipInv, OwnTypes
  <1>3. Puts(l, p, Null, ptr[p], TRUE)
    BY <1>1, <1>2, ResetPuts
  <1>4. /\ todo[p[1]] = <<>> /\ todo' = [todo EXCEPT ![p[1]] = l]
        /\ life' = life /\ count' = count /\ ptr' = ptr /\ raw' = raw
    BY <1>1 DEF Drop, Begins
  <1> HIDE DEF p, l
  <1> QED
    BY <1>1, <1>3, <1>4, ListOnly

LEMMA AdoptKeeps ==
    ASSUME OwnershipInv, NEW t \in Threads, NEW s \in Slots, Adopt(t, s)
    PROVE  OwnershipInv'
  <1>1. PICK o \in Objects :
          /\ raw[o] > 0 /\ raw' = [raw EXCEPT ![o] = @ - 1]
          /\ Begins(t, Take(<<t, s>>, o))
          /\ life' = life /\ count' = count /\ ptr' = ptr
    BY DEF Adopt
  <1> DEFINE p == <<t, s>>
             l == Take(p, o)
  <1>2. p \in Pointers /\ p[1] = t /\ o \in Target
    BY DEF Pointers, Target
  <1>3. OwnTypes /\ Lives
    BY DEF OwnershipInv
  <1>4. /\ ptr[p] \in Target
        /\ life \in [Objects -> {"unborn", "alive", "deleted"}]
        /\ count \in [Objects -> Nat] /\ raw \in [Objects -> Nat]
    BY <1>2, <1>3 DEF OwnTypes
  <1>5. Puts(l, p, o, ptr[p], FALSE)
    BY <1>2, <1>4, TakePuts
  <1>6. todo[p[1]] = <<>> /\ todo' = [todo EXCEPT ![p[1]] = l]
    BY <1>1, <1>2 DEF Begins
  <1> HIDE DEF p, l
  <1>7. Lives'
    BY <1>1, <1>3 DEF Lives
  <1>8. raw' \in [Objects -> Nat]
    BY <1>1, <1>4
  <1>9. ASSUME NEW x \in Objects
        PROVE  count'[x] + One(FALSE /\ o = x) + raw[x] = count[x] + One(o = x) + raw'[x]
    BY <1>1, <1>4 DEF One
  <1>10. Begin(p, o, l, FALSE)
    BY <1>1, <1>2, <1>4, <1>5, <1>6, <1>7, <1>8, <1>9 DEF Begin
  <1> QED
    BY <1>10, Begun

-----------------------------------------------------------------------------
(* The operations that are one step: they move pointers of a thread that    *)
(* has nothing to do.                                                       *)

LEMMA Resting ==
    ASSUME NEW fin, EndsAs(fin), NEW t \in Threads, todo[t] = <<>>
    PROVE  \A p \in Pointers : p[1] = t => fin[p] = ptr[p]
  <1>1. Items(todo[t]) = {}
    BY DEF Items
  <1> QED
    BY <1>1 DEF EndsAs

LEMMA Moved ==
    ASSUME NEW fin \in [Pointers -> Target], EndsAs(fin), Backed(fin),
           NEW g \in [Pointers -> Target], NEW t \in Threads, todo[t] = <<>>, todo' = todo,
           \A q \in Pointers : IF q[1] = t THEN g[q] = ptr'[q]
                               ELSE g[q] = fin[q] /\ ptr'[q] = ptr[q]
    PROVE  EndsAs(g)' /\ Backed(g)'
  <1>1. Items(todo[t]) = {}
    BY DEF Items
  <1>2. ASSUME NEW q \in Pointers
        PROVE  IF \E x \in Target : SetStep(q, x) \in Items(todo'[q[1]])
               THEN SetStep(q, g[q]) \in Items(todo'[q[1]])
               ELSE g[q] = ptr'[q]
    <2>1. IF \E x \in Target : SetStep(q, x) \in Items(todo[q[1]])
          THEN SetStep(q, fin[q]) \in Items(todo[q[1]])
          ELSE fin[q] = ptr[q]
      BY DEF EndsAs
    <2>2. CASE q[1] = t
      BY <1>1, <2>2
    <2>3. CASE q[1] # t
      BY <2>1, <2>3
    <2> QED
      BY <2>2, <2>3
  <1>3. EndsAs(g)'
    BY <1>2 DEF EndsAs
  <1>4. ASSUME NEW u \in Threads, NEW x \in Objects, RefStep(x) \in Items(todo'[u])
        PROVE  \E q, r \in Pointers :
                 /\ q[1] = u /\ r[1] = u /\ g[q] = x /\ g[r] = x
                 /\ q # r \/ (Head(todo'[u]) = RefStep(x) /\ DerefStep(x) \in Items(todo'[u]))
    <2>1. u # t /\ RefStep(x) \in Items(todo[u])
      BY <1>1, <1>4
    <2>2. PICK q, r \in Pointers :
            /\ q[1] = u /\ r[1] = u /\ fin[q] = x /\ fin[r] = x
            /\ q # r \/ (Head(todo[u]) = RefStep(x) /\ DerefStep(x) \in Items(todo[u]))
      BY <2>1 DEF Backed
    <2>3. g[q] = x /\ g[r] = x
      BY <2>1, <2>2
    <2> QED
      BY <2>2, <2>3
  <1>5. Backed(g)'
    BY <1>4 DEF Backed
  <1> QED
    BY <1>3, <1>5

LEMMA MoveAssignKeeps ==
    ASSUME OwnershipInv,
           NEW t \in Threads, NEW s \in Slots, NEW r \in Slots, MoveAssign(t, s, r)
    PROVE  OwnershipInv'
  <1> DEFINE p == <<t, s>>
             q == <<t, r>>
  <1>1. /\ p \in Pointers /\ q \in Pointers /\ p[1] = t /\ q[1] = t /\ p # q
        /\ todo[t] = <<>> /\ ptr' = [ptr EXCEPT ![p] = ptr[q], ![q] = ptr[p]]
        /\ life' = life /\ count' = count /\ raw' = raw /\ todo' = todo
    BY DEF Pointers, MoveAssign
  <1>2. OwnTypes /\ Lives
    BY DEF OwnershipInv
  <1>3. PICK fin \in [Pointers -> Target] : EndsAs(fin) /\ Balanced(fin) /\ Backed(fin)
    BY DEF OwnershipInv
  <1> HIDE DEF p, q
  <1> DEFINE h == [fin EXCEPT ![p] = fin[q]]
             g == [h EXCEPT ![q] = fin[p]]
  <1>4. /\ h \in [Pointers -> Target] /\ h[p] = fin[q] /\ h[q] = fin[q]
        /\ \A u \in Pointers \ {p} : h[u] = fin[u]
        /\ fin[p] \in Target /\ fin[q] \in Target
    BY <1>1
  <1>5. /\ g \in [Pointers -> Target] /\ g[q] = fin[p] /\ g[p] = fin[q]
        /\ \A u \in Pointers \ {q} : g[u] = h[u]
    BY <1>1, <1>4
  <1> HIDE DEF h, g
  <1>6. \A u \in Pointers : u[1] = t => fin[u] = ptr[u]
    BY <1>1, <1>3, Resting
  <1>7. ptr' \in [Pointers -> Target] /\ ptr'[p] = ptr[q] /\ ptr'[q] = ptr[p]
        /\ \A u \in Pointers \ {p, q} : ptr'[u] = ptr[u]
    BY <1>1, <1>2 DEF OwnTypes
  <1>8. ASSUME NEW u \in Pointers
        PROVE  IF u[1] = t THEN g[u] = ptr'[u] ELSE g[u] = fin[u] /\ ptr'[u] = ptr[u]
    <2>1. CASE u = p
      BY <1>1, <1>5, <1>6, <1>7, <2>1
    <2>2. CASE u = q
      BY <1>1, <1>5, <1>6, <1>7, <2>2
    <2>3. CASE u # p /\ u # q
      BY <1>1, <1>4, <1>5, <1>6, <1>7, <2>3
    <2> QED
      BY <2>1, <2>2, <2>3
  <1>9. EndsAs(g)' /\ Backed(g)'
    BY <1>1, <1>3, <1>5, <1>8, Moved
  <1>10. ASSUME NEW x \in Objects
         PROVE  Cardinality(PointTo(g, x)) = Cardinality(PointTo(fin, x))
    <2>1. Cardinality(PointTo(h, x))
            = Cardinality(PointTo(fin, x)) + One(fin[q] = x) - One(fin[p] = x)
      BY <1>1, <1>4, PointToAfter
    <2>2. Cardinality(PointTo(g, x))
            = Cardinality(PointTo(h, x)) + One(fin[p] = x) - One(h[q] = x)
      BY <1>1, <1>4, <1>5, PointToAfter
    <2>3. h[q] = fin[q]
      BY <1>4
    <2>4. Cardinality(PointTo(fin, x)) \in Nat
      BY Finite
    <2> QED
      BY <2>1, <2>2, <2>3, <2>4 DEF One
  <1>11. Balanced(g)'
    <2>1. ASSUME NEW x \in Objects
          PROVE  count'[x] + Cardinality(ToRef(todo', x))
                   = Cardinality(PointTo(g, x)) + raw'[x] + Cardinality(ToDeref(todo', x))
      BY <1>1, <1>3, <1>10 DEF Balanced
    <2> QED
      BY <2>1 DEF Balanced, PointTo, ToRef, ToDeref
  <1>12. OwnTypes' /\ Lives'
    BY <1>1, <1>2, <1>7 DEF OwnTypes, Lives
  <1> QED
    BY <1>5, <1>9, <1>11, <1>12 DEF OwnershipInv

LEMMA ReleaseKeeps ==
    ASSUME OwnershipInv, NEW t \in Threads, NEW s \in Slots, Release(t, s)
    PROVE  OwnershipInv'
  <1> DEFINE p == <<t, s>>
             o == ptr[p]
  <1>1. /\ p \in Pointers /\ p[1] = t /\ o # Null
        /\ todo[t] = <<>> /\ ptr' = [ptr EXCEPT ![p] = Null]
        /\ raw' = [raw EXCEPT ![o] = @ + 1]
        /\ life' = life /\ count' = count /\ todo' = todo
    BY DEF Pointers, Release
  <1>2. OwnTypes /\ Lives
    BY DEF OwnershipInv
  <1>3. o \in Objects /\ Null \in Target /\ Null \notin Objects
    BY <1>1, <1>2, OwnershipAssumption DEF OwnTypes, Target
  <1>4. PICK fin \in [Pointers -> Target] : EndsAs(fin) /\ Balanced(fin) /\ Backed(fin)
    BY DEF OwnershipInv
  <1>5. o = ptr[p]
    OBVIOUS
  <1> HIDE DEF p, o
  <1> DEFINE g == [fin EXCEPT ![p] = Null]
  <1>6. /\ g \in [Pointers -> Target] /\ g[p] = Null
        /\ \A u \in Pointers \ {p} : g[u] = fin[u]
    BY <1>1, <1>3
  <1> HIDE DEF g
  <1>7. \A u \in Pointers : u[1] = t => fin[u] = ptr[u]
    BY <1>1, <1>4, Resting
  <1>8. ptr' \in [Pointers -> Target] /\ ptr'[p] = Null
        /\ \A u \in Pointers \ {p} : ptr'[u] = ptr[u]
    BY <1>1, <1>2, <1>3 DEF OwnTypes
  <1>9. raw' \in [Objects -> Nat] /\ \A x \in Objects : raw'[x] = raw[x] + One(o = x)
    BY <1>1, <1>2, <1>3 DEF OwnTypes, One
  <1>10. ASSUME NEW u \in Pointers
         PROVE  IF u[1] = t THEN g[u] = ptr'[u] ELSE g[u] = fin[u] /\ ptr'[u] = ptr[u]
    <2>1. CASE u = p
      BY <1>1, <1>6, <1>8, <2>1
    <2>2. CASE u # p
      BY <1>6, <1>7, <1>8, <2>2
    <2> QED
      BY <2>1, <2>2
  <1>11. EndsAs(g)' /\ Backed(g)'
    BY <1>1, <1>4, <1>6, <1>10, Moved
  <1>12. ASSUME NEW x \in Objects
         PROVE  count'[x] + Cardinality(ToRef(todo', x))
                  = Cardinality(PointTo(g, x)) + raw'[x] + Cardinality(ToDeref(todo', x))
    <2>1. Cardinality(PointTo(g, x))
            = Cardinality(PointTo(fin, x)) + One(Null = x) - One(fin[p] = x)
      BY <1>1, <1>3, <1>6, PointToAfter
    <2>2. One(Null = x) = 0 /\ One(fin[p] = x) = One(o = x) /\ One(o = x) \in Nat
      BY <1>1, <1>3, <1>5, <1>7 DEF One
    <2>3. /\ Cardinality(PointTo(fin, x)) \in Nat /\ raw[x] \in Nat /\ count[x] \in Nat
          /\ Cardinality(ToRef(todo, x)) \in Nat /\ Cardinality(ToDeref(todo, x)) \in Nat
      BY <1>2, Finite DEF OwnTypes
    <2>4. count[x] + Cardinality(ToRef(todo, x))
            = Cardinality(PointTo(fin, x)) + raw[x] + Cardinality(ToDeref(todo, x))
      BY <1>4 DEF Balanced
    <2>5. /\ count'[x] = count[x] /\ todo' = todo
          /\ raw'[x] = raw[x] + One(o = x)
          /\ Cardinality(PointTo(g, x)) = Cardinality(PointTo(fin, x)) - One(o = x)
      BY <1>1, <1>9, <2>1, <2>2, <2>3
    <2> QED
      BY <2>2, <2>3, <2>4, <2>5
  <1>13. Balanced(g)'
    BY <1>12 DEF Balanced, PointTo, ToRef, ToDeref
  <1>14. OwnTypes' /\ Lives'
    BY <1>1, <1>2, <1>8, <1>9 DEF OwnTypes, Lives
  <1> QED
    BY <1>6, <1>11, <1>13, <1>14 DEF OwnershipInv

-----------------------------------------------------------------------------
(* A step of an operation. *)

LEMMA Stepped ==
    ASSUME OwnTypes, NEW t \in Threads, todo[t] # <<>>, todo' = [todo EXCEPT ![t] = Tail(@)],
           NEW fin \in [Pointers -> Target], Backed(fin)
    PROVE  /\ Head(todo[t]) \in AnyStep /\ Head(todo[t]) \in Items(todo[t])
           /\ todo' \in [Threads -> Seq(AnyStep)]
           /\ \A u \in Threads :
                /\ Distinct(todo'[u])
                /\ \A p \in Pointers, o \in Target : SetStep(p, o) \in Items(todo'[u]) => p[1] = u
           /\ \A u \in Threads \ {t} : todo'[u] = todo[u]
           /\ Items(todo'[t]) = Items(todo[t]) \ {Head(todo[t])}
           /\ \A s \in Items(todo'[t]) : s.do # Head(todo[t]).do
           /\ Backed(fin)'
           /\ \A x \in Objects :
                /\ Cardinality(ToRef(todo', x))
                     = Cardinality(ToRef(todo, x)) - One(Head(todo[t]) = RefStep(x))
                /\ Cardinality(ToDeref(todo', x))
                     = Cardinality(ToDeref(todo, x)) - One(Head(todo[t]) = DerefStep(x))
  <1> DEFINE h == Head(todo[t])
             l == Tail(todo[t])
  <1>1. /\ todo \in [Threads -> Seq(AnyStep)] /\ todo[t] \in Seq(AnyStep)
        /\ \A u \in Threads :
             /\ Distinct(todo[u])
             /\ \A p \in Pointers, o \in Target : SetStep(p, o) \in Items(todo[u]) => p[1] = u
    BY DEF OwnTypes
  <1>2. /\ h \in AnyStep /\ h \in Items(todo[t]) /\ l \in Seq(AnyStep) /\ Distinct(l)
        /\ Items(l) = Items(todo[t]) \ {h} /\ \A s \in Items(l) : s.do # h.do
    BY <1>1, StepTaken
  <1>3. todo'[t] = l /\ \A u \in Threads \ {t} : todo'[u] = todo[u]
    BY <1>1
  <1>4. todo' \in [Threads -> Seq(AnyStep)]
    BY <1>1, <1>2
  <1> HIDE DEF h, l
  <1>5. ASSUME NEW u \in Threads
        PROVE  /\ Distinct(todo'[u])
               /\ \A p \in Pointers, o \in Target : SetStep(p, o) \in Items(todo'[u]) => p[1] = u
    <2>1. CASE u = t
      BY <1>1, <1>2, <1>3, <2>1
    <2>2. CASE u # t
      BY <1>1, <1>3, <2>2
    <2> QED
      BY <2>1, <2>2
  <1>6. ASSUME NEW u \in Threads, NEW x \in Objects, RefStep(x) \in Items(todo'[u])
        PROVE  \E q, r \in Pointers :
                 /\ q[1] = u /\ r[1] = u /\ fin[q] = x /\ fin[r] = x
                 /\ q # r \/ (Head(todo'[u]) = RefStep(x) /\ DerefStep(x) \in Items(todo'[u]))
    <2>1. RefStep(x) \in Items(todo[u])
      BY <1>2, <1>3, <1>6
    <2>2. PICK q, r \in Pointers :
            /\ q[1] = u /\ r[1] = u /\ fin[q] = x /\ fin[r] = x
            /\ q # r \/ (Head(todo[u]) = RefStep(x) /\ DerefStep(x) \in Items(todo[u]))
      BY <2>1 DEF Backed
    <2>3. CASE u = t
      <3>1. Head(todo[u]) = h /\ RefStep(x) # h
        BY <1>2, <1>3, <1>6, <2>3 DEF h
      <3> QED
        BY <2>2, <3>1
    <2>4. CASE u # t
      BY <1>3, <2>2, <2>4
    <2> QED
      BY <2>3, <2>4
  <1>7. Backed(fin)'
    BY <1>6 DEF Backed
  <1>8. ASSUME NEW x \in Objects
        PROVE  /\ Cardinality(ToRef(todo', x)) = Cardinality(ToRef(todo, x)) - One(h = RefStep(x))
               /\ Cardinality(ToDeref(todo', x))
                    = Cardinality(ToDeref(todo, x)) - One(h = DerefStep(x))
    <2>1. PICK td : td = todo'
      OBVIOUS
    <2>2. td[t] = l /\ \A u \in Threads \ {t} : td[u] = todo[u]
      BY <1>3, <2>1
    <2>3. /\ Cardinality(ToRef(td, x)) = Cardinality(ToRef(todo, x))
               + One(RefStep(x) \in Items(l)) - One(RefStep(x) \in Items(todo[t]))
          /\ Cardinality(ToDeref(td, x)) = Cardinality(ToDeref(todo, x))
               + One(DerefStep(x) \in Items(l)) - One(DerefStep(x) \in Items(todo[t]))
      BY <2>2, ToDoAfter
    <2>4. Cardinality(ToRef(todo, x)) \in Nat /\ Cardinality(ToDeref(todo, x)) \in Nat
      BY Finite
    <2>5. /\ RefStep(x) \in Items(l) <=> (RefStep(x) \in Items(todo[t]) /\ h # RefStep(x))
          /\ h = RefStep(x) => RefStep(x) \in Items(todo[t])
          /\ DerefStep(x) \in Items(l) <=> (DerefStep(x) \in Items(todo[t]) /\ h # DerefStep(x))
          /\ h = DerefStep(x) => DerefStep(x) \in Items(todo[t])
      BY <1>2
    <2>6. /\ Cardinality(ToRef(td, x)) = Cardinality(ToRef(todo, x)) - One(h = RefStep(x))
          /\ Cardinality(ToDeref(td, x)) = Cardinality(ToDeref(todo, x)) - One(h = DerefStep(x))
      BY <2>3, <2>4, <2>5 DEF One
    <2> QED
      BY <2>1, <2>6
  <1> QED
    BY <1>2, <1>3, <1>4, <1>5, <1>7, <1>8 DEF h

(* A step that counts, or gives up, a reference: by as much as the step is  *)
(* missing from what remains. *)
LEMMA CountStepKeeps ==
    ASSUME OwnershipInv, NEW t \in Threads, NEW x \in Objects, todo[t] # <<>>,
           todo' = [todo EXCEPT ![t] = Tail(@)], ptr' = ptr, raw' = raw,
           \/ /\ Head(todo[t]) = RefStep(x)
              /\ count' = [count EXCEPT ![x] = @ + 1] /\ life' = life
           \/ /\ Head(todo[t]) = DerefStep(x)
              /\ count' = [count EXCEPT ![x] = @ - 1]
              /\ life' = IF Deletes(x) THEN [life EXCEPT ![x] = "deleted"] ELSE life
    PROVE  OwnershipInv'
  <1> DEFINE h == Head(todo[t])
  <1>1. OwnTypes /\ Lives
    BY DEF OwnershipInv
  <1>2. PICK fin \in [Pointers -> Target] : EndsAs(fin) /\ Balanced(fin) /\ Backed(fin)
    BY DEF OwnershipInv
  <1>3. /\ h \in Items(todo[t])
        /\ todo' \in [Threads -> Seq(AnyStep)]
        /\ \A u \in Threads :
             /\ Distinct(todo'[u])
             /\ \A p \in Pointers, o \in Target : SetStep(p, o) \in Items(todo'[u]) => p[1] = u
        /\ \A u \in Threads \ {t} : todo'[u] = todo[u]
        /\ Items(todo'[t]) = Items(todo[t]) \ {h}
        /\ Backed(fin)'
        /\ \A y \in Objects :
             /\ Cardinality(ToRef(todo', y)) = Cardinality(ToRef(todo, y)) - One(h = RefStep(y))
             /\ Cardinality(ToDeref(todo', y))
                  = Cardinality(ToDeref(todo, y)) - One(h = DerefStep(y))
    BY <1>1, <1>2, Stepped
  <1>4. \A p, o : h # SetStep(p, o)
    BY StepKinds
  <1>5. /\ count \in [Objects -> Nat] /\ raw \in [Objects -> Nat]
        /\ life \in [Objects -> {"unborn", "alive", "deleted"}]
        /\ ptr \in [Pointers -> Target]
    BY <1>1 DEF OwnTypes
  <1>6. count[x] > 0
    <2>1. CASE h = RefStep(x)
      BY <1>1, <1>2, <2>1, Reserve
    <2>2. CASE h = DerefStep(x)
      BY <1>1, <1>2, <1>3, <2>2, Reserve
    <2> QED
      BY <2>1, <2>2
  <1>7. life[x] = "alive"
    BY <1>1, <1>6 DEF Lives
  <1>8. EndsAs(fin)'
    <2>1. ASSUME NEW q \in Pointers
          PROVE  IF \E o \in Target : SetStep(q, o) \in Items(todo'[q[1]])
                 THEN SetStep(q, fin[q]) \in Items(todo'[q[1]])
                 ELSE fin[q] = ptr'[q]
      <3>1. q[1] \in Threads
        BY DEF Pointers
      <3>2. \A o : SetStep(q, o) \in Items(todo'[q[1]]) <=> SetStep(q, o) \in Items(todo[q[1]])
        BY <1>3, <1>4, <3>1
      <3>3. IF \E o \in Target : SetStep(q, o) \in Items(todo[q[1]])
            THEN SetStep(q, fin[q]) \in Items(todo[q[1]])
            ELSE fin[q] = ptr[q]
        BY <1>2 DEF EndsAs
      <3> QED
        BY <3>2, <3>3
    <2> QED
      BY <2>1 DEF EndsAs
  <1> HIDE DEF h
  <1>9. /\ count' \in [Objects -> Nat] /\ \A y \in Objects \ {x} : count'[y] = count[y]
        /\ count'[x] = count[x] + One(h = RefStep(x)) - One(h = DerefStep(x))
    <2>1. h = RefStep(x) => h # DerefStep(x)
      BY StepKinds
    <2> QED
      BY <1>5, <1>6, <2>1 DEF h, One
  <1>10. \A y \in Objects \ {x} : h # RefStep(y) /\ h # DerefStep(y)
    BY StepKinds DEF h
  <1>11. ASSUME NEW y \in Objects
         PROVE  count'[y] + Cardinality(ToRef(todo', y))
                  = Cardinality(PointTo(fin, y)) + raw'[y] + Cardinality(ToDeref(todo', y))
    <2>1. /\ Cardinality(ToRef(todo, y)) \in Nat /\ Cardinality(ToDeref(todo, y)) \in Nat
          /\ Cardinality(PointTo(fin, y)) \in Nat /\ count[y] \in Nat /\ raw[y] \in Nat
      BY <1>5, Finite
    <2>2. /\ Cardinality(ToRef(todo', y)) = Cardinality(ToRef(todo, y)) - One(h = RefStep(y))
          /\ Cardinality(ToDeref(todo', y)) = Cardinality(ToDeref(todo, y)) - One(h = DerefStep(y))
      BY <1>3 DEF h
    <2>3. count[y] + Cardinality(ToRef(todo, y))
            = Cardinality(PointTo(fin, y)) + raw[y] + Cardinality(ToDeref(todo, y))
      BY <1>2 DEF Balanced
    <2>4. count'[y] = count[y] + One(h = RefStep(y)) - One(h = DerefStep(y))
      <3>1. CASE y = x
        BY <1>9, <3>1
      <3>2. CASE y # x
        BY <1>9, <1>10, <2>1, <3>2 DEF One
      <3> QED
        BY <3>1, <3>2
    <2>5. One(h = RefStep(y)) \in Nat /\ One(h = DerefStep(y)) \in Nat
      BY DEF One
    <2> DEFINE c == count[y]
               c1 == count'[y]
               w == raw[y]
               F == Cardinality(PointTo(fin, y))
               R == Cardinality(ToRef(todo, y))
               R1 == Cardinality(ToRef(todo', y))
               D == Cardinality(ToDeref(todo, y))
               D1 == Cardinality(ToDeref(todo', y))
               i == One(h = RefStep(y))
               j == One(h = DerefStep(y))
    <2>6. /\ c \in Nat /\ w \in Nat /\ F \in Nat /\ R \in Nat /\ D \in Nat /\ i \in Nat /\ j \in Nat
          /\ R1 = R - i /\ D1 = D - j /\ c + R = F + w + D /\ c1 = c + i - j
      BY <2>1, <2>2, <2>3, <2>4, <2>5
    <2> HIDE DEF c, c1, w, F, R, R1, D, D1, i, j
    <2>7. c1 + R1 = F + w + D1
      BY <2>6
    <2>8. raw'[y] = w
      BY DEF w
    <2> QED
      BY <2>7, <2>8 DEF c1, F, R1, D1
  <1>12. Balanced(fin)'
    BY <1>11 DEF Balanced, PointTo, ToRef, ToDeref
  <1>13. Lives' /\ life' \in [Objects -> {"unborn", "alive", "deleted"}]
    <2>1. CASE h = RefStep(x)
      <3>1. h # DerefStep(x)
        BY <2>1, StepKinds
      <3>2. life' = life /\ count'[x] > 0
        BY <1>5, <1>6, <1>9, <2>1, <3>1 DEF h, One
      <3> QED
        BY <1>1, <1>5, <1>7, <1>9, <3>2 DEF Lives
    <2>2. CASE h = DerefStep(x)
      <3>1. h # RefStep(x)
        BY <2>2, StepKinds
      <3>2. count'[x] = count[x] - 1
        BY <1>5, <1>6, <1>9, <2>2, <3>1 DEF One
      <3>3. life' = IF count[x] = 1 THEN [life EXCEPT ![x] = "deleted"] ELSE life
        BY <3>1 DEF h, Deletes
      <3>4. CASE count[x] = 1
        BY <1>1, <1>5, <1>9, <3>2, <3>3, <3>4 DEF Lives
      <3>5. CASE count[x] # 1
        BY <1>1, <1>5, <1>6, <1>7, <1>9, <3>2, <3>3, <3>5 DEF Lives
      <3> QED
        BY <3>4, <3>5
    <2> QED
      BY <2>1, <2>2 DEF h
  <1>14. OwnTypes'
    BY <1>3, <1>5, <1>9, <1>13 DEF OwnTypes
  <1> QED
    BY <1>3, <1>8, <1>12, <1>13, <1>14 DEF OwnershipInv

LEMMA SetStepKeeps ==
    ASSUME OwnershipInv, NEW t \in Threads, todo[t] # <<>>,
           todo' = [todo EXCEPT ![t] = Tail(@)],
           NEW p \in Pointers, NEW o \in Target, Head(todo[t]) = SetStep(p, o),
           ptr' = [ptr EXCEPT ![p] = o], raw' = raw, count' = count, life' = life
    PROVE  OwnershipInv'
  <1> DEFINE h == Head(todo[t])
  <1>1. OwnTypes /\ Lives
    BY DEF OwnershipInv
  <1>2. PICK fin \in [Pointers -> Target] : EndsAs(fin) /\ Balanced(fin) /\ Backed(fin)
    BY DEF OwnershipInv
  <1>3. /\ h \in Items(todo[t])
        /\ todo' \in [Threads -> Seq(AnyStep)]
        /\ \A u \in Threads :
             /\ Distinct(todo'[u])
             /\ \A q \in Pointers, x \in Target : SetStep(q, x) \in Items(todo'[u]) => q[1] = u
        /\ \A u \in Threads \ {t} : todo'[u] = todo[u]
        /\ \A s \in Items(todo'[t]) : s.do # h.do
        /\ Backed(fin)'
        /\ \A y \in Objects :
             /\ Cardinality(ToRef(todo', y)) = Cardinality(ToRef(todo, y)) - One(h = RefStep(y))
             /\ Cardinality(ToDeref(todo', y))
                  = Cardinality(ToDeref(todo, y)) - One(h = DerefStep(y))
    BY <1>1, <1>2, Stepped
  <1>4. /\ \A x : h # RefStep(x) /\ h # DerefStep(x)
        /\ \A q \in Pointers, x \in Target :
             /\ SetStep(q, x).do = "set"
             /\ SetStep(q, x) = SetStep(p, o) <=> (q = p /\ x = o)
    BY StepKinds
  <1>5. ptr \in [Pointers -> Target] /\ p[1] = t
    BY <1>1, <1>3 DEF OwnTypes
  <1>6. \A q \in Pointers, x \in Target :
          SetStep(q, x) \in Items(todo[t]) => q = p /\ x = o
    <2> SUFFICES ASSUME NEW q \in Pointers, NEW x \in Target, SetStep(q, x) \in Items(todo[t])
                 PROVE  SetStep(q, x) = h
      BY <1>4
    <2>1. PICK j \in DOMAIN todo[t] : SetStep(q, x) = todo[t][j]
      BY DEF Items
    <2>2. PICK k \in DOMAIN todo[t] : h = todo[t][k]
      BY <1>3 DEF Items
    <2>3. todo[t][j].do = todo[t][k].do
      BY <1>4, <2>1, <2>2
    <2>4. Distinct(todo[t])
      BY <1>1 DEF OwnTypes
    <2> HIDE DEF h
    <2>5. j = k
      BY <2>3, <2>4 DEF Distinct
    <2> QED
      BY <2>1, <2>2, <2>5
  <1>7. fin[p] = o
    <2>1. SetStep(p, o) \in Items(todo[p[1]])
      BY <1>3, <1>5
    <2>2. SetStep(p, fin[p]) \in Items(todo[p[1]])
      BY <1>2, <2>1 DEF EndsAs
    <2> QED
      BY <1>5, <1>6, <2>2
  <1>8. EndsAs(fin)'
    <2>1. ASSUME NEW q \in Pointers
          PROVE  IF \E x \in Target : SetStep(q, x) \in Items(todo'[q[1]])
                 THEN SetStep(q, fin[q]) \in Items(todo'[q[1]])
                 ELSE fin[q] = ptr'[q]
      <3>1. q[1] \in Threads
        BY DEF Pointers
      <3>2. IF \E x \in Target : SetStep(q, x) \in Items(todo[q[1]])
            THEN SetStep(q, fin[q]) \in Items(todo[q[1]])
            ELSE fin[q] = ptr[q]
        BY <1>2 DEF EndsAs
      <3>3. CASE q[1] # t
        <4>1. todo'[q[1]] = todo[q[1]] /\ ptr'[q] = ptr[q]
          BY <1>3, <1>5, <3>1, <3>3
        <4> QED
          BY <3>2, <4>1
      <3>4. CASE q[1] = t
        <4>1. ~\E x \in Target : SetStep(q, x) \in Items(todo'[q[1]])
          BY <1>3, <1>4, <3>4
        <4>2. CASE q = p
          BY <1>5, <1>7, <4>1, <4>2
        <4>3. CASE q # p
          <5>1. fin[q] = ptr[q]
            BY <1>6, <3>2, <3>4, <4>3
          <5> QED
            BY <1>5, <4>1, <4>3, <5>1
        <4> QED
          BY <4>2, <4>3
      <3> QED
        BY <3>3, <3>4
    <2> QED
      BY <2>1 DEF EndsAs
  <1>9. ASSUME NEW y \in Objects
        PROVE  count'[y] + Cardinality(ToRef(todo', y))
                 = Cardinality(PointTo(fin, y)) + raw'[y] + Cardinality(ToDeref(todo', y))
    <2>1. Cardinality(ToRef(todo, y)) \in Nat /\ Cardinality(ToDeref(todo, y)) \in Nat
      BY Finite
    <2>2. /\ Cardinality(ToRef(todo', y)) = Cardinality(ToRef(todo, y))
          /\ Cardinality(ToDeref(todo', y)) = Cardinality(ToDeref(todo, y))
      <3>1. One(h = RefStep(y)) = 0 /\ One(h = DerefStep(y)) = 0
        BY <1>4 DEF One
      <3>2. /\ Cardinality(ToRef(todo', y)) = Cardinality(ToRef(todo, y)) - One(h = RefStep(y))
            /\ Cardinality(ToDeref(todo', y))
                 = Cardinality(ToDeref(todo, y)) - One(h = DerefStep(y))
        BY <1>3
      <3> HIDE DEF h
      <3> QED
        BY <2>1, <3>1, <3>2
    <2> QED
      BY <1>2, <2>2 DEF Balanced
  <1>10. Balanced(fin)'
    BY <1>9 DEF Balanced, PointTo, ToRef, ToDeref
  <1>11. OwnTypes' /\ Lives'
    BY <1>1, <1>3, <1>5 DEF OwnTypes, Lives
  <1> QED
    BY <1>3, <1>8, <1>10, <1>11 DEF OwnershipInv

LEMMA StepKeeps ==
    ASSUME OwnershipInv, NEW t \in Threads, Step(t)
    PROVE  OwnershipInv'
  <1> DEFINE h == Head(todo[t])
  <1>1. todo[t] # <<>> /\ todo' = [todo EXCEPT ![t] = Tail(@)] /\ raw' = raw
    BY DEF Step
  <1>2. h \in AnyStep
    BY <1>1, StepTaken DEF OwnershipInv, OwnTypes
  <1>3. /\ h.do = "ref" => count' = [count EXCEPT ![h.o] = @ + 1] /\ life' = life /\ ptr' = ptr
        /\ h.do = "deref" =>
             /\ count' = [count EXCEPT ![h.o] = @ - 1] /\ ptr' = ptr
             /\ life' = IF Deletes(h.o) THEN [life EXCEPT ![h.o] = "deleted"] ELSE life
        /\ h.do = "set" => ptr' = [ptr EXCEPT ![h.p] = h.o] /\ life' = life /\ count' = count
    BY DEF Step
  <1>4. h.do \in {"ref", "deref", "set"}
    BY <1>2, StepKinds
  <1>5. CASE h.do = "ref"
    <2>1. PICK x \in Objects : h = RefStep(x) /\ h.o = x
      BY <1>2, <1>5, StepKinds
    <2> QED
      BY <1>1, <1>3, <1>5, <2>1, CountStepKeeps
  <1>6. CASE h.do = "deref"
    <2>1. PICK x \in Objects : h = DerefStep(x) /\ h.o = x
      BY <1>2, <1>6, StepKinds
    <2> QED
      BY <1>1, <1>3, <1>6, <2>1, CountStepKeeps
  <1>7. CASE h.do = "set"
    <2>1. PICK p \in Pointers, o \in Target : h = SetStep(p, o) /\ h.p = p /\ h.o = o
      BY <1>2, <1>7, StepKinds
    <2> QED
      BY <1>1, <1>3, <1>7, <2>1, SetStepKeeps
  <1> QED
    BY <1>4, <1>5, <1>6, <1>7

-----------------------------------------------------------------------------
(* The invariant. *)

LEMMA OwnershipStarts ==
    ASSUME OwnershipInit
    PROVE  OwnershipInv
  <1> DEFINE fin == [p \in Pointers |-> Null]
  <1>1. /\ life = [o \in Objects |-> "unborn"] /\ count = [o \in Objects |-> 0]
        /\ ptr = fin /\ raw = [o \in Objects |-> 0] /\ todo = [t \in Threads |-> <<>>]
    BY DEF OwnershipInit
  <1>2. fin \in [Pointers -> Target] /\ \A p \in Pointers : fin[p] = Null
    BY DEF Target
  <1> HIDE DEF fin
  <1>3. \A t \in Threads : todo[t] = <<>> /\ Items(todo[t]) = {} /\ Distinct(todo[t])
    BY <1>1, Short
  <1>4. OwnTypes
    <2>1. todo \in [Threads -> Seq(AnyStep)]
      BY <1>1, Short
    <2> QED
      BY <1>1, <1>2, <1>3, <2>1 DEF OwnTypes
  <1>5. Lives
    BY <1>1 DEF Lives
  <1>6. EndsAs(fin)
    BY <1>1, <1>3 DEF EndsAs, Pointers
  <1>7. Backed(fin)
    BY <1>3 DEF Backed
  <1>8. Balanced(fin)
    <2> SUFFICES ASSUME NEW x \in Objects
                 PROVE  count[x] + Cardinality(ToRef(todo, x))
                          = Cardinality(PointTo(fin, x)) + raw[x] + Cardinality(ToDeref(todo, x))
      BY DEF Balanced
    <2>1. ToRef(todo, x) = {} /\ ToDeref(todo, x) = {}
      BY <1>3 DEF ToRef, ToDeref
    <2>2. PointTo(fin, x) = {}
      BY <1>2, OwnershipAssumption DEF PointTo
    <2>3. count[x] = 0 /\ raw[x] = 0
      BY <1>1
    <2> QED
      BY <2>1, <2>2, <2>3, FS_EmptySet
  <1> QED
    BY <1>2, <1>4, <1>5, <1>6, <1>7, <1>8 DEF OwnershipInv

LEMMA OwnershipStays ==
    ASSUME SelfAssigns = FALSE, OwnershipInv, [OwnershipNext]_ownershipVars
    PROVE  OwnershipInv'
  <1>1. CASE UNCHANGED ownershipVars
    <2>1. life' = life /\ count' = count /\ ptr' = ptr /\ raw' = raw /\ todo' = todo
      BY <1>1 DEF ownershipVars
    <2>2. OwnTypes' /\ Lives'
      BY <2>1 DEF OwnershipInv, OwnTypes, Lives
    <2>3. PICK fin \in [Pointers -> Target] : EndsAs(fin) /\ Balanced(fin) /\ Backed(fin)
      BY DEF OwnershipInv
    <2>4. EndsAs(fin)'
      BY <2>1, <2>3 DEF EndsAs
    <2>5. Balanced(fin)'
      BY <2>1, <2>3 DEF Balanced, PointTo, ToRef, ToDeref
    <2>6. Backed(fin)'
      BY <2>1, <2>3 DEF Backed
    <2> QED
      BY <2>2, <2>4, <2>5, <2>6 DEF OwnershipInv
  <1>2. CASE OwnershipNext
    <2> PICK t \in Threads :
          \/ Step(t)
          \/ \E s \in Slots : Make(t, s) \/ Drop(t, s) \/ Release(t, s) \/ Adopt(t, s)
          \/ \E s, r \in Slots : CopyAssign(t, s, r) \/ Borrow(t, s, r) \/ MoveAssign(t, s, r)
      BY <1>2 DEF OwnershipNext
    <2>1. CASE Step(t)
      BY <2>1, StepKeeps
    <2>2. ASSUME NEW s \in Slots, Make(t, s)
          PROVE  OwnershipInv'
      BY <2>2, MakeKeeps
    <2>3. ASSUME NEW s \in Slots, Drop(t, s)
          PROVE  OwnershipInv'
      BY <2>3, DropKeeps
    <2>4. ASSUME NEW s \in Slots, Release(t, s)
          PROVE  OwnershipInv'
      BY <2>4, ReleaseKeeps
    <2>5. ASSUME NEW s \in Slots, Adopt(t, s)
          PROVE  OwnershipInv'
      BY <2>5, AdoptKeeps
    <2>6. ASSUME NEW s \in Slots, NEW r \in Slots, CopyAssign(t, s, r)
          PROVE  OwnershipInv'
      BY <2>6, CopyAssignKeeps
    <2>7. ASSUME NEW s \in Slots, NEW r \in Slots, Borrow(t, s, r)
          PROVE  OwnershipInv'
      BY <2>7, BorrowKeeps
    <2>8. ASSUME NEW s \in Slots, NEW r \in Slots, MoveAssign(t, s, r)
          PROVE  OwnershipInv'
      BY <2>8, MoveAssignKeeps
    <2> QED
      BY <2>1, <2>2, <2>3, <2>4, <2>5, <2>6, <2>7, <2>8
  <1> QED
    BY <1>1, <1>2

LEMMA OwnershipHolds ==
    ASSUME OwnershipInv
    PROVE  OwnershipKept
  <1>1. OwnTypes /\ Lives
    BY DEF OwnershipInv
  <1>2. PICK fin \in [Pointers -> Target] : EndsAs(fin) /\ Balanced(fin) /\ Backed(fin)
    BY DEF OwnershipInv
  <1>3. ASSUME NEW t \in Threads, todo[t] # <<>>, Head(todo[t]).do # "set"
        PROVE  life[Head(todo[t]).o] = "alive"
    <2>1. Head(todo[t]) \in AnyStep /\ Head(todo[t]) \in Items(todo[t])
      BY <1>1, <1>3, StepTaken DEF OwnTypes
    <2>2. PICK x \in Objects : /\ Head(todo[t]).o = x
                               /\ Head(todo[t]) = RefStep(x) \/ Head(todo[t]) = DerefStep(x)
      BY <1>3, <2>1, StepKinds
    <2>3. count[x] > 0
      BY <1>1, <1>2, <1>3, <2>1, <2>2, Reserve
    <2> QED
      BY <1>1, <2>2, <2>3 DEF Lives
  <1>4. ASSUME NEW p \in Pointers, todo[p[1]] = <<>>, ptr[p] # Null
        PROVE  life[ptr[p]] = "alive"
    <2>1. fin[p] = ptr[p] /\ ptr[p] \in Objects
      BY <1>1, <1>2, <1>4, Resting DEF OwnTypes, Target, Pointers
    <2>2. count[ptr[p]] > 0
      BY <1>1, <1>2, <1>4, <2>1, Reserve
    <2> QED
      BY <1>1, <2>1, <2>2 DEF Lives
  <1>5. ASSUME \A t \in Threads : todo[t] = <<>>, NEW o \in Objects
        PROVE  /\ life[o] = "alive" <=> count[o] > 0
               /\ count[o] = Cardinality({p \in Pointers : ptr[p] = o}) + raw[o]
    <2>1. \A t \in Threads : Items(todo[t]) = {}
      BY <1>5, Short
    <2>2. ToRef(todo, o) = {} /\ ToDeref(todo, o) = {}
      BY <2>1 DEF ToRef, ToDeref
    <2>3. \A p \in Pointers : fin[p] = ptr[p]
      BY <1>2, <1>5, Resting DEF Pointers
    <2>4. PointTo(fin, o) = {p \in Pointers : ptr[p] = o}
      BY <2>3 DEF PointTo
    <2>5. /\ count[o] \in Nat /\ raw[o] \in Nat /\ Cardinality(PointTo(fin, o)) \in Nat
      BY <1>1, Finite DEF OwnTypes
    <2>6. count[o] + Cardinality(ToRef(todo, o))
            = Cardinality(PointTo(fin, o)) + raw[o] + Cardinality(ToDeref(todo, o))
      BY <1>2 DEF Balanced
    <2>7. count[o] = Cardinality(PointTo(fin, o)) + raw[o]
      BY <2>2, <2>5, <2>6, FS_EmptySet
    <2>8. life[o] = "alive" <=> count[o] > 0
      BY <1>1 DEF Lives
    <2> QED
      BY <2>4, <2>7, <2>8
  <1> QED
    BY <1>3, <1>4, <1>5 DEF OwnershipKept

(* However the operations of the threads interleave, no step of an          *)
(* operation counts on a deleted object, no pointer of a thread at rest     *)
(* dangles, and when all threads rest the count of an object is the number  *)
(* of pointers and released raw pointers to it, and it lives while there is *)
(* one: intrusive_ptr and ref_counted, without a pointer that is assigned   *)
(* to itself.                                                               *)
THEOREM CountsAreExact ==
    ASSUME SelfAssigns = FALSE
    PROVE  OwnershipSpec => []OwnershipKept
  <1>1. OwnershipInit => OwnershipInv
    BY OwnershipStarts
  <1>2. OwnershipInv /\ [OwnershipNext]_ownershipVars => OwnershipInv'
    BY OwnershipStays
  <1>3. OwnershipInv => OwnershipKept
    BY OwnershipHolds
  <1> QED
    BY <1>1, <1>2, <1>3, PTL DEF OwnershipSpec

-----------------------------------------------------------------------------
(* Guards of sockets. *)

(* What guards f hold; that no two of them hold the same descriptor; and    *)
(* what the call of a make function is.                                     *)
In(f) == {f[g] : g \in Guards} \ {None}

Record(m) == m.sock \in Fd \cup {None} /\ m = [steps |-> m.steps, sock |-> m.sock]

Scattered(f) == \A g, h \in Guards : f[g] = f[h] /\ g # h => f[g] = None

Typed(f) == f \in [Guards -> Fd \cup {None}] /\ Scattered(f)

(* SocketsOwned is not inductive: a step may only fail while there is a     *)
(* socket to close, and a move assignment may only start on a stack that    *)
(* holds no descriptor yet.                                                 *)
GuardsInv ==
    /\ open \subseteq Fd /\ held \subseteq Fd
    /\ Typed(guard)
    /\ Record(making)
    /\ frames \in Nat
    /\ open = held \cup In(guard) \cup AtWork \cup stacked
    /\ held \cap In(guard) = {} /\ held \cap AtWork = {} /\ held \cap stacked = {}
    /\ In(guard) \cap AtWork = {} /\ In(guard) \cap stacked = {}
    /\ AtWork \cap stacked = {}
    /\ making.steps # <<>> => making.sock # None
    /\ frames = 0 => stacked = {}

-----------------------------------------------------------------------------
(* e is f but for the guard g, which holds d. *)
Changed(f, e, g, d) ==
    /\ e \in [Guards -> Fd \cup {None}] /\ e[g] = d
    /\ \A h \in Guards \ {g} : e[h] = f[h]

(* One changed guard changes what the guards hold by what it held and holds. *)
LEMMA InAfter ==
  ASSUME NEW f, Typed(f), NEW g \in Guards, NEW d, d \notin In(f),
         NEW e, Changed(f, e, g, d)
  PROVE  /\ \A x : x \in In(e) <=> \/ (x = d /\ d # None)
                                  \/ (x \in In(f) /\ x # f[g])
         /\ Typed(e)
<1>1. ASSUME NEW x \in In(e)
      PROVE  (x = d /\ d # None) \/ (x \in In(f) /\ x # f[g])
  <2>1. PICK h \in Guards : x = e[h] /\ x # None
    BY DEF In
  <2>2. CASE h = g
    BY <2>1, <2>2 DEF Changed
  <2>3. CASE h # g
    BY <2>1, <2>3 DEF In, Scattered, Changed, Typed
  <2> QED
    BY <2>2, <2>3
<1>2. ASSUME NEW x, x = d /\ d # None
      PROVE  x \in In(e)
  BY <1>2 DEF In, Changed
<1>3. ASSUME NEW x, x \in In(f), x # f[g]
      PROVE  x \in In(e)
  <2>1. PICK h \in Guards : x = f[h] /\ x # None
    BY <1>3 DEF In
  <2>2. h # g
    BY <1>3, <2>1
  <2> QED
    BY <2>1, <2>2 DEF In, Changed
<1>4. Scattered(e)
  BY DEF Scattered, In, Changed, Typed
<1> QED
  BY <1>1, <1>2, <1>3, <1>4 DEF Changed, Typed

LEMMA InDropped ==
  ASSUME NEW f, Typed(f), NEW g \in Guards, NEW e, Changed(f, e, g, None)
  PROVE  In(e) = In(f) \ {f[g]} /\ Typed(e)
<1>1. None \notin In(f)
  BY DEF In
<1>2. /\ \A x : x \in In(e) <=> x \in In(f) /\ x # f[g]
      /\ Typed(e)
  BY <1>1, InAfter
<1> QED
  BY <1>2

LEMMA GuardsInitInv == GuardsInit => GuardsInv
<1> SUFFICES ASSUME GuardsInit PROVE GuardsInv
  OBVIOUS
<1>1. /\ open = {} /\ held = {} /\ stacked = {} /\ frames = 0
      /\ guard = [g \in Guards |-> None]
      /\ making = [steps |-> <<>>, sock |-> None]
  BY DEF GuardsInit
<1>2. In(guard) = {} /\ Typed(guard)
  BY <1>1 DEF In, Scattered, Typed
<1>3. AtWork = {} /\ making.steps = <<>>
  BY <1>1 DEF AtWork
<1>4. Record(making)
  BY <1>1 DEF Record
<1> QED
  BY <1>1, <1>2, <1>3, <1>4 DEF GuardsInv

LEMMA GuardsStepInv == GuardsInv /\ [GuardsNext]_guardVars => GuardsInv'
<1> SUFFICES ASSUME GuardsInv, [GuardsNext]_guardVars PROVE GuardsInv'
  OBVIOUS
<1> USE GuardsAssumption
<1>1. CASE Create
  <2>1. PICK d \in Free, steps \in Steps :
          making' = [steps |-> steps, sock |-> d] /\ open' = open \cup {d}
    BY <1>1 DEF Create
  <2>2. d \in Fd /\ d \notin open /\ d # None
    BY DEF Free
  <2>3. Record(making') /\ making'.sock = d
    BY <2>1, <2>2 DEF Record
  <2>4. AtWork = {} /\ AtWork' = {d}
    BY <1>1, <2>2, <2>3 DEF AtWork, Create
  <2>5. UNCHANGED <<held, guard, frames, stacked>>
    BY <1>1 DEF Create
  <2> QED
    BY <2>1, <2>2, <2>3, <2>4, <2>5 DEF GuardsInv
<1>2. CASE CreatePair
  <2>1. PICK d, e \in Free : open' = open \cup {d, e} /\ held' = held \cup {d, e}
    BY <1>2 DEF CreatePair
  <2>2. UNCHANGED <<guard, making, frames, stacked>> /\ AtWork' = AtWork
    BY <1>2 DEF CreatePair, AtWork
  <2>3. {d, e} \subseteq Fd /\ {d, e} \cap open = {}
    BY DEF Free
  <2> QED
    BY <2>1, <2>2, <2>3 DEF GuardsInv
<1>3. CASE StepSucceeds
  <2>1. /\ UNCHANGED <<open, held, guard, frames, stacked>>
        /\ making.steps # <<>>
        /\ making' = [making EXCEPT !.steps = Tail(@)]
    BY <1>3 DEF StepSucceeds
  <2>2. Record(making) /\ making.sock # None
    BY <2>1 DEF GuardsInv, Record
  <2>3. Record(making') /\ making'.sock = making.sock
    BY <2>1, <2>2 DEF Record
  <2>4. AtWork' = AtWork
    BY <2>3 DEF AtWork
  <2> QED
    BY <2>1, <2>2, <2>3, <2>4 DEF GuardsInv
<1>4. CASE StepFails
  <2>1. /\ open' = open \ {making.sock}
        /\ making' = [steps |-> <<>>, sock |-> None]
        /\ UNCHANGED <<held, guard, frames, stacked>>
        /\ making.sock # None
    BY <1>4 DEF StepFails, Fails, GuardsInv
  <2>2. Record(making') /\ making'.steps = <<>>
    BY <2>1 DEF Record
  <2>3. AtWork = {making.sock} /\ AtWork' = {}
    BY <2>1 DEF AtWork
  <2> QED
    BY <2>1, <2>2, <2>3 DEF GuardsInv
<1>5. CASE Made
  <2>1. /\ held' = held \cup {making.sock} /\ making.sock # None
        /\ making' = [steps |-> <<>>, sock |-> None]
        /\ UNCHANGED <<open, guard, frames, stacked>>
    BY <1>5 DEF Made
  <2>2. Record(making') /\ making'.steps = <<>>
    BY <2>1 DEF Record
  <2>3. AtWork = {making.sock} /\ AtWork' = {}
    BY <2>1 DEF AtWork
  <2> QED
    BY <2>1, <2>2, <2>3 DEF GuardsInv
<1>6. CASE CloseHeld
  <2>1. PICK d \in held : held' = held \ {d} /\ open' = Without(d)
    BY <1>6 DEF CloseHeld
  <2>2. UNCHANGED <<guard, making, frames, stacked>> /\ AtWork' = AtWork
    BY <1>6 DEF CloseHeld, AtWork
  <2>3. d # None /\ open' = open \ {d}
    BY <2>1 DEF Without, GuardsInv
  <2> QED
    BY <2>1, <2>2, <2>3 DEF GuardsInv
<1>7. CASE AssignAgain
  <2>1. /\ frames' = frames + 1 /\ frames # 0
        /\ UNCHANGED <<open, held, guard, making, stacked>>
    BY <1>7 DEF AssignAgain
  <2>2. AtWork' = AtWork /\ frames' \in Nat /\ frames' # 0
    BY <2>1 DEF AtWork, GuardsInv
  <2> QED
    BY <2>1, <2>2 DEF GuardsInv
<1>8. ASSUME NEW g \in Guards, GuardReset(g)
      PROVE  GuardsInv'
  <2>1. PICK d \in held : /\ held' = held \ {d} /\ open' = Without(guard[g])
                          /\ guard' = [guard EXCEPT ![g] = d]
    BY <1>8 DEF GuardReset
  <2>2. UNCHANGED <<making, frames, stacked>> /\ AtWork' = AtWork
    BY <1>8 DEF GuardReset, AtWork
  <2>3. d \in Fd /\ d \notin In(guard) /\ d # None
    BY DEF GuardsInv
  <2>4. /\ \A x : x \in In(guard') <=> x = d \/ (x \in In(guard) /\ x # guard[g])
        /\ Typed(guard')
    <3>1. Typed(guard)
      BY DEF GuardsInv
    <3>2. Changed(guard, guard', g, d)
      BY <2>1, <2>3, <3>1 DEF Changed, Typed
    <3>3. d \notin In(guard) /\ d # None
      BY <2>3
    <3> QED
      BY <3>1, <3>2, <3>3, InAfter
  <2>5. guard[g] = None \/ guard[g] \in In(guard)
    BY DEF In
  <2>6. None \notin open /\ open' = open \ {guard[g]}
    BY <2>1 DEF Without, GuardsInv
  <2>7. /\ guard[g] \notin held \cup AtWork \cup stacked /\ d # guard[g]
        /\ open = held \cup In(guard) \cup AtWork \cup stacked
        /\ open \subseteq Fd /\ held \subseteq Fd
    BY <2>3, <2>5, <2>6 DEF GuardsInv
  <2>8. held' \subseteq held /\ d \notin held'
    BY <2>1
  <2>9. In(guard') \subseteq In(guard) \cup {d} /\ d \notin AtWork \cup stacked
    BY <2>4 DEF GuardsInv
  <2>10. open' \subseteq Fd /\ held' \subseteq Fd
    BY <2>6, <2>7, <2>8
  <2>11. open' = held' \cup In(guard') \cup AtWork' \cup stacked'
    <3>1. ASSUME NEW x
          PROVE  x \in open' <=> \/ x \in held' \/ x \in In(guard')
                                 \/ x \in AtWork \/ x \in stacked
      <4>1. x \in open' <=> x \in open /\ x # guard[g]
        BY <2>6
      <4>2. x \in open <=> \/ x \in held \/ x \in In(guard)
                           \/ x \in AtWork \/ x \in stacked
        BY <2>7
      <4>3. x \in In(guard') <=> x = d \/ (x \in In(guard) /\ x # guard[g])
        BY <2>4
      <4>4. x \in held' <=> x \in held /\ x # d
        BY <2>1
      <4>5. x = guard[g] => x \notin held /\ x \notin AtWork /\ x \notin stacked
        BY <2>7
      <4>6. d \in held /\ d # guard[g]
        BY <2>1, <2>7
      <4> QED
        BY <4>1, <4>2, <4>3, <4>4, <4>5, <4>6, Zenon
    <3> QED
      BY <2>2, <3>1
  <2> QED
    BY <2>2, <2>4, <2>8, <2>9, <2>10, <2>11 DEF GuardsInv
<1>9. ASSUME NEW g \in Guards, GuardDrop(g)
      PROVE  GuardsInv'
  <2>1. /\ open' = Without(guard[g]) /\ guard[g] # None
        /\ guard' = [guard EXCEPT ![g] = None]
    BY <1>9 DEF GuardDrop
  <2>2. UNCHANGED <<held, making, frames, stacked>> /\ AtWork' = AtWork
    BY <1>9 DEF GuardDrop, AtWork
  <2>3. In(guard') = In(guard) \ {guard[g]} /\ Typed(guard')
    <3>1. Typed(guard)
      BY DEF GuardsInv
    <3>2. Changed(guard, guard', g, None)
      BY <2>1, <3>1 DEF Changed, Typed
    <3> QED
      BY <3>1, <3>2, InDropped
  <2>4. guard[g] \in In(guard) /\ open' = open \ {guard[g]}
    BY <2>1 DEF In, Without
  <2> QED
    BY <2>2, <2>3, <2>4 DEF GuardsInv
<1>10. ASSUME NEW g \in Guards, GuardRelease(g)
       PROVE  GuardsInv'
  <2>1. /\ held' = held \cup {guard[g]} /\ guard[g] # None
        /\ guard' = [guard EXCEPT ![g] = None]
    BY <1>10 DEF GuardRelease
  <2>2. UNCHANGED <<open, making, frames, stacked>> /\ AtWork' = AtWork
    BY <1>10 DEF GuardRelease, AtWork
  <2>3. In(guard') = In(guard) \ {guard[g]} /\ Typed(guard')
    <3>1. Typed(guard)
      BY DEF GuardsInv
    <3>2. Changed(guard, guard', g, None)
      BY <2>1, <3>1 DEF Changed, Typed
    <3> QED
      BY <3>1, <3>2, InDropped
  <2>4. guard[g] \in In(guard)
    BY <2>1 DEF In
  <2> QED
    BY <2>1, <2>2, <2>3, <2>4 DEF GuardsInv
<1>11. ASSUME NEW g \in Guards, NEW h \in Guards, GuardMove(g, h)
       PROVE  GuardsInv'
  <2>1. /\ guard[g] = None /\ guard[h] # None /\ g # h
        /\ guard' = [[guard EXCEPT ![h] = None] EXCEPT ![g] = guard[h]]
    BY <1>11 DEF GuardMove
  <2>2. UNCHANGED <<open, held, making, frames, stacked>> /\ AtWork' = AtWork
    BY <1>11 DEF GuardMove, AtWork
  <2>3. Typed(guard)
    BY DEF GuardsInv
  <2>4. PICK f : Changed(guard, f, h, None) /\ Changed(f, guard', g, guard[h])
    <3>1. Changed(guard, [guard EXCEPT ![h] = None], h, None)
      BY <2>3 DEF Changed, Typed
    <3>2. Changed([guard EXCEPT ![h] = None], guard', g, guard[h])
      BY <2>1, <2>3 DEF Changed, Typed
    <3> QED
      BY <3>1, <3>2
  <2>5. In(f) = In(guard) \ {guard[h]} /\ Typed(f) /\ f[g] = None
    <3>1. In(f) = In(guard) \ {guard[h]} /\ Typed(f)
      BY <2>3, <2>4, InDropped
    <3> QED
      BY <2>1, <2>4, <3>1 DEF Changed
  <2>6. guard[h] \in In(guard) /\ guard[h] \notin In(f)
    BY <2>1, <2>5 DEF In
  <2>7. /\ \A x : x \in In(guard') <=> x = guard[h] \/ (x \in In(f) /\ x # None)
        /\ Typed(guard')
    BY <2>1, <2>4, <2>5, <2>6, InAfter
  <2>8. In(guard') = In(guard)
    <3>1. None \notin In(guard)
      BY DEF In
    <3> QED
      BY <2>5, <2>6, <2>7, <3>1
  <2> QED
    BY <2>2, <2>7, <2>8 DEF GuardsInv
<1>12. ASSUME NEW g \in Guards, NEW h \in Guards, GuardAssign(g, h)
       PROVE  GuardsInv'
  <2>1. /\ g # h /\ frames' = 1 /\ stacked' = {guard[g], guard[h]} \ {None}
        /\ guard' = [[guard EXCEPT ![g] = None] EXCEPT ![h] = None]
        /\ stacked = {}
    BY <1>12 DEF GuardAssign, Running, GuardsInv
  <2>2. UNCHANGED <<open, held, making>> /\ AtWork' = AtWork
    BY <1>12 DEF GuardAssign, AtWork
  <2>3. Typed(guard)
    BY DEF GuardsInv
  <2>4. PICK f : Changed(guard, f, g, None) /\ Changed(f, guard', h, None)
    <3>1. Changed(guard, [guard EXCEPT ![g] = None], g, None)
      BY <2>3 DEF Changed, Typed
    <3>2. Changed([guard EXCEPT ![g] = None], guard', h, None)
      BY <2>1, <2>3 DEF Changed, Typed
    <3> QED
      BY <3>1, <3>2
  <2>5. In(f) = In(guard) \ {guard[g]} /\ Typed(f)
    BY <2>3, <2>4, InDropped
  <2>6. In(guard') = In(f) \ {f[h]} /\ Typed(guard')
    BY <2>4, <2>5, InDropped
  <2>7. f[h] = guard[h]
    BY <2>1, <2>4 DEF Changed
  <2>8. /\ \A x : x \in In(guard) <=> x \in In(guard') \/ x \in stacked'
        /\ \A x : x \in stacked' => x \notin In(guard')
    <3>1. /\ guard[g] # None => guard[g] \in In(guard)
          /\ guard[h] # None => guard[h] \in In(guard)
      BY DEF In
    <3>2. None \notin In(guard)
      BY DEF In
    <3> QED
      BY <2>1, <2>5, <2>6, <2>7, <3>1, <3>2
  <2>9. /\ frames' \in Nat /\ frames' # 0
        /\ open = held \cup In(guard) \cup AtWork
    BY <2>1 DEF GuardsInv
  <2>10. open' = held' \cup In(guard') \cup AtWork' \cup stacked'
    BY <2>2, <2>8, <2>9
  <2>11. /\ held' \cap In(guard') = {} /\ held' \cap stacked' = {}
         /\ In(guard') \cap AtWork' = {} /\ AtWork' \cap stacked' = {}
    BY <2>2, <2>8 DEF GuardsInv
  <2> QED
    BY <2>2, <2>6, <2>8, <2>9, <2>10, <2>11 DEF GuardsInv
<1>13. CASE UNCHANGED guardVars
  BY <1>13 DEF GuardsInv, guardVars, AtWork
<1> QED
  BY <1>1, <1>2, <1>3, <1>4, <1>5, <1>6, <1>7, <1>8, <1>9, <1>10, <1>11, <1>12,
     <1>13 DEF GuardsNext

-----------------------------------------------------------------------------
(* Whatever a program does with sockets and guards, and whichever step of   *)
(* making a socket fails, each open descriptor has exactly one owner, and   *)
(* no owner has a descriptor that has been closed.                          *)
THEOREM EverySocketIsOwned == GuardsSpec => []SocketsOwned
<1>1. GuardsInv => SocketsOwned
  BY DEF GuardsInv, SocketsOwned, In, Scattered, Typed, Guarded
<1> QED
  BY <1>1, GuardsInitInv, GuardsStepInv, PTL DEF GuardsSpec

-----------------------------------------------------------------------------
(* Places in a sequence, in their order. *)

LEMMA RankFacts ==
    ASSUME NEW S \in SUBSET Int, IsFiniteSet(S)
    PROVE  /\ Cardinality(S) \in Nat
           /\ \A x \in S : Rank(S, x) \in 1..Cardinality(S)
           /\ \A x, y \in S : x < y => Rank(S, x) < Rank(S, y)
  <1>1. Cardinality(S) \in Nat
    BY FS_CardinalityType
  <1>2. ASSUME NEW x \in S
        PROVE  /\ IsFiniteSet({y \in S : y <= x})
               /\ Rank(S, x) \in 1..Cardinality(S)
    <2> DEFINE T == {y \in S : y <= x}
    <2>1. T \subseteq S /\ x \in T
      OBVIOUS
    <2> HIDE DEF T
    <2>2. IsFiniteSet(T) /\ Cardinality(T) <= Cardinality(S)
      BY <2>1, FS_Subset
    <2>3. Cardinality(T) \in Nat /\ Cardinality(T) # 0
      BY <2>1, <2>2, FS_CardinalityType, FS_EmptySet
    <2>4. Cardinality(T) \in 1..Cardinality(S)
      BY <1>1, <2>2, <2>3
    <2> QED
      BY <2>2, <2>4 DEF T, Rank
  <1>a. \A x \in S : Rank(S, x) \in Int
    <2>1. \A n \in Nat : \A k \in 1..n : k \in Int
      OBVIOUS
    <2> QED
      BY <1>1, <1>2, <2>1, Zenon
  <1>3. ASSUME NEW x \in S, NEW y \in S, x < y
        PROVE  Rank(S, x) < Rank(S, y)
    <2> DEFINE T == {z \in S : z <= x}
               U == {z \in S : z <= y}
    <2>0. x \in Int /\ y \in Int /\ \A z \in S : z \in Int
      OBVIOUS
    <2>1. T \subseteq U /\ y \in U /\ y \notin T
      <3>1. \A z \in Int : z <= x => z <= y
        BY <1>3, <2>0
      <3>2. y <= y /\ ~ (y <= x)
        BY <1>3, <2>0
      <3> QED
        BY <2>0, <3>1, <3>2
    <2>2. IsFiniteSet(U)
      BY <1>2
    <2>3. Cardinality(T) = Rank(S, x) /\ Cardinality(U) = Rank(S, y)
      BY DEF Rank
    <2>4. Rank(S, x) \in Int /\ Rank(S, y) \in Int
      BY <1>a
    <2> HIDE DEF T, U
    <2>5. Cardinality(T) <= Cardinality(U) /\ Cardinality(T) # Cardinality(U)
      BY <2>1, <2>2, FS_Subset
    <2> QED
      BY <2>3, <2>4, <2>5
  <1> QED
    BY <1>1, <1>2, <1>3

(* Rank and Nth are inverse to each other. *)
LEMMA NthFacts ==
    ASSUME NEW S \in SUBSET Int, IsFiniteSet(S)
    PROVE  /\ \A x \in S : Nth(S, Rank(S, x)) = x
           /\ \A n \in 1..Cardinality(S) : Nth(S, n) \in S /\ Rank(S, Nth(S, n)) = n
  <1> DEFINE size == Cardinality(S)
             r == [x \in S |-> Rank(S, x)]
  <1>1. /\ size \in Nat
        /\ \A x \in S : Rank(S, x) \in 1..size
        /\ \A x, y \in S : x < y => Rank(S, x) < Rank(S, y)
    BY RankFacts
  <1>2. ASSUME NEW x \in S, NEW y \in S, Rank(S, x) = Rank(S, y)
        PROVE  x = y
    <2>1. x < y \/ y < x \/ x = y
      OBVIOUS
    <2>2. Rank(S, x) \in Int /\ Rank(S, y) \in Int
      BY <1>1
    <2> QED
      BY <1>1, <1>2, <2>1, <2>2
  <1> HIDE DEF size
  <1>3. r \in Injection(S, 1..size)
    <2>1. r \in [S -> 1..size]
      BY <1>1
    <2>2. \A x, y \in S : r[x] = r[y] => x = y
      BY <1>2
    <2> HIDE DEF r
    <2> QED
      BY <2>1, <2>2 DEF Injection, IsInjective
  <1>4. IsFiniteSet(1..size) /\ Cardinality(1..size) = size
    <2> DEFINE card == Cardinality(1..size)
    <2>1. IsFiniteSet(1..size) /\ card = IF 1 > size THEN 0 ELSE size - 1 + 1
      BY <1>1, FS_Interval, 1 \in Int, size \in Int
    <2> HIDE DEF card
    <2>2. card = size
      BY <1>1, <2>1
    <2> QED
      BY <2>1, <2>2 DEF card
  <1>5. r \in Surjection(S, 1..size)
    BY <1>3, <1>4, FS_Injection DEF size
  <1>6. \A n \in 1..size : \E x \in S : Rank(S, x) = n
    BY <1>5 DEF Surjection
  <1>7. \A n \in 1..size : Nth(S, n) \in S /\ Rank(S, Nth(S, n)) = n
    BY <1>6 DEF Nth
  <1>8. \A x \in S : Nth(S, Rank(S, x)) = x
    BY <1>1, <1>2, <1>7
  <1> QED
    BY <1>7, <1>8 DEF size

(* A last one is added. *)
LEMMA NthAdds ==
    ASSUME NEW S \in SUBSET Int, IsFiniteSet(S), NEW i \in Int, \A x \in S : x < i
    PROVE  /\ IsFiniteSet(S \cup {i})
           /\ Cardinality(S \cup {i}) = Cardinality(S) + 1
           /\ \A n \in 1..Cardinality(S) : Nth(S \cup {i}, n) = Nth(S, n)
           /\ Nth(S \cup {i}, Cardinality(S) + 1) = i
  <1> DEFINE T == S \cup {i}
  <1>1. i \notin S
    OBVIOUS
  <1>2. IsFiniteSet(T) /\ Cardinality(T) = Cardinality(S) + 1
    BY <1>1, FS_AddElement
  <1>3. T \in SUBSET Int
    OBVIOUS
  <1>4. \A x \in S : Rank(T, x) = Rank(S, x)
    <2> TAKE x \in S
    <2>1. {y \in T : y <= x} = {y \in S : y <= x}
      OBVIOUS
    <2> QED
      BY <2>1 DEF Rank
  <1>5. Rank(T, i) = Cardinality(S) + 1
    <2>0. \A y \in T : y <= i
      OBVIOUS
    <2>1. {y \in T : y <= i} = T
      BY <2>0, Zenon
    <2> HIDE DEF T
    <2> QED
      BY <1>2, <2>1 DEF Rank
  <1>6. i \in T /\ \A x \in S : x \in T
    OBVIOUS
  <1> HIDE DEF T
  <1>7. \A x \in T : Nth(T, Rank(T, x)) = x
    BY <1>2, <1>3, NthFacts
  <1>8. \A n \in 1..Cardinality(S) : Nth(T, n) = Nth(S, n)
    <2> TAKE n \in 1..Cardinality(S)
    <2>1. Nth(S, n) \in S /\ Rank(S, Nth(S, n)) = n
      BY NthFacts
    <2> QED
      BY <1>4, <1>6, <1>7, <2>1
  <1> QED
    BY <1>2, <1>5, <1>6, <1>7, <1>8 DEF T

(* c lists the n elements of S in their order. *)
Lists(c, n, S) ==
    /\ c \in [1..n -> Int]
    /\ \A j, k \in 1..n : j < k => c[j] < c[k]
    /\ S = {c[k] : k \in 1..n}

LEMMA NthIsListed ==
    ASSUME NEW n \in Nat, NEW c, NEW S, Lists(c, n, S)
    PROVE  Cardinality(S) = n /\ \A k \in 1..n : Nth(S, k) = c[k]
  <1> DEFINE U(m) == {c[k] : k \in 1..m}
             Good(m) == /\ IsFiniteSet(U(m)) /\ Cardinality(U(m)) = m
                        /\ \A k \in 1..m : Nth(U(m), k) = c[k]
             N == {m \in Nat : m <= n => Good(m)}
  <1>1. /\ \A k \in 1..n : c[k] \in Int
        /\ \A j, k \in 1..n : j < k => c[j] < c[k]
        /\ S = U(n)
    BY DEF Lists
  <1>2. 0 \in N
    <2>1. U(0) = {}
      OBVIOUS
    <2> HIDE DEF U
    <2>2. Good(0)
      BY <2>1, FS_EmptySet
    <2> QED
      BY <2>2
  <1>3. ASSUME NEW m \in N
        PROVE  m + 1 \in N
    <2> SUFFICES ASSUME m + 1 <= n
                 PROVE  Good(m + 1)
      BY m + 1 \in Nat
    <2>1. m \in Nat /\ m <= n /\ Good(m)
      OBVIOUS
    <2>2. \A k \in 1..m : k \in 1..n /\ k < m + 1
      BY <2>1
    <2>3. m + 1 \in 1..n
      BY <2>1
    <2> DEFINE i == c[m + 1]
    <2>4. i \in Int /\ \A x \in U(m) : x \in Int /\ x < i
      BY <1>1, <2>2, <2>3
    <2>5. U(m + 1) = U(m) \cup {i}
      <3>1. 1..(m + 1) = (1..m) \cup {m + 1}
        BY <2>1
      <3> QED
        BY <3>1
    <2> HIDE DEF U, i
    <2>6. /\ IsFiniteSet(U(m) \cup {i})
          /\ Cardinality(U(m) \cup {i}) = Cardinality(U(m)) + 1
          /\ \A k \in 1..Cardinality(U(m)) : Nth(U(m) \cup {i}, k) = Nth(U(m), k)
          /\ Nth(U(m) \cup {i}, Cardinality(U(m)) + 1) = i
      <3>1. U(m) \in SUBSET Int /\ IsFiniteSet(U(m)) /\ \A x \in U(m) : x < i
        BY <2>1, <2>4
      <3> QED
        BY <2>4, <3>1, NthAdds
    <2>7. \A k \in 1..(m + 1) : k \in 1..m \/ k = m + 1
      BY <2>1
    <2> QED
      BY <2>1, <2>5, <2>6, <2>7 DEF i
  <1> HIDE DEF N, Good
  <1>4. \A m \in Nat : m \in N
    <2>1. N \in SUBSET Nat
      BY DEF N
    <2> QED
      BY <1>2, <1>3, <2>1, Inductive
  <1>5. n \in N /\ n <= n
    BY <1>4
  <1>6. Good(n)
    BY <1>5 DEF N
  <1> QED
    BY <1>1, <1>6 DEF Good

LEMMA NthLists ==
    ASSUME NEW S \in SUBSET Int, IsFiniteSet(S)
    PROVE  /\ Cardinality(S) \in Nat
           /\ Lists([k \in 1..Cardinality(S) |-> Nth(S, k)], Cardinality(S), S)
  <1> DEFINE n == Cardinality(S)
             c == [k \in 1..n |-> Nth(S, k)]
  <1>1. n \in Nat
    BY FS_CardinalityType
  <1>2. /\ \A x \in S : Rank(S, x) \in 1..n /\ Nth(S, Rank(S, x)) = x
        /\ \A k \in 1..n : Nth(S, k) \in S /\ Rank(S, Nth(S, k)) = k
        /\ \A x, y \in S : x < y => Rank(S, x) < Rank(S, y)
    BY RankFacts, NthFacts
  <1> HIDE DEF n
  <1>3. \A x \in S : x \in Int
    OBVIOUS
  <1>4. c \in [1..n -> Int]
    BY <1>2, <1>3
  <1>5. ASSUME NEW j \in 1..n, NEW k \in 1..n, j < k
        PROVE  c[j] < c[k]
    <2> DEFINE x == Nth(S, j)
               y == Nth(S, k)
    <2>1. x \in S /\ y \in S /\ Rank(S, x) = j /\ Rank(S, y) = k
      BY <1>2
    <2>2. c[j] = x /\ c[k] = y
      OBVIOUS
    <2> HIDE DEF x, y, c
    <2>3. ~ (y < x) /\ x # y
      BY <1>1, <1>2, <1>5, <2>1
    <2>4. x \in Int /\ y \in Int
      BY <1>3, <2>1
    <2> QED
      BY <2>2, <2>3, <2>4
  <1>6. S = {c[k] : k \in 1..n}
    <2>1. \A k \in 1..n : c[k] \in S
      BY <1>2
    <2>2. \A x \in S : Rank(S, x) \in 1..n /\ c[Rank(S, x)] = x
      BY <1>2
    <2> HIDE DEF c
    <2> QED
      BY <2>1, <2>2
  <1> QED
    BY <1>1, <1>4, <1>5, <1>6 DEF Lists, n

-----------------------------------------------------------------------------
(* Configuration files. *)

(* The count of lines goes on. *)
LEMMA NumStep ==
    ASSUME NEW f, NEW kind, NEW j \in Nat, NEW k \in Nat, j <= k + 1
    PROVE  /\ Num(f, kind, j, k) \in Nat
           /\ f[k + 1].kind = kind => Num(f, kind, j, k + 1) = Num(f, kind, j, k) + 1
           /\ f[k + 1].kind # kind => Num(f, kind, j, k + 1) = Num(f, kind, j, k)
  <1> DEFINE M == {m \in j..k : f[m].kind = kind}
             N == {m \in j..(k + 1) : f[m].kind = kind}
  <1>1. IsFiniteSet(j..k)
    BY FS_Interval
  <1>2. IsFiniteSet(M)
    BY <1>1, FS_Subset
  <1>3. k + 1 \notin M /\ j..(k + 1) = (j..k) \cup {k + 1}
    OBVIOUS
  <1>4. CASE f[k + 1].kind = kind
    <2>1. N = M \cup {k + 1}
      BY <1>3, <1>4
    <2> HIDE DEF M, N
    <2>2. Cardinality(N) = Cardinality(M) + 1 /\ Cardinality(M) \in Nat
      BY <1>2, <1>3, <2>1, FS_AddElement, FS_CardinalityType
    <2> QED
      BY <1>4, <2>2 DEF Num, M, N
  <1>5. CASE f[k + 1].kind # kind
    <2>1. N = M
      BY <1>3, <1>5
    <2> HIDE DEF M, N
    <2>2. Cardinality(M) \in Nat
      BY <1>2, FS_CardinalityType
    <2> QED
      BY <1>5, <2>1, <2>2 DEF Num, M, N
  <1> QED
    BY <1>4, <1>5

(* The next line, and the scopes around it. *)
LEMMA AroundStep ==
    ASSUME NEW f, NEW i \in Nat \ {0}
    PROVE  /\ Around(f, i) \in SUBSET (1..(i - 1)) /\ IsFiniteSet(Around(f, i))
           /\ f[i].kind = "open" => Around(f, i + 1) = Around(f, i) \cup {i}
           /\ f[i].kind = "close" =>
                Around(f, i + 1) = {j \in Around(f, i) :
                                      Num(f, "open", j, i - 1) > Num(f, "close", j, i - 1) + 1}
           /\ f[i].kind \notin {"open", "close"} => Around(f, i + 1) = Around(f, i)
  <1> DEFINE More(j, k) == Num(f, "open", j, k) > Num(f, "close", j, k)
  <1>1. \A j : j \in Around(f, i) <=> /\ j \in 1..(i - 1) /\ f[j].kind = "open"
                                      /\ \A k \in j..(i - 1) : More(j, k)
    BY DEF Around
  <1>2. \A j : j \in Around(f, i + 1) <=> /\ j \in 1..i /\ f[j].kind = "open"
                                          /\ \A k \in j..i : More(j, k)
    <2>1. i + 1 - 1 = i
      OBVIOUS
    <2> QED
      BY <2>1 DEF Around
  <1>3. \A j \in 1..(i - 1) :
          /\ j \in Nat /\ i - 1 \in Nat /\ j <= i - 1 /\ j..i = (j..(i - 1)) \cup {i}
          /\ i - 1 \in j..(i - 1)
    OBVIOUS
  <1>4. 1..i = (1..(i - 1)) \cup {i}
    OBVIOUS
  <1>5. \A j : j \in Around(f, i + 1) <=>
                 \/ j \in Around(f, i) /\ More(j, i)
                 \/ j = i /\ f[i].kind = "open" /\ \A k \in i..i : More(i, k)
    <2> HIDE DEF More
    <2> QED
      BY <1>1, <1>2, <1>3, <1>4
  <1>6. \A j \in Around(f, i) :
          /\ Num(f, "open", j, i - 1) \in Nat /\ Num(f, "close", j, i - 1) \in Nat
          /\ Num(f, "open", j, i - 1) > Num(f, "close", j, i - 1)
          /\ \A kind \in {"open", "close"} :
               /\ f[i].kind = kind => Num(f, kind, j, i) = Num(f, kind, j, i - 1) + 1
               /\ f[i].kind # kind => Num(f, kind, j, i) = Num(f, kind, j, i - 1)
    <2> TAKE j \in Around(f, i)
    <2>1. j \in Nat /\ i - 1 \in Nat /\ j <= (i - 1) + 1 /\ (i - 1) + 1 = i
      BY <1>1
    <2>2. More(j, i - 1)
      BY <1>1, <1>3
    <2>3. \A kind : /\ Num(f, kind, j, i - 1) \in Nat
                    /\ f[i].kind = kind => Num(f, kind, j, i) = Num(f, kind, j, i - 1) + 1
                    /\ f[i].kind # kind => Num(f, kind, j, i) = Num(f, kind, j, i - 1)
      BY <2>1, NumStep
    <2> QED
      BY <2>2, <2>3
  <1>7. f[i].kind = "open" => \A k \in i..i : More(i, k)
    <2> SUFFICES ASSUME f[i].kind = "open"
                 PROVE  More(i, i)
      OBVIOUS
    <2>1. i \in Nat /\ i - 1 \in Nat /\ i <= (i - 1) + 1 /\ (i - 1) + 1 = i
      OBVIOUS
    <2>2. \A kind : /\ Num(f, kind, i, i - 1) \in Nat
                    /\ f[i].kind = kind => Num(f, kind, i, i) = Num(f, kind, i, i - 1) + 1
                    /\ f[i].kind # kind => Num(f, kind, i, i) = Num(f, kind, i, i - 1)
      BY <2>1, NumStep
    <2>3. \A kind : Num(f, kind, i, i - 1) = 0
      <3>1. i..(i - 1) = {}
        OBVIOUS
      <3> QED
        BY <3>1, FS_EmptySet DEF Num
    <2>4. Num(f, "open", i, i) = 1 /\ Num(f, "close", i, i) = 0
      BY <2>2, <2>3
    <2> QED
      BY <2>4
  <1>8. Around(f, i) \in SUBSET (1..(i - 1)) /\ IsFiniteSet(Around(f, i))
    <2>1. Around(f, i) \in SUBSET (1..(i - 1))
      BY <1>1
    <2>2. IsFiniteSet(1..(i - 1))
      BY FS_Interval
    <2> QED
      BY <2>1, <2>2, FS_Subset
  <1>9. CASE f[i].kind = "open"
    <2>1. \A j \in Around(f, i) : More(j, i)
      BY <1>6, <1>9
    <2> HIDE DEF More
    <2>2. Around(f, i + 1) = Around(f, i) \cup {i}
      BY <1>5, <1>7, <1>9, <2>1
    <2> QED
      BY <1>8, <1>9, <2>2
  <1>10. CASE f[i].kind = "close"
    <2>1. \A j \in Around(f, i) :
            More(j, i) <=> Num(f, "open", j, i - 1) > Num(f, "close", j, i - 1) + 1
      BY <1>6, <1>10
    <2> HIDE DEF More
    <2>2. f[i].kind # "open"
      BY <1>10
    <2>3. Around(f, i + 1) = {j \in Around(f, i) :
                                Num(f, "open", j, i - 1) > Num(f, "close", j, i - 1) + 1}
      BY <1>5, <2>1, <2>2
    <2> QED
      BY <1>8, <1>10, <2>2, <2>3
  <1>11. CASE f[i].kind \notin {"open", "close"}
    <2>1. \A j \in Around(f, i) : More(j, i)
      BY <1>6, <1>11
    <2> HIDE DEF More
    <2>2. Around(f, i + 1) = Around(f, i)
      BY <1>5, <1>11, <2>1
    <2> QED
      BY <1>8, <1>11, <2>2
  <1> QED
    BY <1>9, <1>10, <1>11

-----------------------------------------------------------------------------
(* As many scopes lie around line i from line j on as were opened since and *)
(* not closed: the last one is the one that the next brace closes.          *)
From(S, j) == {k \in S : j <= k}

Nested(f, i) ==
    \A j \in Around(f, i) :
       Num(f, "open", j, i - 1) = Num(f, "close", j, i - 1) + Cardinality(From(Around(f, i), j))

LEMMA FromFacts ==
    ASSUME NEW S \in SUBSET Int, IsFiniteSet(S), NEW j \in S
    PROVE  /\ IsFiniteSet(From(S, j)) /\ Cardinality(From(S, j)) \in Nat \ {0}
           /\ Cardinality(From(S, j)) = 1 <=> \A k \in S : k <= j
           /\ \A i \in Int : i > j /\ i \notin S =>
                Cardinality(From(S \cup {i}, j)) = Cardinality(From(S, j)) + 1
           /\ \A i \in S : j < i =>
                Cardinality(From(S \ {i}, j)) = Cardinality(From(S, j)) - 1
  <1> DEFINE F == From(S, j)
  <1>0. j \in Int /\ \A k \in S : k \in Int
    OBVIOUS
  <1>1. F \subseteq S /\ j \in F
    BY <1>0 DEF From
  <1>2. \A k \in F : j <= k
    BY DEF From
  <1>3. (\A k \in F : k = j) <=> \A k \in S : k <= j
    BY <1>0 DEF From
  <1>4. \A i \in Int : i > j => From(S \cup {i}, j) = F \cup {i}
    BY <1>0 DEF From
  <1>5. \A i \in S : From(S \ {i}, j) = F \ {i}
    BY DEF From
  <1>6. \A i \in Int : i \notin S => i \notin F
    BY DEF From
  <1>7. \A i \in S : j < i => i \in F
    BY DEF From
  <1> HIDE DEF F
  <1>8. IsFiniteSet(F) /\ Cardinality(F) \in Nat
    BY <1>1, FS_Subset, FS_CardinalityType
  <1>9. Cardinality(F) # 0
    BY <1>1, <1>8, FS_EmptySet
  <1>10. Cardinality(F) = 1 <=> \A k \in F : k = j
    <2>1. Cardinality(F) = 1 <=> \E x : F = {x}
      BY <1>8, FS_Singleton
    <2>2. (\E x : F = {x}) <=> \A k \in F : k = j
      <3>1. \A x : F = {x} => \A k \in F : k = j
        BY <1>1
      <3>2. (\A k \in F : k = j) => F = {j}
        BY <1>1
      <3> QED
        BY <3>1, <3>2, Zenon
    <2> QED
      BY <2>1, <2>2
  <1>11. \A i : i \notin F => Cardinality(F \cup {i}) = Cardinality(F) + 1
    BY <1>8, FS_AddElement
  <1>12. \A i \in F : Cardinality(F \ {i}) = Cardinality(F) - 1
    BY <1>8, FS_RemoveElement
  <1>13. \A i \in Int : i > j /\ i \notin S =>
           Cardinality(From(S \cup {i}, j)) = Cardinality(F) + 1
    BY <1>4, <1>6, <1>11
  <1>14. \A i \in S : j < i => Cardinality(From(S \ {i}, j)) = Cardinality(F) - 1
    BY <1>5, <1>7, <1>12
  <1> QED
    BY <1>3, <1>8, <1>9, <1>10, <1>13, <1>14 DEF F

(* The last one goes. *)
LEMMA CloseLast ==
    ASSUME NEW f, NEW i \in Nat \ {0}, Nested(f, i), f[i].kind = "close"
    PROVE  \/ Around(f, i) = {} /\ Around(f, i + 1) = {}
           \/ \E t \in Around(f, i) : /\ \A k \in Around(f, i) : k <= t
                                      /\ Around(f, i + 1) = Around(f, i) \ {t}
  <1> DEFINE A == Around(f, i)
  <1>1. A \in SUBSET (1..(i - 1)) /\ IsFiniteSet(A)
    BY AroundStep
  <1>2. A \in SUBSET Int
    BY <1>1
  <1>3. Around(f, i + 1) = {j \in A : Num(f, "open", j, i - 1) > Num(f, "close", j, i - 1) + 1}
    BY AroundStep
  <1>4. \A j \in A : /\ Num(f, "open", j, i - 1) = Num(f, "close", j, i - 1) + Cardinality(From(A, j))
                     /\ Num(f, "close", j, i - 1) \in Nat
                     /\ Cardinality(From(A, j)) \in Nat \ {0}
                     /\ Cardinality(From(A, j)) = 1 <=> \A k \in A : k <= j
    <2> TAKE j \in A
    <2>1. j \in Nat /\ i - 1 \in Nat /\ j <= (i - 1) + 1
      BY <1>1
    <2>2. Num(f, "close", j, i - 1) \in Nat
      BY <2>1, NumStep
    <2>3. Num(f, "open", j, i - 1) = Num(f, "close", j, i - 1) + Cardinality(From(A, j))
      BY DEF Nested
    <2> HIDE DEF A
    <2> QED
      BY <1>1, <1>2, <2>2, <2>3, FromFacts
  <1>5. \A j \in A : Num(f, "open", j, i - 1) > Num(f, "close", j, i - 1) + 1
                       <=> ~ \A k \in A : k <= j
    BY <1>4
  <1>6. CASE A = {}
    BY <1>3, <1>6
  <1>7. CASE A # {}
    <2> HIDE DEF A
    <2>1. \E t \in A : \A k \in A : k <= t
      <3>1. Cardinality(A) \in Nat /\ Cardinality(A) # 0
        BY <1>1, <1>7, FS_EmptySet, FS_CardinalityType
      <3> DEFINE size == Cardinality(A)
                 t == Nth(A, size)
      <3>2. size \in 1..size
        BY <3>1
      <3>3. t \in A /\ Rank(A, t) = size
        BY <1>1, <1>2, <3>2, NthFacts
      <3>4. \A k \in A : Rank(A, k) \in 1..size /\ (t < k => size < Rank(A, k))
        BY <1>1, <1>2, <3>3, RankFacts
      <3> HIDE DEF size, t
      <3>5. \A k \in A : ~ (t < k)
        BY <3>1, <3>4 DEF size
      <3> QED
        BY <1>2, <3>3, <3>5
    <2>2. PICK t \in A : \A k \in A : k <= t
      BY <2>1
    <2>3. \A j \in A : (~ \A k \in A : k <= j) <=> j # t
      BY <1>2, <2>2
    <2>4. Around(f, i + 1) = A \ {t}
      BY <1>3, <1>5, <2>3
    <2> QED
      BY <2>2, <2>4 DEF A
  <1> QED
    BY <1>6, <1>7

LEMMA NestedStep ==
    ASSUME NEW f, NEW i \in Nat \ {0}, Nested(f, i)
    PROVE  Nested(f, i + 1)
  <1> DEFINE A == Around(f, i)
             B == Around(f, i + 1)
             Opened(j, k) == Num(f, "open", j, k)
             Closed(j, k) == Num(f, "close", j, k)
  <1>1. A \in SUBSET (1..(i - 1)) /\ A \in SUBSET Int /\ IsFiniteSet(A)
    BY AroundStep
  <1>2. ASSUME NEW j \in 1..i
        PROVE  /\ Opened(j, i - 1) \in Nat /\ Closed(j, i - 1) \in Nat
               /\ Opened(j, i) = IF f[i].kind = "open" THEN Opened(j, i - 1) + 1 ELSE Opened(j, i - 1)
               /\ Closed(j, i) = IF f[i].kind = "close" THEN Closed(j, i - 1) + 1 ELSE Closed(j, i - 1)
    <2>1. j \in Nat /\ i - 1 \in Nat /\ j <= (i - 1) + 1 /\ (i - 1) + 1 = i
      BY <1>2
    <2>2. \A kind : /\ Num(f, kind, j, i - 1) \in Nat
                    /\ f[i].kind = kind => Num(f, kind, j, i) = Num(f, kind, j, i - 1) + 1
                    /\ f[i].kind # kind => Num(f, kind, j, i) = Num(f, kind, j, i - 1)
      BY <2>1, NumStep
    <2> QED
      BY <2>2
  <1>3. \A j \in A : Opened(j, i - 1) = Closed(j, i - 1) + Cardinality(From(A, j))
    BY DEF Nested
  <1>4. \A j \in A : j \in 1..i /\ j < i /\ Cardinality(From(A, j)) \in Nat
    <2> HIDE DEF A
    <2> TAKE j \in A
    <2>1. j \in 1..i /\ j < i
      BY <1>1
    <2> QED
      BY <1>1, <2>1, FromFacts
  <1>5. SUFFICES \A j \in B : Opened(j, i) = Closed(j, i) + Cardinality(From(B, j))
    <2>1. i + 1 - 1 = i
      OBVIOUS
    <2> QED
      BY <2>1 DEF Nested
  <1>6. CASE f[i].kind = "open"
    <2>1. B = A \cup {i} /\ i \notin A /\ i \in Int
      BY <1>1, <1>6, AroundStep
    <2>2. ASSUME NEW j \in A
          PROVE  Opened(j, i) = Closed(j, i) + Cardinality(From(B, j))
      <3>1. Cardinality(From(B, j)) = Cardinality(From(A, j)) + 1
        <4> HIDE DEF A, B
        <4> QED
          BY <1>1, <1>4, <2>1, <2>2, FromFacts
      <3> HIDE DEF A, B
      <3> QED
        BY <1>2, <1>3, <1>4, <1>6, <3>1
    <2>3. Opened(i, i) = Closed(i, i) + Cardinality(From(B, i))
      <3>1. From(B, i) = {i}
        BY <1>1, <2>1 DEF From
      <3>2. Cardinality(From(B, i)) = 1
        BY <3>1, FS_Singleton
      <3>3. \A kind : Num(f, kind, i, i - 1) = 0
        <4>1. i..(i - 1) = {}
          OBVIOUS
        <4> QED
          BY <4>1, FS_EmptySet DEF Num
      <3>4. i \in 1..i
        OBVIOUS
      <3>5. Opened(i, i) = 1 /\ Closed(i, i) = 0
        BY <1>2, <1>6, <3>3, <3>4
      <3> QED
        BY <3>2, <3>5
    <2> QED
      BY <2>1, <2>2, <2>3
  <1>7. CASE f[i].kind = "close"
    <2>1. \/ B = {}
          \/ \E t \in A : (\A k \in A : k <= t) /\ B = A \ {t}
      BY <1>7, CloseLast
    <2>2. CASE B = {}
      BY <2>2
    <2>3. ASSUME NEW t \in A, \A k \in A : k <= t, B = A \ {t}, NEW j \in B
          PROVE  Opened(j, i) = Closed(j, i) + Cardinality(From(B, j))
      <3> HIDE DEF A, B
      <3>1. j \in A /\ j < t
        BY <1>1, <2>3
      <3>2. Cardinality(From(B, j)) = Cardinality(From(A, j)) - 1
        BY <1>1, <2>3, <3>1, FromFacts
      <3> QED
        BY <1>2, <1>3, <1>4, <1>7, <3>1, <3>2
    <2> HIDE DEF A, B, Opened, Closed
    <2> QED
      BY <2>1, <2>2, <2>3
  <1>8. CASE f[i].kind \notin {"open", "close"}
    <2>1. B = A
      BY <1>8, AroundStep
    <2> HIDE DEF A, B
    <2> QED
      BY <1>2, <1>3, <1>4, <1>8, <2>1
  <1> QED
    BY <1>6, <1>7, <1>8

LEMMA AlwaysNested == ASSUME NEW f, NEW i \in Nat \ {0} PROVE Nested(f, i)
  <1> DEFINE N == {n \in Nat : Nested(f, n + 1)}
  <1>1. 0 \in N
    <2>1. Around(f, 1) = {}
      BY DEF Around
    <2>2. 0 + 1 = 1
      OBVIOUS
    <2> QED
      BY <2>1, <2>2 DEF Nested
  <1>2. ASSUME NEW n \in N
        PROVE  n + 1 \in N
    <2>1. n + 1 \in Nat \ {0} /\ Nested(f, n + 1)
      OBVIOUS
    <2>2. Nested(f, (n + 1) + 1)
      BY <2>1, NestedStep
    <2> QED
      BY <2>1, <2>2
  <1> HIDE DEF N
  <1>3. N \in SUBSET Nat
    BY DEF N
  <1>4. \A n \in Nat : n \in N
    BY <1>1, <1>2, <1>3, Inductive
  <1>5. i - 1 \in Nat /\ (i - 1) + 1 = i
    OBVIOUS
  <1>6. i - 1 \in N
    BY <1>4, <1>5
  <1> QED
    BY <1>5, <1>6 DEF N

(* What the lines do to the names of the scopes. *)
LEMMA ScopesStep ==
    ASSUME NEW f, NEW i \in Nat \ {0}
    PROVE  /\ Scopes(f, i) \in Seq({f[j].name : j \in 1..(i - 1)})
           /\ f[i].kind = "open" => Scopes(f, i + 1) = Append(Scopes(f, i), f[i].name)
           /\ f[i].kind = "close" /\ Scopes(f, i) # <<>> => Scopes(f, i + 1) = Front(Scopes(f, i))
           /\ f[i].kind \notin {"open", "close"} => Scopes(f, i + 1) = Scopes(f, i)
  <1> DEFINE A == Around(f, i)
             size == Cardinality(A)
             names == {f[j].name : j \in 1..(i - 1)}
  <1>1. A \in SUBSET (1..(i - 1)) /\ A \in SUBSET Int /\ IsFiniteSet(A)
    BY AroundStep
  <1>2. size \in Nat
    BY <1>1, FS_CardinalityType
  <1>3. \A n \in 1..size : Nth(A, n) \in A
    BY <1>1, NthFacts
  <1>4. Scopes(f, i) = [n \in 1..size |-> f[Nth(A, n)].name]
    BY DEF Scopes
  <1>5. Scopes(f, i) \in Seq(names) /\ Len(Scopes(f, i)) = size
    <2> HIDE DEF A, size
    <2>1. \A n \in 1..size : f[Nth(A, n)].name \in names
      BY <1>1, <1>3
    <2> HIDE DEF names
    <2> QED
      BY <1>2, <1>4, <2>1
  <1>6. CASE f[i].kind = "open"
    <2>1. Around(f, i + 1) = A \cup {i}
      BY <1>6, AroundStep
    <2> HIDE DEF A
    <2>2. i \in Int /\ \A x \in A : x < i
      BY <1>1
    <2>3. /\ Cardinality(A \cup {i}) = size + 1
          /\ \A n \in 1..size : Nth(A \cup {i}, n) = Nth(A, n)
          /\ Nth(A \cup {i}, size + 1) = i
      BY <1>1, <2>2, NthAdds
    <2>4. Scopes(f, i + 1) = [n \in 1..(size + 1) |-> f[Nth(A \cup {i}, n)].name]
      BY <2>1, <2>3 DEF Scopes
    <2> HIDE DEF size, names
    <2>5. Append(Scopes(f, i), f[i].name)
            = [n \in 1..(size + 1) |-> IF n = size + 1 THEN f[i].name ELSE f[Nth(A, n)].name]
      <3> DEFINE s == Scopes(f, i)
      <3>1. Append(s, f[i].name) = [n \in 1..(Len(s) + 1) |-> IF n = Len(s) + 1 THEN f[i].name ELSE s[n]]
        <4> DEFINE all == names \cup {f[i].name}
        <4>1. s \in Seq(all)
          BY <1>5
        <4>2. f[i].name \in all
          OBVIOUS
        <4> HIDE DEF s, all
        <4> QED
          BY <4>1, <4>2
      <3>2. \A n \in 1..(size + 1) : n # size + 1 => n \in 1..size
        BY <1>2
      <3> HIDE DEF s
      <3>3. Len(s) = size /\ s = [n \in 1..size |-> f[Nth(A, n)].name]
        BY <1>4, <1>5 DEF s
      <3>4. \A n \in 1..(size + 1) : n # size + 1 => s[n] = f[Nth(A, n)].name
        BY <3>2, <3>3
      <3> QED
        BY <3>1, <3>3, <3>4 DEF s
    <2>6. \A n \in 1..(size + 1) : n # size + 1 => n \in 1..size
      BY <1>2
    <2>7. Scopes(f, i + 1) = Append(Scopes(f, i), f[i].name)
      BY <2>3, <2>4, <2>5, <2>6
    <2> QED
      BY <1>5, <1>6, <2>7 DEF names
  <1>7. CASE f[i].kind = "close" /\ Scopes(f, i) # <<>>
    <2>1. A # {}
      <3>1. size # 0
        BY <1>5, <1>7
      <3> QED
        BY <3>1, FS_EmptySet
    <2>2. Nested(f, i)
      BY AlwaysNested
    <2>3. PICK t \in A : (\A k \in A : k <= t) /\ Around(f, i + 1) = A \ {t}
      BY <1>7, <2>1, <2>2, CloseLast
    <2> DEFINE B == A \ {t}
    <2>4. /\ B \in SUBSET Int /\ IsFiniteSet(B) /\ t \in Int
          /\ A = B \cup {t}
      BY <1>1, <2>3, FS_Subset
    <2>5. \A x \in B : x < t
      BY <1>1, <2>3
    <2> HIDE DEF B, A
    <2>6. /\ Cardinality(B \cup {t}) = Cardinality(B) + 1
          /\ \A n \in 1..Cardinality(B) : Nth(B \cup {t}, n) = Nth(B, n)
      BY <2>4, <2>5, NthAdds
    <2>7. Cardinality(B) \in Nat /\ Cardinality(B) = size - 1
      BY <2>4, <2>6, FS_CardinalityType
    <2>8. Scopes(f, i + 1) = [n \in 1..(size - 1) |-> f[Nth(B, n)].name]
      BY <2>3, <2>7 DEF Scopes, B
    <2>9. \A n \in 1..(size - 1) : n \in 1..size /\ Nth(B, n) = Nth(A, n)
      BY <1>2, <2>4, <2>6, <2>7
    <2> HIDE DEF size, names
    <2>10. Front(Scopes(f, i)) = [n \in 1..(size - 1) |-> f[Nth(A, n)].name]
      <3> DEFINE s == Scopes(f, i)
      <3>1. s \in Seq(names) /\ Len(s) = size
        BY <1>5
      <3>2. \A n \in 1..(size - 1) : s[n] = f[Nth(A, n)].name
        BY <1>4, <2>9
      <3> HIDE DEF s
      <3>3. Front(s) = [n \in 1..(size - 1) |-> s[n]]
        BY <1>2, <3>1 DEF Front
      <3> QED
        BY <3>2, <3>3 DEF s
    <2>11. Scopes(f, i + 1) = Front(Scopes(f, i))
      BY <2>8, <2>9, <2>10
    <2> QED
      BY <1>5, <1>7, <2>11 DEF names
  <1>8. CASE f[i].kind \notin {"open", "close"}
    <2>1. Scopes(f, i + 1) = Scopes(f, i)
      BY <1>8, AroundStep DEF Scopes
    <2> QED
      BY <1>5, <1>8, <2>1
  <1> QED
    BY <1>5, <1>6, <1>7, <1>8

-----------------------------------------------------------------------------
(* A dictionary holds what was met: the first entry of each key.            *)
First(met, n) == \A m \in DOMAIN met : m < n => met[m].key # met[n].key

Holds(d, met) ==
    /\ DOMAIN d = {met[n].key : n \in DOMAIN met}
    /\ \A n \in DOMAIN met :
         First(met, n) => d[met[n].key] = [type |-> met[n].type, value |-> met[n].value]

(* One entry more, the last one. *)
GrownBy(met, more, i, e) ==
    /\ i \in Int
    /\ \A n \in DOMAIN met : n \in Int /\ n < i
    /\ DOMAIN more = DOMAIN met \cup {i}
    /\ \A n \in DOMAIN met : more[n] = met[n]
    /\ more[i] = e

LEMMA EmplaceHolds ==
    ASSUME NEW d, NEW met, Holds(d, met), NEW i, NEW more, NEW last, GrownBy(met, more, i, last)
    PROVE  Holds(Emplace(d, last.key, [type |-> last.type, value |-> last.value]), more)
  <1> DEFINE key == last.key
             entry == [type |-> last.type, value |-> last.value]
             e == Emplace(d, key, entry)
  <1>0. /\ i \in Int /\ \A n \in DOMAIN met : n \in Int /\ n < i
        /\ DOMAIN more = DOMAIN met \cup {i}
        /\ \A n \in DOMAIN met : more[n] = met[n]
        /\ more[i] = last
    BY DEF GrownBy
  <1>1. DOMAIN d = {met[n].key : n \in DOMAIN met}
    BY DEF Holds
  <1>2. /\ DOMAIN e = DOMAIN d \cup {key}
        /\ \A k \in DOMAIN d : e[k] = d[k]
        /\ key \notin DOMAIN d => e[key] = entry
    <2> HIDE DEF entry, key
    <2>1. CASE key \in DOMAIN d
      BY <2>1 DEF Emplace
    <2>2. CASE key \notin DOMAIN d
      BY <2>2 DEF Emplace
    <2> QED
      BY <2>1, <2>2
  <1> HIDE DEF e
  <1>3. DOMAIN e = {more[n].key : n \in DOMAIN more}
    BY <1>0, <1>1, <1>2
  <1>4. ASSUME NEW n \in DOMAIN met, First(more, n)
        PROVE  e[more[n].key] = [type |-> more[n].type, value |-> more[n].value]
    <2>1. First(met, n) /\ more[n] = met[n]
      BY <1>0, <1>4 DEF First
    <2>2. d[met[n].key] = [type |-> met[n].type, value |-> met[n].value]
      BY <2>1 DEF Holds
    <2>3. met[n].key \in DOMAIN d
      BY <1>1
    <2> QED
      BY <1>2, <2>1, <2>2, <2>3
  <1>5. ASSUME First(more, i)
        PROVE  e[key] = entry
    <2>1. \A m \in DOMAIN met : m < i /\ more[m] = met[m] /\ m \in DOMAIN more
      BY <1>0
    <2>2. key \notin DOMAIN d
      BY <1>0, <1>1, <1>5, <2>1 DEF First
    <2> QED
      BY <1>2, <2>2
  <1> QED
    BY <1>0, <1>3, <1>4, <1>5 DEF Holds, e

LEMMA MetInStep ==
    ASSUME NEW f, NEW i \in Nat \ {0}
    PROVE  /\ \A n \in DOMAIN MetIn(f, i) : n \in 1..(i - 1)
           /\ f[i].kind # "entry" => MetIn(f, i + 1) = MetIn(f, i)
           /\ f[i].kind = "entry" =>
                /\ DOMAIN MetIn(f, i + 1) = DOMAIN MetIn(f, i) \cup {i}
                /\ \A n \in DOMAIN MetIn(f, i) : MetIn(f, i + 1)[n] = MetIn(f, i)[n]
                /\ MetIn(f, i + 1)[i] = InFile(f, i)
  <1> DEFINE D == {k \in 1..(i - 1) : f[k].kind = "entry"}
             E == {k \in 1..i : f[k].kind = "entry"}
  <1>1. MetIn(f, i) = [n \in D |-> InFile(f, n)]
    BY DEF MetIn
  <1>2. MetIn(f, i + 1) = [n \in E |-> InFile(f, n)]
    <2>1. i + 1 - 1 = i
      OBVIOUS
    <2> QED
      BY <2>1 DEF MetIn
  <1>3. 1..i = (1..(i - 1)) \cup {i}
    OBVIOUS
  <1>4. f[i].kind # "entry" => E = D
    BY <1>3
  <1>5. f[i].kind = "entry" => E = D \cup {i}
    BY <1>3
  <1>6. \A n \in D : n \in 1..(i - 1)
    OBVIOUS
  <1> HIDE DEF D, E
  <1> QED
    BY <1>1, <1>2, <1>4, <1>5, <1>6

(* A file, and what is added to it. *)
MetOf(f, added) ==
    [n \in DOMAIN MetIn(f, Len(f) + 1) \cup {Len(f) + k : k \in DOMAIN added} |->
       IF n \in DOMAIN f THEN MetIn(f, Len(f) + 1)[n] ELSE added[n - Len(f)]]

LEMMA MetIsOf == ASSUME NEW h PROVE Met(h) = MetOf(h.file, h.added)
  BY DEF Met, MetOf

LEMMA MetInFile ==
    ASSUME NEW f \in Seq(FileLines)
    PROVE  /\ \A n \in DOMAIN MetIn(f, Len(f) + 1) : n \in DOMAIN f
           /\ Len(f) \in Nat /\ DOMAIN f = 1..Len(f)
  <1> DEFINE i == Len(f) + 1
  <1>1. i \in Nat \ {0} /\ i - 1 = Len(f) /\ DOMAIN f = 1..Len(f) /\ Len(f) \in Nat
    OBVIOUS
  <1> HIDE DEF i
  <1>2. \A n \in DOMAIN MetIn(f, i) : n \in 1..(i - 1)
    BY <1>1, MetInStep
  <1> QED
    BY <1>1, <1>2 DEF i

LEMMA MetOfFile ==
    ASSUME NEW f \in Seq(FileLines)
    PROVE  MetOf(f, <<>>) = MetIn(f, Len(f) + 1)
  <1> DEFINE lines == MetIn(f, Len(f) + 1)
  <1>1. \A n \in DOMAIN lines : n \in DOMAIN f
    BY MetInFile
  <1>2. lines = [n \in DOMAIN lines |-> lines[n]]
    BY DEF MetIn
  <1>3. MetOf(f, <<>>) = [n \in DOMAIN lines \cup {Len(f) + k : k \in {}} |->
                           IF n \in DOMAIN f THEN lines[n] ELSE <<>>[n - Len(f)]]
    <2>1. DOMAIN <<>> = {}
      OBVIOUS
    <2> QED
      BY <2>1 DEF MetOf
  <1> HIDE DEF lines
  <1>4. MetOf(f, <<>>) = lines
    BY <1>1, <1>2, <1>3
  <1> QED
    BY <1>4 DEF lines

LEMMA MetAdds ==
    ASSUME NEW f \in Seq(FileLines), NEW added \in Seq(Added), NEW e \in Added
    PROVE  GrownBy(MetOf(f, added), MetOf(f, Append(added, e)), Len(f) + Len(added) + 1, e)
  <1> DEFINE i == Len(f) + Len(added) + 1
             lines == MetIn(f, Len(f) + 1)
             met == MetOf(f, added)
             more == MetOf(f, Append(added, e))
  <1>1. (\A n \in DOMAIN lines : n \in DOMAIN f) /\ Len(f) \in Nat /\ DOMAIN f = 1..Len(f)
    BY MetInFile
  <1>2. /\ DOMAIN Append(added, e) = (DOMAIN added) \cup {Len(added) + 1}
        /\ \A k \in DOMAIN added : Append(added, e)[k] = added[k] /\ k \in 1..Len(added)
        /\ Append(added, e)[Len(added) + 1] = e
        /\ Len(added) \in Nat
    OBVIOUS
  <1>3. met = [n \in DOMAIN lines \cup {Len(f) + k : k \in DOMAIN added} |->
                 IF n \in DOMAIN f THEN lines[n] ELSE added[n - Len(f)]]
    BY DEF MetOf
  <1>4. more = [n \in DOMAIN lines \cup {Len(f) + k : k \in DOMAIN Append(added, e)} |->
                  IF n \in DOMAIN f THEN lines[n] ELSE Append(added, e)[n - Len(f)]]
    BY DEF MetOf
  <1>5. i \in Int /\ i = Len(f) + (Len(added) + 1) /\ i \notin DOMAIN f /\ i - Len(f) = Len(added) + 1
    BY <1>1, <1>2
  <1> HIDE DEF lines, met, more
  <1>6. DOMAIN more = DOMAIN met \cup {i}
    <2>1. DOMAIN met = DOMAIN lines \cup {Len(f) + k : k \in DOMAIN added}
      BY <1>3
    <2>2. DOMAIN more = DOMAIN lines \cup {Len(f) + k : k \in (DOMAIN added) \cup {Len(added) + 1}}
      BY <1>2, <1>4
    <2> QED
      BY <1>5, <2>1, <2>2
  <1>7. \A n \in DOMAIN met : n \in Int /\ n < i
    <2>1. \A n \in DOMAIN lines : n \in Int /\ n < i
      BY <1>1, <1>2
    <2>2. \A k \in DOMAIN added : Len(f) + k \in Int /\ Len(f) + k < i
      BY <1>1, <1>2
    <2> QED
      BY <1>3, <2>1, <2>2
  <1>8. \A n \in DOMAIN met : more[n] = met[n]
    <2> TAKE n \in DOMAIN met
    <2>1. n \in DOMAIN more
      BY <1>6
    <2>2. CASE n \in DOMAIN f
      BY <1>3, <1>4, <2>1, <2>2
    <2>3. CASE n \notin DOMAIN f
      <3>1. n \notin DOMAIN lines
        BY <1>1, <2>3
      <3>2. PICK k \in DOMAIN added : n = Len(f) + k
        BY <1>3, <3>1
      <3>3. n - Len(f) = k
        BY <1>1, <1>2, <3>2
      <3>4. met[n] = added[k]
        BY <1>3, <2>3, <3>3
      <3>5. more[n] = Append(added, e)[k]
        BY <1>4, <2>1, <2>3, <3>3
      <3> QED
        BY <1>2, <3>4, <3>5
    <2> QED
      BY <2>2, <2>3
  <1>9. more[i] = e
    <2>1. i \in DOMAIN more
      BY <1>6
    <2> QED
      BY <1>2, <1>4, <1>5, <2>1
  <1> QED
    BY <1>5, <1>6, <1>7, <1>8, <1>9 DEF GrownBy, met, more

LEMMA AddedHolds ==
    ASSUME NEW f \in Seq(FileLines), NEW added \in Seq(Added), NEW e \in Added, NEW d,
           Holds(d, MetOf(f, added))
    PROVE  Holds(Emplace(d, e.key, [type |-> e.type, value |-> e.value]),
                 MetOf(f, Append(added, e)))
  <1> DEFINE i == Len(f) + Len(added) + 1
             met == MetOf(f, added)
             more == MetOf(f, Append(added, e))
  <1>1. GrownBy(met, more, i, e)
    BY MetAdds
  <1>3. Holds(d, met)
    OBVIOUS
  <1> HIDE DEF met, more, i
  <1>4. Holds(Emplace(d, e.key, [type |-> e.type, value |-> e.value]), more)
    BY <1>1, <1>3, EmplaceHolds
  <1> QED
    BY <1>4 DEF more

ConfigTypes ==
    /\ at \in Nat
    /\ file \in Seq(FileLines)
    /\ history \in [file : Seq(FileLines), added : Seq(Added)]

ConfigInv ==
    /\ ConfigTypes
    /\ at = 0 => prefix = <<>> /\ dict = NoEntries
    /\ at > 0 /\ ~crashed => prefix = Scopes(file, at) /\ Holds(dict, MetIn(file, at))
    /\ Holds(values, Met(history))

LEMMA NothingHeld == ASSUME NEW met, DOMAIN met = {} PROVE Holds(NoEntries, met)
  BY DEF NoEntries, Holds

LEMMA ConfigInvInit == ConfigInit => ConfigInv
  <1> SUFFICES ASSUME ConfigInit
               PROVE  ConfigInv
    OBVIOUS
  <1> USE DEF ConfigInit
  <1>1. ConfigTypes
    BY DEF ConfigTypes
  <1>2. DOMAIN Met(history) = {}
    <2>1. Len(history.file) = 0 /\ DOMAIN history.added = {} /\ DOMAIN history.file = {}
      OBVIOUS
    <2>2. DOMAIN MetIn(history.file, Len(history.file) + 1) = {}
      BY <2>1 DEF MetIn
    <2> QED
      BY <2>1, <2>2 DEF Met
  <1>3. Holds(values, Met(history))
    BY <1>2, NothingHeld
  <1> QED
    BY <1>1, <1>3 DEF ConfigInv

(* A line is read: what does not belong to the parser stays. *)
LEMMA LineRead ==
    ASSUME ConfigInv, at > 0, at' = at + 1, UNCHANGED <<values, file, history>>,
           ~crashed' => prefix' = Scopes(file, at + 1) /\ Holds(dict', MetIn(file, at + 1))
    PROVE  ConfigInv'
  <1>1. ConfigTypes'
    BY DEF ConfigInv, ConfigTypes
  <1>2. Holds(values', Met(history'))
    <2>1. Met(history') = Met(history)
      BY DEF Met
    <2> QED
      BY <2>1 DEF ConfigInv
  <1>3. at' # 0
    BY DEF ConfigInv, ConfigTypes
  <1> QED
    BY <1>1, <1>2, <1>3 DEF ConfigInv

LEMMA ConfigInvSteps ==
    ASSUME ConfigAssumption, ConfigInv, [ConfigNext]_configVars
    PROVE  ConfigInv'
  <1> USE DEF ConfigInv
  <1>0. ConfigTypes
    OBVIOUS
  <1>a. ASSUME NEW kind, Reads(kind)
        PROVE  /\ at \in Nat \ {0} /\ at > 0 /\ ~crashed /\ Line = file[at] /\ Line.kind = kind
               /\ prefix = Scopes(file, at) /\ Holds(dict, MetIn(file, at))
    <2>1. at \in DOMAIN file /\ ~crashed /\ Line.kind = kind /\ Line = file[at]
      BY <1>a DEF Reads, Line
    <2>2. at \in Nat \ {0} /\ at > 0
      BY <1>0, <2>1 DEF ConfigTypes
    <2> QED
      BY <2>1, <2>2
  <1>1. CASE StartFile
    <2> USE <1>1 DEF StartFile
    <2>1. file' \in Seq(FileLines)
      BY DEF ConfigAssumption
    <2>2. ConfigTypes'
      BY <1>0, <2>1 DEF ConfigTypes
    <2>3. Holds(values', Met(history'))
      <3>1. Met(history') = Met(history)
        BY DEF Met
      <3> QED
        BY <3>1
    <2>4. Around(file', 1) = {}
      BY DEF Around
    <2>5. Scopes(file', 1) = <<>>
      <3>1. Cardinality(Around(file', 1)) = 0
        BY <2>4, FS_EmptySet
      <3>2. Scopes(file', 1) = [n \in 1..0 |-> file'[Nth(Around(file', 1), n)].name]
        BY <3>1 DEF Scopes
      <3>3. \A g : g = [n \in 1..0 |-> g[n]] => g = <<>>
        OBVIOUS
      <3> QED
        BY <3>2, <3>3
    <2>6. DOMAIN MetIn(file', 1) = {}
      BY DEF MetIn
    <2>7. Holds(NoEntries, MetIn(file', 1))
      BY <2>6, NothingHeld
    <2> QED
      BY <2>2, <2>3, <2>5, <2>7
  <1>2. CASE SkipBlank
    <2> USE <1>2 DEF SkipBlank
    <2>1. /\ at \in Nat \ {0} /\ at > 0 /\ Line.kind = "blank" /\ Line = file[at]
          /\ prefix = Scopes(file, at) /\ Holds(dict, MetIn(file, at))
      BY <1>a
    <2>2. Scopes(file, at + 1) = Scopes(file, at)
      BY <2>1, ScopesStep
    <2>3. MetIn(file, at + 1) = MetIn(file, at)
      BY <2>1, MetInStep
    <2> QED
      BY <2>1, <2>2, <2>3, LineRead
  <1>3. CASE OpenScope
    <2> USE <1>3 DEF OpenScope
    <2>1. /\ at \in Nat \ {0} /\ at > 0 /\ Line.kind = "open" /\ Line = file[at]
          /\ prefix = Scopes(file, at) /\ Holds(dict, MetIn(file, at))
      BY <1>a
    <2>2. Scopes(file, at + 1) = Append(Scopes(file, at), Line.name)
      BY <2>1, ScopesStep
    <2>3. MetIn(file, at + 1) = MetIn(file, at)
      BY <2>1, MetInStep
    <2> QED
      BY <2>1, <2>2, <2>3, LineRead
  <1>4. CASE CloseScope
    <2> USE <1>4 DEF CloseScope
    <2>1. /\ at \in Nat \ {0} /\ at > 0 /\ Line.kind = "close" /\ Line = file[at]
          /\ prefix = Scopes(file, at) /\ Holds(dict, MetIn(file, at))
      BY <1>a
    <2>2. ~crashed' => prefix # <<>> /\ prefix' = Front(prefix)
      BY DEF Popped
    <2>3. ~crashed' => prefix' = Scopes(file, at + 1)
      BY <2>1, <2>2, ScopesStep
    <2>4. MetIn(file, at + 1) = MetIn(file, at)
      BY <2>1, MetInStep
    <2> QED
      BY <2>1, <2>3, <2>4, LineRead
  <1>5. CASE ReadEntry
    <2> USE <1>5 DEF ReadEntry
    <2>1. /\ at \in Nat \ {0} /\ at > 0 /\ Line.kind = "entry" /\ Line = file[at]
          /\ prefix = Scopes(file, at) /\ Holds(dict, MetIn(file, at))
      BY <1>a
    <2>2. Scopes(file, at + 1) = Scopes(file, at)
      BY <2>1, ScopesStep
    <2> DEFINE met == MetIn(file, at)
               more == MetIn(file, at + 1)
    <2>3. /\ \A n \in DOMAIN met : n \in 1..(at - 1)
          /\ DOMAIN more = DOMAIN met \cup {at}
          /\ \A n \in DOMAIN met : more[n] = met[n]
          /\ more[at] = InFile(file, at)
      BY <2>1, MetInStep
    <2>4. /\ more[at].key = Append(prefix, Line.name)
          /\ [type |-> more[at].type, value |-> more[at].value]
               = [type |-> TypeOf(Line.form), value |-> Line.value]
      BY <2>1, <2>3 DEF InFile
    <2>5. Holds(dict, met) /\ \A n \in DOMAIN met : n \in Int /\ n < at
      <3> HIDE DEF met
      <3>1. Holds(dict, met)
        BY <2>1 DEF met
      <3>2. \A n \in DOMAIN met : n \in Int /\ n < at
        BY <2>1, <2>3
      <3> QED
        BY <3>1, <3>2
    <2> HIDE DEF met, more
    <2>6. Holds(Emplace(dict, more[at].key, [type |-> more[at].type, value |-> more[at].value]), more)
      <3> DEFINE last == more[at]
      <3>1. at \in Int
        BY <2>1
      <3>2. GrownBy(met, more, at, last)
        BY <2>3, <2>5, <3>1 DEF GrownBy
      <3>3. Holds(dict, met)
        BY <2>5
      <3> HIDE DEF last
      <3>4. Holds(Emplace(dict, last.key, [type |-> last.type, value |-> last.value]), more)
        BY <3>2, <3>3, EmplaceHolds
      <3> QED
        BY <3>4 DEF last
    <2>7. Holds(dict', more)
      BY <2>4, <2>6
    <2>8. Holds(dict', MetIn(file, at + 1))
      BY <2>7 DEF more
    <2> QED
      BY <2>1, <2>2, <2>8, LineRead
  <1>6. CASE Throw
    <2> USE <1>6 DEF Throw, NoFile
    <2>1. ConfigTypes'
      BY <1>0 DEF ConfigTypes
    <2>2. Holds(values', Met(history'))
      <3>1. Met(history') = Met(history)
        BY DEF Met
      <3> QED
        BY <3>1
    <2> QED
      BY <2>1, <2>2
  <1>7. CASE EndFile
    <2> USE <1>7 DEF EndFile, NoFile
    <2>1. history' \in [file : Seq(FileLines), added : Seq(Added)]
      BY <1>0 DEF ConfigTypes
    <2>2. ConfigTypes'
      BY <2>1 DEF ConfigTypes
    <2>3. at > 0 /\ Holds(dict, MetIn(file, at))
      BY <1>0 DEF ConfigTypes
    <2>4. Met(history') = MetIn(file, at)
      <3>0. history'.file = file /\ history'.added = <<>>
        OBVIOUS
      <3>1. Met(history') = MetOf(history'.file, history'.added)
        BY DEF Met, MetOf
      <3>2. file \in Seq(FileLines) /\ at = Len(file) + 1
        BY <1>0 DEF ConfigTypes
      <3> QED
        BY <3>0, <3>1, <3>2, MetOfFile
    <2>5. Holds(values', Met(history'))
      BY <2>3, <2>4
    <2> QED
      BY <2>2, <2>5
  <1>8. CASE AddConfigEntry
    <2> USE <1>8 DEF AddConfigEntry
    <2>1. PICK e \in Added :
            /\ values' = Emplace(values, e.key, [type |-> e.type, value |-> e.value])
            /\ history' = [history EXCEPT !.added = Append(@, e)]
      OBVIOUS
    <2> DEFINE f == history.file
               added == history.added
    <2>2. f \in Seq(FileLines) /\ added \in Seq(Added)
      BY <1>0 DEF ConfigTypes
    <2>3. history'.file = f /\ history'.added = Append(added, e)
      BY <1>0, <2>1 DEF ConfigTypes
    <2>4. ConfigTypes'
      <3>1. Append(added, e) \in Seq(Added)
        BY <2>2
      <3>2. history' \in [file : Seq(FileLines), added : Seq(Added)]
        BY <1>0, <2>1, <3>1 DEF ConfigTypes
      <3> QED
        BY <1>0, <3>2 DEF ConfigTypes
    <2>5. Met(history) = MetOf(f, added) /\ Met(history') = MetOf(f, Append(added, e))
      <3>1. Met(history') = MetOf(history'.file, history'.added)
        BY DEF Met, MetOf
      <3> QED
        BY <2>3, <3>1, MetIsOf
    <2>6. Holds(values, MetOf(f, added))
      BY <2>5
    <2> HIDE DEF f, added
    <2>7. Holds(Emplace(values, e.key, [type |-> e.type, value |-> e.value]),
                MetOf(f, Append(added, e)))
      BY <2>2, <2>6, AddedHolds
    <2>8. Holds(values', Met(history'))
      BY <2>1, <2>5, <2>7
    <2> QED
      BY <2>4, <2>8
  <1>9. CASE UNCHANGED configVars
    <2> USE <1>9 DEF configVars
    <2>1. ConfigTypes'
      BY <1>0 DEF ConfigTypes
    <2>2. Met(history') = Met(history)
      BY DEF Met
    <2> QED
      BY <2>1, <2>2
  <1> QED
    BY <1>1, <1>2, <1>3, <1>4, <1>5, <1>6, <1>7, <1>8, <1>9 DEF ConfigNext

LEMMA ScopedHeld == ConfigInv => EntriesScoped
  <1> SUFFICES ASSUME Holds(values, Met(history))
               PROVE  EntriesScoped
    BY DEF ConfigInv
  <1>1. DOMAIN values = Keys(history)
    BY DEF Holds, Keys
  <1>2. ASSUME NEW n \in DOMAIN Met(history), First(Met(history), n), NEW type
        PROVE  TryGet(type, Met(history)[n].key, "nothing")
                 = IF type = Met(history)[n].type THEN Met(history)[n].value ELSE "nothing"
    <2>1. values[Met(history)[n].key] = [type |-> Met(history)[n].type, value |-> Met(history)[n].value]
      BY <1>2 DEF Holds
    <2>2. Met(history)[n].key \in DOMAIN values
      BY <1>1 DEF Keys
    <2> QED
      BY <2>1, <2>2 DEF TryGet, HasEntry
  <1> QED
    BY <1>1, <1>2 DEF EntriesScoped, First

(* The entries of the file that was parsed last are found under the names   *)
(* of the scopes around them, and those that were added since then too, the *)
(* first of a key; and no entry is found that nothing gave.                 *)
THEOREM EntriesAreScoped == ConfigSpec => []EntriesScoped
  <1>1. ConfigAssumption
    BY ConfigAssumption
  <1>2. ConfigInv /\ [ConfigNext]_configVars => ConfigInv'
    BY <1>1, ConfigInvSteps
  <1> QED
    BY <1>2, ConfigInvInit, ScopedHeld, PTL DEF ConfigSpec

-----------------------------------------------------------------------------
(* Addresses and URIs. *)

(* What a text is made of. *)
AllWords == UNION {Range(words) : words \in Words}
Plain == {Number(n) : n \in Int} \cup {Delim("."), Delim(":")}
Tokens ==
    Plain \cup {Word(w) : w \in AllWords \cup {"scheme"}}
          \cup {Delim(d) : d \in {"/", "?", "#", "://"}}

LEMMA TokenFacts ==
    ASSUME NEW t \in Tokens
    PROVE  /\ t.token = "number" => t = Number(t.is)
           /\ \A d \in {".", ":"} : t.token = d => t = Delim(d)
           /\ t \in Plain => t.token \in {"number", ".", ":"}
  BY DEF Tokens, Plain, Number, Word, Delim

LEMMA LimitsAreNumbers == MaxOctet \in Nat /\ MaxPort \in Nat
  <1>1. 255 \in Nat /\ 65535 \in Nat
    OBVIOUS
  <1> QED
    BY <1>1 DEF MaxOctet, MaxPort

LEMMA PortLimit == \A p \in Nat : p <= MaxPort <=> p <= 65535
  BY DEF MaxPort

LEMMA SwapTwice ==
    ASSUME NEW p \in 0..MaxPort
    PROVE  Swapped(p) \in 0..MaxPort /\ Swapped(Swapped(p)) = p
  <1>1. p \in Nat /\ p <= MaxPort
    <2>1. \A n \in Nat : \A k \in 0..n : k \in Nat /\ k <= n
      OBVIOUS
    <2> QED
      BY <2>1, LimitsAreNumbers, Zenon
  <1> DEFINE a == p \div 256
             b == p % 256
             x == b * 256 + a
  <1>2. p \in Nat /\ p <= 65535
    BY <1>1, PortLimit
  <1>3. a \in Nat /\ a <= 255 /\ b \in Nat /\ b <= 255 /\ p = 256 * a + b
    BY <1>2
  <1>4. Swapped(p) = x
    BY DEF Swapped
  <1> HIDE DEF a, b
  <1>5. x \in Nat /\ x <= 65535 /\ x % 256 = a /\ x \div 256 = b
    BY <1>3
  <1>6. a * 256 + b = p
    BY <1>3
  <1> HIDE DEF x
  <1>7. Swapped(x) = p
    <2>1. x % 256 = a /\ x \div 256 = b
      BY <1>5
    <2>2. Swapped(x) = (x % 256) * 256 + x \div 256
      BY Zenon DEF Swapped
    <2>3. (x % 256) * 256 + x \div 256 = a * 256 + b
      BY <2>1, Zenon
    <2> QED
      BY <1>6, <2>2, <2>3, Zenon
  <1>8. x <= MaxPort
    BY <1>5, PortLimit
  <1>9. x \in 0..MaxPort
    BY <1>5, <1>8, LimitsAreNumbers
  <1> QED
    BY <1>4, <1>7, <1>9

-----------------------------------------------------------------------------
LEMMA CutsFinite ==
    ASSUME NEW text \in Seq(Tokens), NEW d
    PROVE  /\ Cuts(text, d) \in SUBSET (0..(Len(text) + 1))
           /\ Cuts(text, d) \in SUBSET Int /\ IsFiniteSet(Cuts(text, d))
           /\ 0 \in Cuts(text, d) /\ Len(text) + 1 \in Cuts(text, d)
           /\ \A i \in Cuts(text, d) : \/ i = 0 \/ i = Len(text) + 1
                                       \/ i \in 1..Len(text) /\ text[i].token = d
  <1>1. Len(text) \in Nat /\ DOMAIN text = 1..Len(text)
    OBVIOUS
  <1>2. Cuts(text, d) \in SUBSET (0..(Len(text) + 1))
    BY <1>1 DEF Cuts
  <1>3. IsFiniteSet(0..(Len(text) + 1)) /\ 0..(Len(text) + 1) \in SUBSET Int
    BY <1>1, FS_Interval
  <1>4. IsFiniteSet(Cuts(text, d)) /\ Cuts(text, d) \in SUBSET Int
    BY <1>2, <1>3, FS_Subset
  <1> QED
    BY <1>1, <1>2, <1>4 DEF Cuts

(* The texts between places that are known. *)
LEMMA SplitAt ==
    ASSUME NEW text \in Seq(Tokens), NEW d, NEW n \in Nat, NEW c, Lists(c, n, Cuts(text, d))
    PROVE  Split(text, d) = [k \in 1..(n - 1) |-> SubSeq(text, c[k] + 1, c[k + 1] - 1)]
  <1> DEFINE S == Cuts(text, d)
             cut == [k \in 1..Cardinality(S) |-> Nth(S, k)]
  <1>1. Cardinality(S) = n /\ \A k \in 1..n : Nth(S, k) = c[k]
    BY NthIsListed
  <1>2. Split(text, d) = [k \in 1..(Cardinality(S) - 1) |-> SubSeq(text, cut[k] + 1, cut[k + 1] - 1)]
    BY DEF Split
  <1>3. \A k \in 1..(n - 1) : k \in 1..n /\ k + 1 \in 1..n
    OBVIOUS
  <1> HIDE DEF S
  <1>4. \A k \in 1..(n - 1) : cut[k] = c[k] /\ cut[k + 1] = c[k + 1]
    BY <1>1, <1>3
  <1> HIDE DEF cut
  <1> QED
    BY <1>1, <1>2, <1>4

(* The places at which a text is cut. *)
IsCut(text, d, n, c) ==
    /\ n \in Nat \ {0, 1} /\ c \in [1..n -> Int]
    /\ \A j, k \in 1..n : j < k => c[j] < c[k]
    /\ c[1] = 0 /\ c[n] = Len(text) + 1
    /\ \A k \in 1..n : 1 < k /\ k < n => c[k] \in 1..Len(text) /\ text[c[k]].token = d
    /\ Split(text, d) = [k \in 1..(n - 1) |-> SubSeq(text, c[k] + 1, c[k + 1] - 1)]

LEMMA ListedIsCut ==
    ASSUME NEW text \in Seq(Tokens), NEW d, NEW n \in Nat, NEW c, Lists(c, n, Cuts(text, d))
    PROVE  IsCut(text, d, n, c)
  <1> DEFINE S == Cuts(text, d)
             last == Len(text) + 1
  <1>1. /\ S \in SUBSET Int /\ IsFiniteSet(S) /\ 0 \in S /\ last \in S
        /\ \A i \in S : i = 0 \/ i = last \/ (i \in 1..Len(text) /\ text[i].token = d)
        /\ Len(text) \in Nat
    BY CutsFinite
  <1>2. n \in Nat
    OBVIOUS
  <1>3. Split(text, d) = [k \in 1..(n - 1) |-> SubSeq(text, c[k] + 1, c[k + 1] - 1)]
    BY SplitAt
  <1> HIDE DEF S
  <1>4. /\ c \in [1..n -> Int]
        /\ \A j, k \in 1..n : j < k => c[j] < c[k]
        /\ S = {c[k] : k \in 1..n}
    BY DEF Lists, S
  <1>5. \A k \in 1..n : 0 <= c[k] /\ c[k] <= last
    <2>1. \A i \in S : 0 <= i /\ i <= last
      BY <1>1
    <2> QED
      BY <1>4, <2>1
  <1>6. PICK a \in 1..n : c[a] = 0
    BY <1>1, <1>4
  <1>7. PICK b \in 1..n : c[b] = last
    BY <1>1, <1>4
  <1>8. 1 \in 1..n /\ n \in 1..n /\ n # 1
    <2>1. a # b
      BY <1>1, <1>6, <1>7
    <2> QED
      BY <1>2, <1>6, <1>7, <2>1
  <1>9. c[1] = 0
    <2>1. a = 1 \/ 1 < a
      BY <1>6
    <2>2. CASE a = 1
      BY <1>6, <2>2
    <2>3. CASE 1 < a
      <3>1. c[1] < c[a] /\ 0 <= c[1] /\ c[1] \in Int
        BY <1>4, <1>5, <1>8, <2>3
      <3> QED
        BY <1>6, <3>1
    <2> QED
      BY <2>1, <2>2, <2>3
  <1>10. c[n] = last
    <2>1. b = n \/ b < n
      BY <1>2, <1>7
    <2>2. CASE b = n
      BY <1>7, <2>2
    <2>3. CASE b < n
      <3>1. c[b] < c[n] /\ c[n] <= last /\ c[n] \in Int
        BY <1>4, <1>5, <1>8, <2>3
      <3>2. last \in Int
        BY <1>1
      <3> QED
        BY <1>7, <3>1, <3>2
    <2> QED
      BY <2>1, <2>2, <2>3
  <1>11. ASSUME NEW k \in 1..n, 1 < k, k < n
         PROVE  c[k] \in 1..Len(text) /\ text[c[k]].token = d
    <2>1. c[k] \in S /\ c[1] < c[k] /\ c[k] < c[n] /\ c[k] \in Int
      BY <1>4, <1>8, <1>11
    <2>2. c[k] # 0 /\ c[k] # last
      BY <1>1, <1>9, <1>10, <2>1
    <2> QED
      BY <1>1, <2>1, <2>2
  <1> QED
    BY <1>2, <1>3, <1>4, <1>8, <1>9, <1>10, <1>11 DEF IsCut

LEMMA SplitSomewhere ==
    ASSUME NEW text \in Seq(Tokens), NEW d
    PROVE  \E n, c : IsCut(text, d, n, c)
  <1> DEFINE S == Cuts(text, d)
             n == Cardinality(S)
             c == [k \in 1..n |-> Nth(S, k)]
  <1>1. S \in SUBSET Int /\ IsFiniteSet(S)
    BY CutsFinite
  <1>2. n \in Nat /\ Lists(c, n, S)
    <2> HIDE DEF S
    <2> QED
      BY <1>1, NthLists
  <1> HIDE DEF n, c
  <1>3. IsCut(text, d, n, c)
    BY <1>2, ListedIsCut
  <1> QED
    BY <1>3

-----------------------------------------------------------------------------
(* What has the form of an address is the text of one. *)
LEMMA PartsOf ==
    ASSUME NEW text \in Seq(Tokens), NEW d, NEW n, NEW c, IsCut(text, d, n, c)
    PROVE  /\ Len(Split(text, d)) = n - 1
           /\ \A k \in 1..(n - 1) :
                /\ Split(text, d)[k] = SubSeq(text, c[k] + 1, c[k + 1] - 1)
                /\ Len(Split(text, d)[k]) = c[k + 1] - c[k] - 1
                /\ \A i \in 1..(c[k + 1] - c[k] - 1) : Split(text, d)[k][i] = text[c[k] + i]
                /\ Split(text, d)[k] \in Seq(Tokens)
  <1> DEFINE parts == Split(text, d)
  <1>1. /\ n \in Nat \ {0, 1} /\ c \in [1..n -> Int]
        /\ \A j, k \in 1..n : j < k => c[j] < c[k]
        /\ c[1] = 0 /\ c[n] = Len(text) + 1
        /\ parts = [k \in 1..(n - 1) |-> SubSeq(text, c[k] + 1, c[k + 1] - 1)]
    BY DEF IsCut
  <1> HIDE DEF parts
  <1>2. Len(parts) = n - 1
    BY <1>1
  <1>3. ASSUME NEW k \in 1..(n - 1)
        PROVE  /\ parts[k] = SubSeq(text, c[k] + 1, c[k + 1] - 1)
               /\ Len(parts[k]) = c[k + 1] - c[k] - 1
               /\ \A i \in 1..(c[k + 1] - c[k] - 1) : parts[k][i] = text[c[k] + i]
               /\ parts[k] \in Seq(Tokens)
    <2>1. k \in 1..n /\ k + 1 \in 1..n /\ 1 \in 1..n /\ n \in 1..n /\ k < k + 1
      BY <1>1
    <2> DEFINE a == c[k]
               b == c[k + 1]
    <2>2. a \in Int /\ b \in Int /\ a < b
      BY <1>1, <2>1
    <2>3. 0 <= a /\ b <= Len(text) + 1
      <3>1. k = 1 \/ 1 < k
        BY <2>1
      <3>2. k + 1 = n \/ k + 1 < n
        BY <1>1, <2>1
      <3>3. c[1] <= a
        <4>1. CASE k = 1
          BY <2>2, <4>1
        <4>2. CASE 1 < k
          <5>1. c[1] < c[k] /\ c[1] \in Int /\ c[k] \in Int
            BY <1>1, <2>1, <4>2
          <5> QED
            BY <5>1
        <4> QED
          BY <3>1, <4>1, <4>2
      <3>4. b <= c[n]
        <4>1. CASE k + 1 = n
          BY <2>2, <4>1
        <4>2. CASE k + 1 < n
          <5>1. c[k + 1] < c[n] /\ c[n] \in Int /\ c[k + 1] \in Int
            BY <1>1, <2>1, <4>2
          <5> QED
            BY <5>1
        <4> QED
          BY <3>2, <4>1, <4>2
      <3> QED
        BY <1>1, <3>3, <3>4
    <2>4. parts[k] = SubSeq(text, a + 1, b - 1)
      BY <1>1
    <2> HIDE DEF a, b
    <2>5. Len(text) \in Nat /\ \A i \in 1..Len(text) : text[i] \in Tokens
      OBVIOUS
    <2>6. \A i \in (a + 1)..(b - 1) : text[i] \in Tokens
      BY <2>2, <2>3, <2>5
    <2>7. a + 1 \in Int /\ b - 1 \in Int
      BY <2>2
    <2> DEFINE s == SubSeq(text, a + 1, b - 1)
    <2>8. /\ s \in Seq(Tokens)
          /\ Len(s) = IF a + 1 <= b - 1 THEN b - 1 - (a + 1) + 1 ELSE 0
          /\ \A i \in 1..(b - 1 - (a + 1) + 1) : s[i] = text[a + 1 + i - 1]
      BY <2>6, <2>7, SubSeqProperties
    <2> HIDE DEF s
    <2>9. Len(s) = b - a - 1
      BY <2>2, <2>8
    <2>10. \A i \in 1..(b - a - 1) : s[i] = text[a + i]
      <3> TAKE i \in 1..(b - a - 1)
      <3>1. i \in 1..(b - 1 - (a + 1) + 1) /\ i \in Int
        BY <2>2
      <3>2. s[i] = text[a + 1 + i - 1]
        BY <2>8, <3>1, Zenon
      <3>3. a + 1 + i - 1 = a + i
        BY <2>2, <3>1
      <3> QED
        BY <3>2, <3>3
    <2>11. parts[k] = s
      BY <2>4 DEF s
    <2> QED
      BY <2>4, <2>8, <2>9, <2>10, <2>11 DEF a, b
  <1> QED
    BY <1>2, <1>3 DEF parts

(* The octets of an address. *)
Octet(parts) == [i \in 1..4 |-> parts[i][1].is]

LEMMA AddressIsText ==
    ASSUME NEW text \in Seq(Tokens), IsAddress(text)
    PROVE  /\ Octet(Split(text, ".")) \in [1..4 -> 0..MaxOctet]
           /\ text = AddressText(Octet(Split(text, ".")))
  <1> DEFINE parts == Split(text, ".")
             octets == Octet(parts)
  <1>1. PICK n, c : IsCut(text, ".", n, c)
    BY SplitSomewhere
  <1>2. Len(parts) = 4 /\ \A i \in 1..4 : IsNumber(parts[i], MaxOctet)
    BY DEF IsAddress
  <1>3. /\ Len(parts) = n - 1
        /\ \A k \in 1..(n - 1) :
             /\ Len(parts[k]) = c[k + 1] - c[k] - 1
             /\ \A i \in 1..(c[k + 1] - c[k] - 1) : parts[k][i] = text[c[k] + i]
    BY <1>1, PartsOf
  <1> HIDE DEF parts
  <1>4. n = 5
    <2>1. n \in Nat
      BY <1>1 DEF IsCut
    <2>2. n - 1 = 4
      BY <1>2, <1>3
    <2> QED
      BY <2>1, <2>2
  <1>5. /\ c \in [1..5 -> Int] /\ c[1] = 0 /\ c[5] = Len(text) + 1
        /\ \A k \in {2, 3, 4} : c[k] \in 1..Len(text) /\ text[c[k]].token = "."
    BY <1>1, <1>4 DEF IsCut
  <1>6. \A k \in 1..4 : /\ Len(parts[k]) = 1
                        /\ parts[k][1].token = "number" /\ parts[k][1].is \in 0..MaxOctet
    BY <1>2 DEF IsNumber
  <1>7. \A k \in 1..4 : c[k + 1] = c[k] + 2
    <2> TAKE k \in 1..4
    <2>1. c[k] \in Int /\ c[k + 1] \in Int
      BY <1>5
    <2>2. c[k + 1] - c[k] - 1 = 1
      <3>1. k \in 1..(n - 1)
        BY <1>4
      <3>2. Len(parts[k]) = c[k + 1] - c[k] - 1
        BY <1>3, <3>1
      <3>3. Len(parts[k]) = 1
        BY <1>6
      <3> QED
        BY <3>2, <3>3
    <2> DEFINE x == c[k]
               y == c[k + 1]
    <2>3. x \in Int /\ y \in Int /\ y - x - 1 = 1
      BY <2>1, <2>2
    <2>4. y = x + 2
      <3> HIDE DEF x, y
      <3>1. \A u, v \in Int : v - u - 1 = 1 => v = u + 2
        OBVIOUS
      <3> QED
        BY <2>3, <3>1, Zenon
    <2> QED
      BY <2>4
  <1>8. c[2] = 2 /\ c[3] = 4 /\ c[4] = 6 /\ c[5] = 8
    <2>1. c[1 + 1] = c[1] + 2 /\ c[2 + 1] = c[2] + 2 /\ c[3 + 1] = c[3] + 2 /\ c[4 + 1] = c[4] + 2
      BY <1>7
    <2> QED
      BY <1>5, <2>1
  <1>9. Len(text) = 7
    <2>1. Len(text) \in Nat /\ Len(text) + 1 = 8
      BY <1>5, <1>8
    <2> DEFINE l == Len(text)
    <2>2. l \in Int /\ l + 1 = 8
      BY <2>1
    <2> HIDE DEF l
    <2>3. l = 7
      BY <2>2
    <2> QED
      BY <2>3 DEF l
  <1>10. \A k \in 1..4 : parts[k][1] = text[c[k] + 1]
    <2> TAKE k \in 1..4
    <2> DEFINE x == c[k]
               y == c[k + 1]
    <2>0. k \in 1..(n - 1)
      BY <1>4
    <2>1. x \in Int /\ y \in Int /\ y = x + 2
      <3>1. k \in 1..5 /\ k + 1 \in 1..5
        OBVIOUS
      <3> QED
        BY <1>5, <1>7, <3>1
    <2> HIDE DEF x, y
    <2>3. y - x - 1 = 1
      BY <2>1
    <2>4. 1 \in 1..(y - x - 1)
      BY <2>3
    <2>2. 1 \in 1..(c[k + 1] - c[k] - 1)
      BY <2>4 DEF x, y
    <2> QED
      BY <1>3, <2>0, <2>2
  <1>11. /\ parts[1][1] = text[1] /\ parts[2][1] = text[3]
         /\ parts[3][1] = text[5] /\ parts[4][1] = text[7]
    <2>1. /\ parts[1][1] = text[c[1] + 1] /\ parts[2][1] = text[c[2] + 1]
          /\ parts[3][1] = text[c[3] + 1] /\ parts[4][1] = text[c[4] + 1]
      BY <1>10
    <2>2. c[1] + 1 = 1 /\ c[2] + 1 = 3 /\ c[3] + 1 = 5 /\ c[4] + 1 = 7
      BY <1>5, <1>8
    <2> QED
      BY <2>1, <2>2, Zenon
  <1>12. \A i \in 1..7 : text[i] \in Tokens
    BY <1>9, ElementOfSeq
  <1>13. /\ text[1] = Number(octets[1]) /\ text[3] = Number(octets[2])
         /\ text[5] = Number(octets[3]) /\ text[7] = Number(octets[4])
    BY <1>6, <1>11, <1>12, TokenFacts DEF Octet
  <1>14. text[2] = Delim(".") /\ text[4] = Delim(".") /\ text[6] = Delim(".")
    BY <1>5, <1>8, <1>12, TokenFacts
  <1>15. octets \in [1..4 -> 0..MaxOctet]
    BY <1>6 DEF Octet
  <1> HIDE DEF octets
  <1>16. text = AddressText(octets)
    BY <1>9, <1>13, <1>14 DEF AddressText
  <1> QED
    BY <1>15, <1>16 DEF octets, parts

Endpoints == [address : [1..4 -> 0..MaxOctet], port : 0..MaxPort]

LEMMA EndpointIsText ==
    ASSUME NEW text \in Seq(Tokens), IsEndpoint(text)
    PROVE  EndpointOf(text) \in Endpoints /\ text = Text(EndpointOf(text))
  <1> DEFINE parts == Split(text, ":")
             ep == EndpointOf(text)
             head == parts[1]
             tail == parts[2]
  <1>1. PICK n, c : IsCut(text, ":", n, c)
    BY SplitSomewhere
  <1>2. Len(parts) = 2 /\ IsAddress(head) /\ IsNumber(tail, MaxPort)
    BY DEF IsEndpoint
  <1>3. ep = [address |-> Octet(Split(head, ".")), port |-> tail[1].is]
    BY DEF EndpointOf, Octet
  <1>4. /\ Len(parts) = n - 1
        /\ \A k \in 1..(n - 1) :
             /\ Len(parts[k]) = c[k + 1] - c[k] - 1
             /\ \A i \in 1..(c[k + 1] - c[k] - 1) : parts[k][i] = text[c[k] + i]
             /\ parts[k] \in Seq(Tokens)
    BY <1>1, PartsOf
  <1> HIDE DEF parts
  <1>5. n = 3
    <2>1. n \in Nat
      BY <1>1 DEF IsCut
    <2>2. n - 1 = 2
      BY <1>2, <1>4
    <2> QED
      BY <2>1, <2>2
  <1>6. /\ c[1] = 0 /\ c[3] = Len(text) + 1
        /\ c[2] \in 1..Len(text) /\ text[c[2]].token = ":"
    BY <1>1, <1>5 DEF IsCut
  <1>7. head \in Seq(Tokens)
    BY <1>4, <1>5
  <1> DEFINE a == Octet(Split(head, "."))
             p == tail[1].is
  <1>8. a \in [1..4 -> 0..MaxOctet] /\ head = AddressText(a)
    BY <1>2, <1>7, AddressIsText
  <1>9. Len(tail) = 1 /\ tail[1].token = "number" /\ p \in 0..MaxPort
    <2> HIDE DEF tail
    <2> QED
      BY <1>2 DEF IsNumber
  <1> HIDE DEF a
  <1>10. Len(head) = 7
    BY <1>8 DEF AddressText
  <1>11. c[2] = 8 /\ Len(text) = 9
    <2>1. Len(head) = c[1 + 1] - c[1] - 1 /\ Len(tail) = c[2 + 1] - c[2] - 1
      BY <1>4, <1>5
    <2>2. c[1 + 1] - c[1] - 1 = 7 /\ c[2 + 1] - c[2] - 1 = 1
      BY <1>9, <1>10, <2>1
    <2> DEFINE l == Len(text)
               x == c[2]
    <2>3. l \in Nat /\ x \in Int /\ x - 0 - 1 = 7 /\ (l + 1) - x - 1 = 1
      BY <1>6, <2>2
    <2> HIDE DEF l, x
    <2>4. x = 8 /\ l = 9
      BY <2>3
    <2> QED
      BY <2>4 DEF l, x
  <1>12. (\A i \in 1..7 : head[i] = text[i]) /\ tail[1] = text[9]
    <2>1. \A i \in 1..(c[1 + 1] - c[1] - 1) : head[i] = text[c[1] + i]
      BY <1>4, <1>5
    <2>2. \A i \in 1..(c[2 + 1] - c[2] - 1) : tail[i] = text[c[2] + i]
      BY <1>4, <1>5
    <2> HIDE DEF head, tail
    <2> QED
      BY <1>6, <1>11, <2>1, <2>2
  <1>13. text[8] = Delim(":") /\ text[9] = Number(p)
    <2>1. text[8] \in Tokens /\ text[9] \in Tokens
      <3>1. 8 \in 1..Len(text) /\ 9 \in 1..Len(text)
        BY <1>11
      <3> QED
        BY <3>1, ElementOfSeq
    <2>2. text[8].token = ":"
      BY <1>6, <1>11
    <2>3. text[9].token = "number" /\ text[9].is = p
      BY <1>9, <1>12
    <2> HIDE DEF p
    <2> QED
      BY <2>1, <2>2, <2>3, TokenFacts
  <1> HIDE DEF head, tail, p
  <1>14. text = AddressText(a) \o <<Delim(":"), Number(p)>>
    <2> DEFINE last == <<text[8], text[9]>>
    <2>1. text[8] \in Tokens /\ text[9] \in Tokens
      <3>1. 8 \in 1..Len(text) /\ 9 \in 1..Len(text)
        BY <1>11
      <3> QED
        BY <3>1, ElementOfSeq
    <2>2. last \in Seq(Tokens) /\ Len(last) = 2 /\ last[1] = text[8] /\ last[2] = text[9]
      BY <2>1
    <2> HIDE DEF last
    <2>3. /\ head \o last \in Seq(Tokens)
          /\ Len(head \o last) = Len(head) + Len(last)
          /\ \A i \in 1..(Len(head) + Len(last)) :
                (head \o last)[i] = IF i <= Len(head) THEN head[i] ELSE last[i - Len(head)]
      BY <1>7, <2>2, ConcatProperties, Zenon
    <2>4. Len(head \o last) = 9
      BY <1>10, <2>2, <2>3
    <2>5. ASSUME NEW i \in 1..9
          PROVE  text[i] = (head \o last)[i]
      <3>1. (head \o last)[i] = IF i <= 7 THEN head[i] ELSE last[i - 7]
        BY <1>10, <2>2, <2>3
      <3>2. CASE i \in 1..7
        BY <1>12, <3>1, <3>2
      <3>3. CASE i = 8
        BY <2>2, <3>1, <3>3
      <3>4. CASE i = 9
        BY <2>2, <3>1, <3>4
      <3>5. i \in 1..7 \/ i = 8 \/ i = 9
        OBVIOUS
      <3> QED
        BY <3>2, <3>3, <3>4, <3>5, Zenon
    <2>6. text = head \o last
      BY <1>11, <2>3, <2>4, <2>5, SeqEqual, Zenon
    <2>7. last = <<Delim(":"), Number(p)>>
      BY <1>13, Zenon DEF last
    <2> QED
      BY <1>8, <2>6, <2>7, Zenon
  <1>15. ep = [address |-> a, port |-> p]
    BY <1>3 DEF a, p
  <1> HIDE DEF ep
  <1>16. ep \in Endpoints /\ ep.address = a /\ ep.port = p
    <2>1. a \in [1..4 -> 0..MaxOctet] /\ p \in 0..MaxPort
      BY <1>8, <1>9
    <2> QED
      BY <1>15, <2>1 DEF Endpoints
  <1>17. text = Text(ep)
    BY <1>14, <1>16 DEF Text
  <1> QED
    BY <1>16, <1>17 DEF ep

-----------------------------------------------------------------------------
(* The text of an endpoint has the form of one. *)
LEMMA PlainAreTokens ==
    /\ \A n \in Int : Number(n) \in Plain /\ Number(n) \in Tokens
    /\ Delim(".") \in Plain /\ Delim(":") \in Plain
    /\ Plain \subseteq Tokens
  BY DEF Plain, Tokens

LEMMA TokenNames ==
    /\ \A n : Number(n).token = "number" /\ Number(n).is = n
    /\ \A d : Delim(d).token = d
    /\ \A w : Word(w).token = "word" /\ Word(w).is = w
  BY DEF Number, Delim, Word

LEMMA InLimits ==
    /\ \A x \in 0..MaxOctet : x \in Int
    /\ \A x \in 0..MaxPort : x \in Int
  BY LimitsAreNumbers

LEMMA AddressTextIsPlain ==
    ASSUME NEW a \in [1..4 -> Int]
    PROVE  AddressText(a) \in Seq(Plain)
  <1>1. Number(a[1]) \in Plain /\ Number(a[2]) \in Plain /\ Number(a[3]) \in Plain /\ Number(a[4]) \in Plain
    BY PlainAreTokens
  <1> QED
    BY <1>1, PlainAreTokens DEF AddressText

LEMMA TextIsAddress ==
    ASSUME NEW a \in [1..4 -> 0..MaxOctet]
    PROVE  IsAddress(AddressText(a))
  <1> DEFINE text == AddressText(a)
             c == [k \in 1..5 |-> 2 * (k - 1)]
             parts == Split(text, ".")
  <1>1. \A i \in 1..4 : a[i] \in 0..MaxOctet /\ a[i] \in Int
    BY InLimits
  <1>2. text \in Seq(Tokens)
    <2>1. a \in [1..4 -> Int]
      BY <1>1
    <2> QED
      BY <2>1, AddressTextIsPlain, PlainAreTokens, SeqMonotonic
  <1>3. /\ Len(text) = 7
        /\ text[1] = Number(a[1]) /\ text[2] = Delim(".")
        /\ text[3] = Number(a[2]) /\ text[4] = Delim(".")
        /\ text[5] = Number(a[3]) /\ text[6] = Delim(".")
        /\ text[7] = Number(a[4])
    BY DEF AddressText
  <1> HIDE DEF text
  <1>4. Cuts(text, ".") = {0, 2, 4, 6, 8}
    <2>1. DOMAIN text = 1..7
      BY <1>2, <1>3
    <2>2. /\ text[1].token # "." /\ text[2].token = "." /\ text[3].token # "."
          /\ text[4].token = "." /\ text[5].token # "." /\ text[6].token = "."
          /\ text[7].token # "."
      BY <1>3, TokenNames
    <2>3. \A i \in 1..7 : i = 1 \/ i = 2 \/ i = 3 \/ i = 4 \/ i = 5 \/ i = 6 \/ i = 7
      OBVIOUS
    <2>4. {i \in 1..7 : text[i].token = "."} = {2, 4, 6}
      BY <2>2, <2>3
    <2>5. Cuts(text, ".") = {0, 7 + 1} \cup {2, 4, 6}
      BY <1>3, <2>1, <2>4 DEF Cuts
    <2> QED
      BY <2>5
  <1>5. c[1] = 0 /\ c[2] = 2 /\ c[3] = 4 /\ c[4] = 6 /\ c[5] = 8
    OBVIOUS
  <1>6. Lists(c, 5, Cuts(text, "."))
    <2>1. c \in [1..5 -> Int] /\ \A j, k \in 1..5 : j < k => c[j] < c[k]
      OBVIOUS
    <2>2. 1..5 = {1, 2, 3, 4, 5}
      OBVIOUS
    <2> HIDE DEF c
    <2>3. {c[k] : k \in {1, 2, 3, 4, 5}} = {0, 2, 4, 6, 8}
      BY <1>5
    <2> QED
      BY <1>4, <2>1, <2>2, <2>3 DEF Lists
  <1> HIDE DEF c
  <1>7. IsCut(text, ".", 5, c)
    BY <1>2, <1>6, ListedIsCut
  <1>8. /\ Len(parts) = 5 - 1
        /\ \A k \in 1..(5 - 1) :
             /\ Len(parts[k]) = c[k + 1] - c[k] - 1
             /\ \A i \in 1..(c[k + 1] - c[k] - 1) : parts[k][i] = text[c[k] + i]
    <2> DEFINE n == 5
    <2>1. IsCut(text, ".", n, c)
      BY <1>7
    <2> HIDE DEF n
    <2>2. /\ Len(parts) = n - 1
          /\ \A k \in 1..(n - 1) :
               /\ Len(parts[k]) = c[k + 1] - c[k] - 1
               /\ \A i \in 1..(c[k + 1] - c[k] - 1) : parts[k][i] = text[c[k] + i]
      BY <1>2, <2>1, PartsOf
    <2> QED
      BY <2>2 DEF n
  <1> HIDE DEF parts
  <1>9. \A k \in 1..4 : Len(parts[k]) = 1 /\ parts[k][1] = text[c[k] + 1]
    <2> TAKE k \in 1..4
    <2>1. c[k + 1] - c[k] - 1 = 1
      BY <1>5
    <2>0. k \in 1..(5 - 1)
      OBVIOUS
    <2>2. /\ Len(parts[k]) = c[k + 1] - c[k] - 1
          /\ \A i \in 1..(c[k + 1] - c[k] - 1) : parts[k][i] = text[c[k] + i]
      BY <1>8, <2>0, Zenon
    <2>3. 1 \in 1..1
      OBVIOUS
    <2> QED
      BY <2>1, <2>2, <2>3, Zenon
  <1>10. /\ parts[1][1] = text[1] /\ parts[2][1] = text[3]
         /\ parts[3][1] = text[5] /\ parts[4][1] = text[7]
    BY <1>5, <1>9
  <1>11. \A k \in 1..4 : parts[k][1] = Number(a[k])
    BY <1>3, <1>10
  <1>12. \A k \in 1..4 : IsNumber(parts[k], MaxOctet)
    BY <1>1, <1>9, <1>11, TokenNames DEF IsNumber
  <1> QED
    BY <1>8, <1>12 DEF IsAddress, parts, text

LEMMA TextIsEndpoint ==
    ASSUME NEW ep \in Endpoints
    PROVE  IsEndpoint(Text(ep)) /\ Text(ep) \in Seq(Plain)
  <1> DEFINE a == ep.address
             p == ep.port
             head == AddressText(a)
             text == Text(ep)
             parts == Split(text, ":")
             c == [k \in 1..3 |-> IF k = 1 THEN 0 ELSE IF k = 2 THEN 8 ELSE 10]
  <1>1. a \in [1..4 -> 0..MaxOctet] /\ p \in 0..MaxPort
    BY DEF Endpoints
  <1> HIDE DEF a, p
  <1>2. p \in Int /\ a \in [1..4 -> Int]
    BY <1>1, InLimits
  <1>3. head \in Seq(Plain) /\ IsAddress(head)
    BY <1>1, <1>2, AddressTextIsPlain, TextIsAddress
  <1>4. Len(head) = 7
    BY DEF AddressText
  <1>5. \A i \in 1..7 : head[i].token # ":"
    <2>1. /\ head[1] = Number(a[1]) /\ head[2] = Delim(".")
          /\ head[3] = Number(a[2]) /\ head[4] = Delim(".")
          /\ head[5] = Number(a[3]) /\ head[6] = Delim(".")
          /\ head[7] = Number(a[4])
      BY DEF AddressText
    <2> HIDE DEF head
    <2>2. /\ head[1].token # ":" /\ head[2].token # ":" /\ head[3].token # ":"
          /\ head[4].token # ":" /\ head[5].token # ":" /\ head[6].token # ":"
          /\ head[7].token # ":"
      BY <2>1, TokenNames
    <2> QED
      BY <2>2
  <1>6. text = head \o <<Delim(":"), Number(p)>>
    BY DEF Text, a, p
  <1> HIDE DEF head, text
  <1>7. Delim(":") \in Plain /\ Number(p) \in Plain
    BY <1>2, PlainAreTokens
  <1>8. /\ text \in Seq(Plain) /\ Len(text) = 9
        /\ \A i \in 1..7 : text[i] = head[i]
        /\ text[8] = Delim(":") /\ text[9] = Number(p)
    <2> DEFINE tail == <<Delim(":"), Number(p)>>
    <2>1. tail \in Seq(Plain) /\ Len(tail) = 2 /\ tail[1] = Delim(":") /\ tail[2] = Number(p)
      BY <1>7
    <2>3. text = head \o tail
      BY <1>6
    <2> HIDE DEF tail
    <2>2. /\ text \in Seq(Plain) /\ Len(text) = Len(head) + Len(tail)
          /\ \A i \in 1..(Len(head) + Len(tail)) :
               text[i] = IF i <= Len(head) THEN head[i] ELSE tail[i - Len(head)]
      BY <1>3, <2>1, <2>3, ConcatProperties
    <2>4. /\ text \in Seq(Plain) /\ Len(text) = 9
          /\ \A i \in 1..9 : text[i] = IF i <= 7 THEN head[i] ELSE tail[i - 7]
      BY <1>4, <2>1, <2>2
    <2> QED
      BY <2>1, <2>4
  <1>9. text \in Seq(Tokens) /\ head \in Seq(Tokens)
    BY <1>3, <1>8, PlainAreTokens, SeqMonotonic
  <1>10. Cuts(text, ":") = {0, 8, 10}
    <2>1. DOMAIN text = 1..9
      BY <1>8
    <2>2. text[8].token = ":" /\ text[9].token # ":"
      BY <1>8, TokenNames
    <2>3. \A i \in 1..9 : i \in 1..7 \/ i = 8 \/ i = 9
      OBVIOUS
    <2>4. {i \in 1..9 : text[i].token = ":"} = {8}
      BY <1>5, <1>8, <2>2, <2>3
    <2>5. Cuts(text, ":") = {0, 9 + 1} \cup {8}
      BY <1>8, <2>1, <2>4 DEF Cuts
    <2> QED
      BY <2>5
  <1>11. c[1] = 0 /\ c[2] = 8 /\ c[3] = 10
    OBVIOUS
  <1>12. Lists(c, 3, Cuts(text, ":"))
    <2>1. c \in [1..3 -> Int] /\ \A j, k \in 1..3 : j < k => c[j] < c[k]
      OBVIOUS
    <2>2. 1..3 = {1, 2, 3}
      OBVIOUS
    <2> HIDE DEF c
    <2>3. {c[k] : k \in {1, 2, 3}} = {0, 8, 10}
      BY <1>11
    <2> QED
      BY <1>10, <2>1, <2>2, <2>3 DEF Lists
  <1> HIDE DEF c
  <1>13. IsCut(text, ":", 3, c)
    BY <1>9, <1>12, ListedIsCut
  <1>14. /\ Len(parts) = 3 - 1
         /\ \A k \in 1..(3 - 1) :
              /\ Len(parts[k]) = c[k + 1] - c[k] - 1
              /\ \A i \in 1..(c[k + 1] - c[k] - 1) : parts[k][i] = text[c[k] + i]
              /\ parts[k] \in Seq(Tokens)
    <2> DEFINE n == 3
    <2>1. IsCut(text, ":", n, c)
      BY <1>13
    <2> HIDE DEF n
    <2>2. /\ Len(parts) = n - 1
          /\ \A k \in 1..(n - 1) :
               /\ Len(parts[k]) = c[k + 1] - c[k] - 1
               /\ \A i \in 1..(c[k + 1] - c[k] - 1) : parts[k][i] = text[c[k] + i]
               /\ parts[k] \in Seq(Tokens)
      BY <1>9, <2>1, PartsOf
    <2> QED
      BY <2>2 DEF n
  <1> HIDE DEF parts
  <1>15. /\ Len(parts[1]) = 7 /\ \A i \in 1..7 : parts[1][i] = text[0 + i]
         /\ Len(parts[2]) = 1 /\ parts[2][1] = text[8 + 1]
         /\ parts[1] \in Seq(Tokens)
    <2>1. /\ Len(parts[1]) = c[1 + 1] - c[1] - 1
          /\ \A i \in 1..(c[1 + 1] - c[1] - 1) : parts[1][i] = text[c[1] + i]
          /\ parts[1] \in Seq(Tokens)
          /\ Len(parts[2]) = c[2 + 1] - c[2] - 1
          /\ \A i \in 1..(c[2 + 1] - c[2] - 1) : parts[2][i] = text[c[2] + i]
      <3>1. 1 \in 1..(3 - 1) /\ 2 \in 1..(3 - 1)
        OBVIOUS
      <3> QED
        BY <1>14, <3>1, Zenon
    <2>2. c[1 + 1] - c[1] - 1 = 7 /\ c[2 + 1] - c[2] - 1 = 1
      BY <1>11
    <2>3. 1 \in 1..1
      OBVIOUS
    <2>4. Len(parts[1]) = 7 /\ \A i \in 1..7 : parts[1][i] = text[0 + i]
      BY <1>11, <2>1, <2>2, Zenon
    <2>5. Len(parts[2]) = 1 /\ parts[2][1] = text[8 + 1]
      BY <1>11, <2>1, <2>2, <2>3, Zenon
    <2>6. parts[1] \in Seq(Tokens)
      BY <2>1, Zenon
    <2> QED
      BY <2>4, <2>5, <2>6, Zenon
  <1>16. parts[1] = head
    <2>1. \A i \in 1..7 : parts[1][i] = head[i]
      <3>1. \A i \in 1..7 : 0 + i = i
        OBVIOUS
      <3> QED
        BY <1>8, <1>15, <3>1, Zenon
    <2> QED
      BY <1>4, <1>9, <1>15, <2>1, SeqEqual
  <1>17. IsNumber(parts[2], MaxPort)
    <2>1. parts[2][1] = Number(p) /\ Len(parts[2]) = 1
      BY <1>8, <1>15
    <2>2. parts[2][1].token = "number" /\ parts[2][1].is = p
      BY <2>1, TokenNames, Zenon
    <2> QED
      BY <1>1, <2>1, <2>2 DEF IsNumber
  <1>18. Len(parts) = 2
    BY <1>14
  <1> QED
    BY <1>3, <1>8, <1>16, <1>17, <1>18 DEF IsEndpoint, parts, text

-----------------------------------------------------------------------------
(* A URI is taken apart where it has been put together. *)
NoneOf(text, d) == \A i \in 1..Len(text) : text[i].token # d

LEMMA PartsFacts ==
    ASSUME NEW d \in {"/", "?", "#"}, NEW words \in Seq(AllWords)
    PROVE  /\ Parts(d, words) \in Seq(Tokens) /\ Len(Parts(d, words)) = 2 * Len(words)
           /\ \A k \in 1..Len(words) : /\ Parts(d, words)[2 * k - 1] = Delim(d)
                                       /\ Parts(d, words)[2 * k] = Word(words[k])
           /\ \A i \in 1..(2 * Len(words)) : \E k \in 1..Len(words) : i = 2 * k - 1 \/ i = 2 * k
  <1> DEFINE m == Len(words)
             P == Parts(d, words)
  <1>1. m \in Nat /\ \A k \in 1..m : words[k] \in AllWords
    BY ElementOfSeq
  <1>2. P = [i \in 1..(2 * m) |-> IF i % 2 = 1 THEN Delim(d) ELSE Word(words[i \div 2])]
    BY DEF Parts
  <1> HIDE DEF m, P
  <1>3. \A i \in 1..(2 * m) : \E k \in 1..m : i = 2 * k - 1 \/ i = 2 * k
    <2> TAKE i \in 1..(2 * m)
    <2> DEFINE k == (i + 1) \div 2
    <2>1. k \in 1..m /\ (i = 2 * k - 1 \/ i = 2 * k)
      BY <1>1
    <2> HIDE DEF k
    <2> QED
      BY <2>1
  <1>4. \A k \in 1..m : P[2 * k - 1] = Delim(d) /\ P[2 * k] = Word(words[k])
    <2> TAKE k \in 1..m
    <2>1. /\ 2 * k - 1 \in 1..(2 * m) /\ (2 * k - 1) % 2 = 1
          /\ 2 * k \in 1..(2 * m) /\ (2 * k) % 2 # 1 /\ (2 * k) \div 2 = k
      BY <1>1
    <2> QED
      BY <1>2, <2>1
  <1>5. /\ Delim(d) \in Tokens
        /\ \A k \in 1..m : Word(words[k]) \in Tokens
    BY <1>1 DEF Tokens
  <1>6. \A i \in 1..(2 * m) : P[i] \in Tokens
    BY <1>3, <1>4, <1>5
  <1>7. P \in Seq(Tokens) /\ Len(P) = 2 * m
    <2>1. 2 * m \in Nat
      BY <1>1
    <2>2. P \in [1..(2 * m) -> Tokens]
      BY <1>2, <1>6
    <2> QED
      BY <2>1, <2>2
  <1> QED
    BY <1>3, <1>4, <1>7 DEF m, P

LEMMA NoneInPlain ==
    ASSUME NEW text \in Seq(Plain), NEW d \in {"/", "?", "#", "://"}
    PROVE  NoneOf(text, d)
  <1>1. \A i \in 1..Len(text) : text[i] \in Plain
    BY ElementOfSeq
  <1>2. \A t \in Plain : t.token # d
    <2>1. d # "number" /\ d # "." /\ d # ":"
      OBVIOUS
    <2> QED
      BY <2>1 DEF Plain, Number, Delim
  <1> QED
    BY <1>1, <1>2 DEF NoneOf

LEMMA NoneInParts ==
    ASSUME NEW d \in {"/", "?", "#"}, NEW words \in Seq(AllWords),
           NEW e \in {"/", "?", "#", "://"}, d # e
    PROVE  NoneOf(Parts(d, words), e)
  <1> DEFINE m == Len(words)
             P == Parts(d, words)
  <1>1. /\ Len(P) = 2 * m
        /\ \A k \in 1..m : P[2 * k - 1] = Delim(d) /\ P[2 * k] = Word(words[k])
        /\ \A i \in 1..(2 * m) : \E k \in 1..m : i = 2 * k - 1 \/ i = 2 * k
    BY PartsFacts
  <1>2. d # e /\ e # "word"
    OBVIOUS
  <1> HIDE DEF P, m
  <1>3. \A k \in 1..m : P[2 * k - 1].token # e /\ P[2 * k].token # e
    BY <1>1, <1>2, TokenNames
  <1>4. \A i \in 1..(2 * m) : P[i].token # e
    BY <1>1, <1>3
  <1> QED
    BY <1>1, <1>4 DEF NoneOf, P

LEMMA NoneInBoth ==
    ASSUME NEW s \in Seq(Tokens), NEW t \in Seq(Tokens), NEW d, NoneOf(s, d), NoneOf(t, d)
    PROVE  NoneOf(s \o t, d) /\ s \o t \in Seq(Tokens)
  <1> DEFINE st == s \o t
             l == Len(s)
             m == Len(t)
  <1>1. /\ st \in Seq(Tokens) /\ Len(st) = l + m
        /\ \A i \in 1..(l + m) : st[i] = IF i <= l THEN s[i] ELSE t[i - l]
        /\ l \in Nat /\ m \in Nat
    BY ConcatProperties
  <1>2. (\A i \in 1..l : s[i].token # d) /\ (\A i \in 1..m : t[i].token # d)
    BY DEF NoneOf
  <1> HIDE DEF st, l, m
  <1>3. \A i \in 1..(l + m) : IF i <= l THEN i \in 1..l ELSE i - l \in 1..m
    BY <1>1
  <1>4. \A i \in 1..(l + m) : st[i].token # d
    BY <1>1, <1>2, <1>3
  <1> QED
    BY <1>1, <1>4 DEF NoneOf, st

(* The last kind of parts is cut off. *)
LEMMA HeadAndParts ==
    ASSUME NEW head \in Seq(Tokens), NEW d \in {"/", "?", "#"}, NEW words \in Seq(AllWords),
           NoneOf(head, d)
    PROVE  /\ Split(head \o Parts(d, words), d)[1] = head
           /\ TextsOf(Split(head \o Parts(d, words), d)) = words
  <1> DEFINE P == Parts(d, words)
             text == head \o P
             l == Len(head)
             m == Len(words)
             n == m + 2
             last == l + 2 * m + 1
             c == [k \in 1..n |-> IF k = 1 THEN 0 ELSE l + 2 * k - 3]
             parts == Split(text, d)
  <1>1. /\ P \in Seq(Tokens) /\ Len(P) = 2 * m
        /\ \A k \in 1..m : P[2 * k - 1] = Delim(d) /\ P[2 * k] = Word(words[k])
        /\ \A i \in 1..(2 * m) : \E k \in 1..m : i = 2 * k - 1 \/ i = 2 * k
    BY PartsFacts
  <1>2. l \in Nat /\ m \in Nat
    OBVIOUS
  <1> HIDE DEF P
  <1>3. /\ text \in Seq(Tokens) /\ Len(text) = l + Len(P)
        /\ \A i \in 1..(l + Len(P)) : text[i] = IF i <= l THEN head[i] ELSE P[i - l]
    BY <1>1, ConcatProperties
  <1>4. \A i \in 1..l : head[i].token # d
    BY DEF NoneOf
  <1> HIDE DEF text, l, m
  <1>5. Len(text) = l + 2 * m /\ Len(text) + 1 = last /\ DOMAIN text = 1..(l + 2 * m)
    BY <1>1, <1>2, <1>3
  <1>6. \A i \in 1..l : text[i] = head[i]
    <2>1. \A i \in 1..l : i \in 1..(l + 2 * m) /\ i <= l
      BY <1>2
    <2>2. \A i \in 1..(l + 2 * m) : text[i] = IF i <= l THEN head[i] ELSE P[i - l]
      BY <1>1, <1>3
    <2> QED
      BY <2>1, <2>2
  <1>7. \A k \in 1..m : text[l + (2 * k - 1)] = Delim(d) /\ text[l + 2 * k] = Word(words[k])
    <2> TAKE k \in 1..m
    <2>1. /\ l + (2 * k - 1) \in 1..(l + 2 * m) /\ ~ (l + (2 * k - 1) <= l)
          /\ l + (2 * k - 1) - l = 2 * k - 1
          /\ l + 2 * k \in 1..(l + 2 * m) /\ ~ (l + 2 * k <= l) /\ l + 2 * k - l = 2 * k
      BY <1>2
    <2>3. \A i \in 1..(l + 2 * m) : text[i] = IF i <= l THEN head[i] ELSE P[i - l]
      BY <1>1, <1>3
    <2> DEFINE i == l + (2 * k - 1)
               j == l + 2 * k
    <2>4. text[i] = P[i - l] /\ text[j] = P[j - l]
      <3>1. i \in 1..(l + 2 * m) /\ ~ (i <= l) /\ j \in 1..(l + 2 * m) /\ ~ (j <= l)
        BY <2>1
      <3> HIDE DEF i, j
      <3> QED
        BY <2>3, <3>1
    <2>2. text[l + (2 * k - 1)] = P[2 * k - 1] /\ text[l + 2 * k] = P[2 * k]
      <3>1. i - l = 2 * k - 1 /\ j - l = 2 * k
        BY <1>2
      <3> HIDE DEF i, j
      <3>2. text[i] = P[2 * k - 1] /\ text[j] = P[2 * k]
        BY <2>4, <3>1, Zenon
      <3> QED
        BY <3>2, Zenon DEF i, j
    <2> QED
      BY <1>1, <2>2
  <1>8. \A k \in 1..m : text[l + (2 * k - 1)].token = d /\ text[l + 2 * k].token # d
    <2>1. d # "word"
      OBVIOUS
    <2> QED
      BY <1>7, <2>1, TokenNames
  <1>9. c[1] = 0 /\ \A k \in 1..m : c[k + 1] = l + (2 * k - 1)
    <2>1. 1 \in 1..n
      BY <1>2
    <2>2. \A k \in 1..m : k + 1 \in 1..n /\ k + 1 # 1 /\ l + 2 * (k + 1) - 3 = l + (2 * k - 1)
      BY <1>2
    <2> QED
      BY <2>1, <2>2
  <1>10. c[m + 2] = last
    BY <1>2
  <1>11. c \in [1..n -> Int] /\ \A j, k \in 1..n : j < k => c[j] < c[k]
    BY <1>2
  <1>12. n \in Nat /\ 1 \in 1..n /\ m + 2 \in 1..n /\ \A k \in 1..m : k + 1 \in 1..n
    BY <1>2
  <1>13. \A k \in 1..n : k = 1 \/ k = m + 2 \/ (\E j \in 1..m : k = j + 1)
    <2> TAKE k \in 1..n
    <2>1. k = 1 \/ k = m + 2 \/ (k - 1 \in 1..m /\ k = (k - 1) + 1)
      BY <1>2
    <2> QED
      BY <2>1
  <1>14. \A i \in 1..(l + 2 * m) :
           \/ i \in 1..l
           \/ \E k \in 1..m : i = l + (2 * k - 1) \/ i = l + 2 * k
    <2> TAKE i \in 1..(l + 2 * m)
    <2>1. i \in 1..l \/ (i - l \in 1..(2 * m) /\ i = l + (i - l))
      BY <1>2
    <2>2. i - l \in 1..(2 * m) => \E k \in 1..m : i - l = 2 * k - 1 \/ i - l = 2 * k
      BY <1>1
    <2> QED
      BY <2>1, <2>2
  <1> HIDE DEF n, c, last
  <1>15. Cuts(text, d) = {c[k] : k \in 1..n}
    <2>1. Cuts(text, d) = {0, last} \cup {i \in 1..(l + 2 * m) : text[i].token = d}
      BY <1>5 DEF Cuts
    <2>2. \A i \in 1..(l + 2 * m) : text[i].token = d => \E k \in 1..m : i = l + (2 * k - 1)
      BY <1>4, <1>6, <1>8, <1>14
    <2>3. \A k \in 1..m : l + (2 * k - 1) \in 1..(l + 2 * m)
      BY <1>2
    <2>4. \A i \in Cuts(text, d) : i \in {c[k] : k \in 1..n}
      <3>1. 0 \in {c[k] : k \in 1..n} /\ last \in {c[k] : k \in 1..n}
        BY <1>9, <1>10, <1>12
      <3>2. \A k \in 1..m : l + (2 * k - 1) \in {c[j] : j \in 1..n}
        BY <1>9, <1>12
      <3> QED
        BY <2>1, <2>2, <3>1, <3>2
    <2>5. \A k \in 1..n : c[k] \in Cuts(text, d)
      BY <1>8, <1>9, <1>10, <1>13, <2>1, <2>3
    <2> QED
      BY <2>4, <2>5
  <1>16. Lists(c, n, Cuts(text, d))
    BY <1>11, <1>15 DEF Lists
  <1>17. IsCut(text, d, n, c)
    BY <1>3, <1>12, <1>16, ListedIsCut
  <1>18. /\ Len(parts) = n - 1
         /\ \A k \in 1..(n - 1) :
              /\ Len(parts[k]) = c[k + 1] - c[k] - 1
              /\ \A i \in 1..(c[k + 1] - c[k] - 1) : parts[k][i] = text[c[k] + i]
              /\ parts[k] \in Seq(Tokens)
    <2>1. text \in Seq(Tokens)
      BY <1>3
    <2> QED
      BY <1>17, <2>1, PartsOf
  <1> HIDE DEF parts
  <1>19. Len(parts) = m + 1 /\ Len(parts) - 1 = m
    BY <1>2, <1>18 DEF n
  <1>20. parts[1] = head
    <2>1. 1 \in 1..(n - 1)
      BY <1>2 DEF n
    <2>2. c[1 + 1] - c[1] - 1 = l
      <3>1. c[2] = l + 1
        <4>1. m = 0 \/ 1 \in 1..m
          BY <1>2
        <4>2. CASE m = 0
          BY <1>2, <1>10, <4>2 DEF last
        <4>3. CASE 1 \in 1..m
          <5>1. c[1 + 1] = l + (2 * 1 - 1)
            BY <1>9, <4>3
          <5> QED
            BY <1>2, <5>1
        <4> QED
          BY <4>1, <4>2, <4>3
      <3> QED
        BY <1>2, <1>9, <3>1
    <2>3. /\ Len(parts[1]) = l /\ parts[1] \in Seq(Tokens)
          /\ \A i \in 1..l : parts[1][i] = text[c[1] + i]
      BY <1>18, <2>1, <2>2
    <2>4. \A i \in 1..l : c[1] + i = i
      BY <1>2, <1>9
    <2>5. \A i \in 1..l : parts[1][i] = head[i]
      BY <1>6, <2>3, <2>4
    <2> QED
      BY <2>3, <2>5, SeqEqual DEF l
  <1>21. \A i \in 1..m : parts[i + 1][1].is = words[i]
    <2> TAKE i \in 1..m
    <2>1. i + 1 \in 1..(n - 1)
      BY <1>2 DEF n
    <2>2. c[i + 1] = l + (2 * i - 1)
      BY <1>9
    <2>3. c[(i + 1) + 1] = l + (2 * i + 1)
      <3>1. i = m \/ i + 1 \in 1..m
        BY <1>2
      <3>2. CASE i = m
        <4>1. (i + 1) + 1 = m + 2 /\ last = l + (2 * i + 1)
          BY <1>2, <3>2 DEF last
        <4> QED
          BY <1>10, <4>1
      <3>3. CASE i + 1 \in 1..m
        <4>1. c[(i + 1) + 1] = l + (2 * (i + 1) - 1)
          BY <1>9, <3>3
        <4>2. 2 * (i + 1) - 1 = 2 * i + 1
          BY <1>2
        <4> QED
          BY <4>1, <4>2
      <3> QED
        BY <3>1, <3>2, <3>3
    <2>4. c[(i + 1) + 1] - c[i + 1] - 1 = 1 /\ c[i + 1] + 1 = l + 2 * i
      BY <1>2, <2>2, <2>3
    <2>5. \A j \in 1..1 : parts[i + 1][j] = text[c[i + 1] + j]
      BY <1>18, <2>1, <2>4
    <2>6. parts[i + 1][1] = text[l + 2 * i]
      BY <2>4, <2>5
    <2>7. parts[i + 1][1] = Word(words[i])
      BY <1>7, <2>6
    <2> QED
      BY <2>7, TokenNames
  <1>22. TextsOf(parts) = words
    <2>1. TextsOf(parts) = [i \in 1..m |-> parts[i + 1][1].is]
      BY <1>19 DEF TextsOf
    <2>2. TextsOf(parts) = [i \in 1..m |-> words[i]]
      BY <1>21, <2>1
    <2>3. words = [i \in 1..m |-> words[i]]
      BY DEF m
    <2> QED
      BY <2>2, <2>3
  <1> QED
    BY <1>20, <1>22 DEF parts, text, P

LEMMA Regrouped ==
    ASSUME NEW s \in Seq(Tokens), NEW t \in Seq(Tokens), NEW u \in Seq(Tokens)
    PROVE  (s \o t) \o u = s \o (t \o u)
  BY ConcatAssociative

(* The scheme is cut off. *)
LEMMA SchemeCut ==
    ASSUME NEW rest \in Seq(Tokens), NoneOf(rest, "://")
    PROVE  LET parts == Split(<<Word("scheme"), Delim("://")>> \o rest, "://")
           IN  Len(parts) = 2 /\ Last(parts) = rest
  <1> DEFINE front == <<Word("scheme"), Delim("://")>>
             text == front \o rest
             parts == Split(text, "://")
             l == Len(rest)
             last == l + 3
             c == [k \in 1..3 |-> IF k = 1 THEN 0 ELSE IF k = 2 THEN 2 ELSE last]
             n == 3
  <1>1. /\ front \in Seq(Tokens) /\ Len(front) = 2
        /\ front[1] = Word("scheme") /\ front[2] = Delim("://")
    <2>1. Word("scheme") \in Tokens /\ Delim("://") \in Tokens
      BY DEF Tokens
    <2> QED
      BY <2>1
  <1> HIDE DEF front
  <1>2. /\ text \in Seq(Tokens) /\ Len(text) = Len(front) + l
        /\ \A i \in 1..(Len(front) + l) :
             text[i] = IF i <= Len(front) THEN front[i] ELSE rest[i - Len(front)]
    BY <1>1, ConcatProperties
  <1>3. l \in Nat
    OBVIOUS
  <1>4. \A i \in 1..l : rest[i].token # "://"
    BY DEF NoneOf
  <1> HIDE DEF text, l
  <1>5. text \in Seq(Tokens)
    BY <1>2
  <1>6. Len(text) = l + 2 /\ Len(text) + 1 = last /\ DOMAIN text = 1..(l + 2)
    BY <1>1, <1>2, <1>3
  <1>7. text[1] = Word("scheme") /\ text[2] = Delim("://") /\ \A i \in 1..l : text[2 + i] = rest[i]
    <2>1. \A i \in 1..(l + 2) : text[i] = IF i <= 2 THEN front[i] ELSE rest[i - 2]
      BY <1>1, <1>2, <1>3
    <2>2. 1 \in 1..(l + 2) /\ 2 \in 1..(l + 2)
      BY <1>3
    <2>3. \A i \in 1..l : 2 + i \in 1..(l + 2) /\ ~ (2 + i <= 2) /\ (2 + i) - 2 = i
      BY <1>3
    <2> QED
      BY <1>1, <2>1, <2>2, <2>3
  <1>8. Cuts(text, "://") = {0, 2, last}
    <2>1. Cuts(text, "://") = {0, last} \cup {i \in 1..(l + 2) : text[i].token = "://"}
      BY <1>6 DEF Cuts
    <2>2. \A i \in 1..(l + 2) : i = 1 \/ i = 2 \/ (i - 2 \in 1..l /\ 2 + (i - 2) = i)
      BY <1>3
    <2>3. \A i \in 1..(l + 2) : i - 2 \in 1..l /\ 2 + (i - 2) = i => text[i].token # "://"
      BY <1>4, <1>7
    <2>4. text[1].token # "://" /\ text[2].token = "://"
      BY <1>7, TokenNames
    <2>5. 2 \in 1..(l + 2)
      BY <1>3
    <2>6. {i \in 1..(l + 2) : text[i].token = "://"} = {2}
      BY <2>2, <2>3, <2>4, <2>5
    <2> QED
      BY <2>1, <2>6
  <1>9. c[1] = 0 /\ c[2] = 2 /\ c[3] = last
    OBVIOUS
  <1>10. Lists(c, 3, Cuts(text, "://"))
    <2>1. c \in [1..3 -> Int] /\ \A j, k \in 1..3 : j < k => c[j] < c[k]
      BY <1>3
    <2>2. 1..3 = {1, 2, 3}
      OBVIOUS
    <2> HIDE DEF c, last
    <2>3. {c[k] : k \in {1, 2, 3}} = {0, 2, last}
      BY <1>9
    <2> QED
      BY <1>8, <2>1, <2>2, <2>3 DEF Lists
  <1> HIDE DEF c
  <1>11. IsCut(text, "://", n, c)
    <2>1. n \in Nat /\ Lists(c, n, Cuts(text, "://"))
      BY <1>10
    <2> HIDE DEF n
    <2> QED
      BY <1>5, <2>1, ListedIsCut
  <1> HIDE DEF n
  <1>12. /\ Len(parts) = n - 1
         /\ \A k \in 1..(n - 1) :
              /\ Len(parts[k]) = c[k + 1] - c[k] - 1
              /\ \A i \in 1..(c[k + 1] - c[k] - 1) : parts[k][i] = text[c[k] + i]
              /\ parts[k] \in Seq(Tokens)
    BY <1>5, <1>11, PartsOf
  <1> HIDE DEF parts
  <1>13. /\ Len(parts) = 2
         /\ Len(parts[2]) = c[2 + 1] - c[2] - 1
         /\ \A i \in 1..(c[2 + 1] - c[2] - 1) : parts[2][i] = text[c[2] + i]
         /\ parts[2] \in Seq(Tokens)
    BY <1>12 DEF n
  <1>14. c[2 + 1] - c[2] - 1 = l
    BY <1>3, <1>9
  <1>15. Len(parts[2]) = l /\ \A i \in 1..l : parts[2][i] = rest[i]
    BY <1>7, <1>9, <1>13, <1>14
  <1>16. parts[2] = rest
    BY <1>13, <1>15, SeqEqual DEF l
  <1>17. Last(parts) = rest
    BY <1>13, <1>16 DEF Last
  <1> QED
    BY <1>13, <1>17 DEF parts, text, front

(* A URI that is composed around a text, and what its constructor reads. *)
UriText(text, path, queries, fragments) ==
    <<Word("scheme"), Delim("://")>> \o text \o Parts("/", path)
        \o Parts("?", queries) \o Parts("#", fragments)

UriReadAs(uri, text, path, queries, fragments) ==
    LET bySharp == Split(Last(Split(uri, "://")), "#")
        byMark == Split(bySharp[1], "?")
        bySlash == Split(byMark[1], "/")
    IN  /\ Len(Split(uri, "://")) = 2
        /\ bySlash[1] = text /\ TextsOf(bySlash) = path
        /\ TextsOf(byMark) = queries /\ TextsOf(bySharp) = fragments

LEMMA UriReads ==
    ASSUME NEW text \in Seq(Plain), NEW path \in Seq(AllWords),
           NEW queries \in Seq(AllWords), NEW fragments \in Seq(AllWords)
    PROVE  UriReadAs(UriText(text, path, queries, fragments), text, path, queries, fragments)
  <1> DEFINE P == Parts("/", path)
             Q == Parts("?", queries)
             F == Parts("#", fragments)
             front == <<Word("scheme"), Delim("://")>>
             uri == UriText(text, path, queries, fragments)
             parts == Split(uri, "://")
  <1>1. P \in Seq(Tokens) /\ Q \in Seq(Tokens) /\ F \in Seq(Tokens)
    BY PartsFacts
  <1>2. text \in Seq(Tokens)
    BY PlainAreTokens, SeqMonotonic
  <1>3. front \in Seq(Tokens)
    BY DEF Tokens
  <1>4. uri = (((front \o text) \o P) \o Q) \o F
    BY DEF UriText
  <1>5. /\ NoneOf(text, "/") /\ NoneOf(text, "?") /\ NoneOf(text, "#") /\ NoneOf(text, "://")
    BY NoneInPlain
  <1>6. /\ NoneOf(P, "?") /\ NoneOf(P, "#") /\ NoneOf(P, "://")
        /\ NoneOf(Q, "#") /\ NoneOf(Q, "://") /\ NoneOf(F, "://")
    BY NoneInParts
  <1> HIDE DEF front, P, Q, F, uri
  <1>7. text \o P \in Seq(Tokens) /\ NoneOf(text \o P, "?")
        /\ NoneOf(text \o P, "#") /\ NoneOf(text \o P, "://")
    BY <1>1, <1>2, <1>5, <1>6, NoneInBoth, Zenon
  <1> DEFINE tp == text \o P
             tpq == tp \o Q
             rest == tpq \o F
  <1>8. tpq \in Seq(Tokens) /\ NoneOf(tpq, "#") /\ NoneOf(tpq, "://")
    BY <1>1, <1>6, <1>7, NoneInBoth, Zenon
  <1>9. rest \in Seq(Tokens) /\ NoneOf(rest, "://")
    <2> HIDE DEF tpq
    <2> QED
      BY <1>1, <1>6, <1>8, NoneInBoth, Zenon
  <1>10. uri = front \o rest
    <2>1. (front \o text) \o P = front \o tp
      BY <1>1, <1>2, <1>3, Regrouped, Zenon
    <2>2. (front \o tp) \o Q = front \o tpq
      BY <1>1, <1>3, <1>7, Regrouped, Zenon
    <2> HIDE DEF tpq, tp
    <2>3. (front \o tpq) \o F = front \o rest
      BY <1>1, <1>3, <1>8, Regrouped, Zenon
    <2> QED
      BY <1>4, <2>1, <2>2, <2>3, Zenon
  <1>11. Len(parts) = 2 /\ Last(parts) = rest
    <2> HIDE DEF rest
    <2>1. LET p == Split(front \o rest, "://") IN Len(p) = 2 /\ Last(p) = rest
      BY <1>9, SchemeCut DEF front
    <2> QED
      BY <1>10, <2>1
  <1> HIDE DEF parts
  <1>12. Split(rest, "#")[1] = tpq /\ TextsOf(Split(rest, "#")) = fragments
    <2> HIDE DEF tpq
    <2>1. Split(tpq \o F, "#")[1] = tpq /\ TextsOf(Split(tpq \o F, "#")) = fragments
      BY <1>8, HeadAndParts DEF F
    <2> QED
      BY <2>1
  <1>13. Split(tpq, "?")[1] = tp /\ TextsOf(Split(tpq, "?")) = queries
    <2> HIDE DEF tp
    <2>1. tp \in Seq(Tokens) /\ NoneOf(tp, "?")
      BY <1>7 DEF tp
    <2>2. Split(tp \o Q, "?")[1] = tp /\ TextsOf(Split(tp \o Q, "?")) = queries
      BY <2>1, HeadAndParts DEF Q
    <2> QED
      BY <2>2
  <1>14. Split(tp, "/")[1] = text /\ TextsOf(Split(tp, "/")) = path
    <2>1. Split(text \o P, "/")[1] = text /\ TextsOf(Split(text \o P, "/")) = path
      BY <1>2, <1>5, HeadAndParts DEF P
    <2> QED
      BY <2>1
  <1> HIDE DEF rest, tpq, tp
  <1>15. UriReadAs(uri, text, path, queries, fragments)
    BY <1>11, <1>12, <1>13, <1>14 DEF UriReadAs, parts
  <1> QED
    BY <1>15 DEF uri

-----------------------------------------------------------------------------
(* A text that is damaged is made of the same kinds of tokens. *)
LEMMA DamagedIsPlain ==
    ASSUME NEW text \in Seq(Plain), NEW t \in Damaged(text)
    PROVE  t \in Seq(Plain)
  <1>1. PICK i \in DOMAIN text :
          \/ \E n \in {-1, 256} \cup Ports : t = ReplaceAt(text, i, Number(n))
          \/ t = ReplaceAt(text, i, Delim(":"))
          \/ t = RemoveAt(text, i)
          \/ t = InsertAt(text, i, text[i])
    BY DEF Damaged
  <1>2. /\ i \in 1..Len(text) /\ Len(text) \in Nat
        /\ \A j \in 1..Len(text) : text[j] \in Plain
    BY ElementOfSeq
  <1>3. \A e \in Plain : ReplaceAt(text, i, e) \in Seq(Plain)
    BY <1>2, ExceptSeq DEF ReplaceAt
  <1>4. \A n \in {-1, 256} \cup Ports : Number(n) \in Plain
    <2>1. Ports \subseteq Int
      BY AddressAssumption, InLimits
    <2>2. -1 \in Int /\ 256 \in Int
      OBVIOUS
    <2> QED
      BY <2>1, <2>2, PlainAreTokens
  <1> DEFINE before == SubSeq(text, 1, i - 1)
             after == SubSeq(text, i + 1, Len(text))
             from == SubSeq(text, i, Len(text))
  <1>5. before \in Seq(Plain) /\ after \in Seq(Plain) /\ from \in Seq(Plain)
    <2>1. i - 1 \in Int /\ i + 1 \in Int /\ i \in Int /\ Len(text) \in Int /\ 1 \in Int
      BY <1>2
    <2>2. /\ \A j \in 1..(i - 1) : text[j] \in Plain
          /\ \A j \in (i + 1)..Len(text) : text[j] \in Plain
          /\ \A j \in i..Len(text) : text[j] \in Plain
      BY <1>2
    <2>3. before \in Seq(Plain)
      BY <2>1, <2>2, SubSeqProperties
    <2>4. after \in Seq(Plain)
      BY <2>1, <2>2, SubSeqProperties
    <2>5. from \in Seq(Plain)
      BY <2>1, <2>2, SubSeqProperties
    <2> QED
      BY <2>3, <2>4, <2>5
  <1>6. \A s, u \in Seq(Plain) : s \o u \in Seq(Plain)
    BY ConcatProperties
  <1>7. <<text[i]>> \in Seq(Plain)
    BY <1>2
  <1> HIDE DEF before, after, from
  <1>8. before \o after \in Seq(Plain) /\ (before \o <<text[i]>>) \o from \in Seq(Plain)
    BY <1>5, <1>6, <1>7, Zenon
  <1>9. RemoveAt(text, i) = before \o after
    BY DEF RemoveAt, before, after
  <1>10. InsertAt(text, i, text[i]) = (before \o <<text[i]>>) \o from
    BY DEF InsertAt, before, from
  <1> QED
    BY <1>1, <1>3, <1>4, <1>8, <1>9, <1>10, PlainAreTokens

LEMMA SockaddrOfEndpoint ==
    ASSUME NEW ep \in Endpoints
    PROVE  FromSockaddr(ToSockaddr(ep)) = ep
  <1>1. ep.port \in 0..MaxPort /\ ep = [address |-> ep.address, port |-> ep.port]
    BY DEF Endpoints
  <1>2. Swapped(Swapped(ep.port)) = ep.port
    BY <1>1, SwapTwice
  <1> QED
    BY <1>1, <1>2 DEF FromSockaddr, ToSockaddr

(* Zero is the only port that is zero when its bytes are swapped. *)
LEMMA SwappedIsPort ==
    ASSUME NEW p \in 0..MaxPort, p # 0
    PROVE  Swapped(p) \in 0..MaxPort /\ Swapped(p) # 0
  <1>1. Swapped(p) \in 0..MaxPort /\ Swapped(Swapped(p)) = p
    BY SwapTwice
  <1>2. Swapped(0) = 0
    BY DEF Swapped
  <1> QED
    BY <1>1, <1>2

(* Whatever port is asked for, a socket is bound to one. *)
LEMMA BoundToPort ==
    ASSUME NEW saddr, saddr.port \in 0..MaxPort, NEW b \in BoundTo(saddr)
    PROVE  b.port \in 0..MaxPort /\ b.port # 0
  <1>1. CASE saddr.port # 0
    BY <1>1 DEF BoundTo
  <1>2. CASE saddr.port = 0
    <2>1. PICK p \in Ports \ {0} : b = ToSockaddr([address |-> saddr.address, port |-> p])
      BY <1>2 DEF BoundTo
    <2>2. b.port = Swapped(p)
      BY <2>1 DEF ToSockaddr
    <2>3. p \in 0..MaxPort /\ p # 0
      BY <2>1, AddressAssumption
    <2> QED
      BY <2>2, <2>3, SwappedIsPort
  <1> QED
    BY <1>1, <1>2

LEMMA ValidTexts ==
    ASSUME NEW a \in [1..4 -> Octets], NEW p \in Ports
    PROVE  [address |-> a, port |-> p] \in Endpoints
  BY AddressAssumption DEF Endpoints

(* What an endpoint may have become, and from which text. *)
IsSockaddrOf(o, t) == \E ep \in Endpoints : o = Text(ep) /\ t = ToSockaddr(ep)
IsUriOf(o, t, g) ==
    \E path, queries, fragments \in Words :
       /\ g = [path |-> path, queries |-> queries, fragments |-> fragments]
       /\ t = UriText(o, path, queries, fragments)
IsReadFrom(o, t, g) ==
    /\ t.auth \in Endpoints /\ o = Text(t.auth)
    /\ [path |-> t.path, queries |-> t.queries, fragments |-> t.fragments] = g

IsBound(t) ==
    t.inKernel \in 0..MaxPort /\ t.inKernel # 0 /\ t.reported = Swapped(t.inKernel)

Became(o, f, t, g) ==
    /\ o \in Seq(Plain)
    /\ f = "text" => t = o
    /\ f = "endpoint" => t \in Endpoints /\ o = Text(t)
    /\ f = "sockaddr" => IsSockaddrOf(o, t)
    /\ f = "uri text" => IsUriOf(o, t, g)
    /\ f = "uri" => IsReadFrom(o, t, g)
    /\ f = "bound" => IsBound(t)
    /\ f = "error" => ~ IsEndpoint(o)

AddressInv == Became(origin, form, thing, given)

LEMMA AddressInvInit == AddressesInit => AddressInv
  <1> SUFFICES ASSUME AddressesInit
               PROVE  AddressInv
    OBVIOUS
  <1>1. PICK a \in [1..4 -> Octets], p \in Ports :
          origin \in {Text([address |-> a, port |-> p])} \cup Damaged(Text([address |-> a, port |-> p]))
    BY DEF AddressesInit
  <1>2. Text([address |-> a, port |-> p]) \in Seq(Plain)
    BY ValidTexts, TextIsEndpoint
  <1>3. origin \in Seq(Plain)
    BY <1>1, <1>2, DamagedIsPlain
  <1>4. form = "text" /\ thing = origin
    BY DEF AddressesInit
  <1> QED
    BY <1>3, <1>4 DEF AddressInv, Became

LEMMA WordsOfUris == \A words \in Words : words \in Seq(AllWords)
  <1> TAKE words \in Words
  <1>1. words \in Seq(Range(words))
    BY AddressAssumption
  <1>2. Range(words) \subseteq AllWords
    BY DEF AllWords
  <1> QED
    BY <1>1, <1>2, SeqMonotonic

LEMMA AddressInvSteps == AddressInv /\ [AddressesNext]_addressVars => AddressInv'
  <1> SUFFICES ASSUME AddressInv, [AddressesNext]_addressVars
               PROVE  AddressInv'
    OBVIOUS
  <1>0. Became(origin, form, thing, given)
    BY DEF AddressInv
  <1>a. origin \in Seq(Plain) /\ origin \in Seq(Tokens)
    BY <1>0, PlainAreTokens, SeqMonotonic DEF Became
  <1> SUFFICES Became(origin', form', thing', given')
    BY DEF AddressInv
  <1>1. CASE ParseEndpoint
    <2>1. form = "text" /\ thing = origin /\ origin' = origin
      BY <1>0, <1>1 DEF ParseEndpoint, Converts, Became
    <2>2. CASE IsEndpoint(thing)
      <3>1. form' = "endpoint" /\ thing' = EndpointOf(thing)
        BY <1>1, <2>1, <2>2 DEF ParseEndpoint, Converts
      <3>2. EndpointOf(origin) \in Endpoints /\ origin = Text(EndpointOf(origin))
        BY <1>a, <2>1, <2>2, EndpointIsText
      <3> QED
        BY <1>a, <2>1, <3>1, <3>2 DEF Became
    <2>3. CASE ~ IsEndpoint(thing)
      <3>1. form' = "error"
        BY <1>1, <2>1, <2>3 DEF ParseEndpoint, Converts
      <3> QED
        BY <1>a, <2>1, <2>3, <3>1 DEF Became
    <2> QED
      BY <2>2, <2>3
  <1>2. CASE ToText
    <2>1. form = "endpoint" /\ form' = "text" /\ thing' = Text(thing) /\ origin' = origin
      BY <1>2 DEF ToText, Converts
    <2>2. origin = Text(thing)
      BY <1>0, <2>1 DEF Became
    <2> QED
      BY <1>a, <2>1, <2>2 DEF Became
  <1>3. CASE PassToKernel
    <2>1. form = "endpoint" /\ form' = "sockaddr" /\ thing' = ToSockaddr(thing) /\ origin' = origin
      BY <1>3 DEF PassToKernel, Converts
    <2>2. thing \in Endpoints /\ origin = Text(thing)
      BY <1>0, <2>1 DEF Became
    <2>3. IsSockaddrOf(origin', thing')
      BY <2>1, <2>2 DEF IsSockaddrOf
    <2> QED
      BY <1>a, <2>1, <2>3 DEF Became
  <1>4. CASE ReceiveFromKernel
    <2>1. form = "sockaddr" /\ form' = "endpoint" /\ thing' = FromSockaddr(thing) /\ origin' = origin
      BY <1>4 DEF ReceiveFromKernel, Converts
    <2>2. IsSockaddrOf(origin, thing)
      BY <1>0, <2>1 DEF Became
    <2>3. PICK ep \in Endpoints : origin = Text(ep) /\ thing = ToSockaddr(ep)
      BY <2>2 DEF IsSockaddrOf
    <2>4. thing' = ep
      BY <2>1, <2>3, SockaddrOfEndpoint
    <2> QED
      BY <1>a, <2>1, <2>3, <2>4 DEF Became
  <1>5. CASE BindUdp
    <2>1. form' = "bound" /\ origin' = origin
      BY <1>5 DEF BindUdp, Converts
    <2>2. form = "endpoint" /\ thing \in Endpoints
      BY <1>0, <1>5 DEF BindUdp, Converts, Became
    <2>3. thing.port \in 0..MaxPort
      BY <2>2 DEF Endpoints
    <2> DEFINE wanted == ToSockaddr([address |-> AnyAddress, port |-> Swapped(thing.port)])
    <2>4. PICK saddr \in BoundTo(wanted) :
            thing' = [asked |-> thing.port, inKernel |-> saddr.port, reported |-> PortOf(saddr)]
      BY <1>5 DEF BindUdp
    <2>5. wanted.port = thing.port
      BY <2>3, SwapTwice DEF ToSockaddr
    <2> HIDE DEF wanted
    <2>6. saddr.port \in 0..MaxPort /\ saddr.port # 0
      BY <2>3, <2>4, <2>5, BoundToPort
    <2>7. IsBound(thing')
      BY <2>4, <2>6 DEF IsBound, PortOf, FromSockaddr
    <2> QED
      BY <1>a, <2>1, <2>7 DEF Became
  <1>6. CASE ComposeUri
    <2>1. form = "text" /\ form' = "uri text" /\ origin' = origin
      BY <1>6 DEF ComposeUri, Converts
    <2>2. thing = origin
      BY <1>0, <2>1 DEF Became
    <2>3. IsUriOf(origin', thing', given')
      BY <1>6, <2>1, <2>2 DEF ComposeUri, IsUriOf, UriText
    <2> QED
      BY <1>a, <2>1, <2>3 DEF Became
  <1>7. CASE ParseUri
    <2> DEFINE bySharp == Split(Last(Split(thing, "://")), "#")
               byMark == Split(bySharp[1], "?")
               bySlash == Split(byMark[1], "/")
    <2>1. form = "uri text" /\ origin' = origin /\ given' = given
      BY <1>7 DEF ParseUri, Converts
    <2>2. IsUriOf(origin, thing, given)
      BY <1>0, <2>1 DEF Became
    <2>3. PICK path \in Words, queries \in Words, fragments \in Words :
            /\ given = [path |-> path, queries |-> queries, fragments |-> fragments]
            /\ thing = UriText(origin, path, queries, fragments)
      BY <2>2 DEF IsUriOf
    <2>4. UriReadAs(thing, origin, path, queries, fragments)
      BY <1>a, <2>3, WordsOfUris, UriReads
    <2>5. /\ Len(Split(thing, "://")) = 2
          /\ bySlash[1] = origin /\ TextsOf(bySlash) = path
          /\ TextsOf(byMark) = queries /\ TextsOf(bySharp) = fragments
      BY <2>4 DEF UriReadAs
    <2>6. IF Len(Split(thing, "://")) <= 2 /\ IsEndpoint(bySlash[1])
          THEN /\ form' = "uri"
               /\ thing' = [auth |-> EndpointOf(bySlash[1]), path |-> TextsOf(bySlash),
                            queries |-> TextsOf(byMark), fragments |-> TextsOf(bySharp)]
          ELSE form' = "error"
      BY <1>7, <2>1 DEF ParseUri, Converts
    <2> HIDE DEF bySharp, byMark, bySlash
    <2>7. CASE IsEndpoint(origin)
      <3>1. /\ form' = "uri"
            /\ thing' = [auth |-> EndpointOf(origin), path |-> path,
                         queries |-> queries, fragments |-> fragments]
        <4>1. Len(Split(thing, "://")) <= 2
          <5> DEFINE l == Len(Split(thing, "://"))
          <5>1. l = 2
            BY <2>5
          <5> HIDE DEF l
          <5>2. l <= 2
            BY <5>1
          <5> QED
            BY <5>2 DEF l
        <4>2. /\ form' = "uri"
              /\ thing' = [auth |-> EndpointOf(bySlash[1]), path |-> TextsOf(bySlash),
                           queries |-> TextsOf(byMark), fragments |-> TextsOf(bySharp)]
          BY <2>5, <2>6, <2>7, <4>1, Zenon
        <4> QED
          BY <2>5, <4>2, Zenon
      <3>2. EndpointOf(origin) \in Endpoints /\ origin = Text(EndpointOf(origin))
        BY <1>a, <2>7, EndpointIsText
      <3>3. IsReadFrom(origin', thing', given')
        BY <2>1, <2>3, <3>1, <3>2 DEF IsReadFrom
      <3> QED
        BY <1>a, <2>1, <3>1, <3>3 DEF Became
    <2>8. CASE ~ IsEndpoint(origin)
      <3>1. form' = "error"
        BY <2>5, <2>6, <2>8
      <3> QED
        BY <1>a, <2>1, <2>8, <3>1 DEF Became
    <2> QED
      BY <2>7, <2>8
  <1>8. CASE Authority
    <2>1. form = "uri" /\ form' = "endpoint" /\ thing' = thing.auth /\ origin' = origin
      BY <1>8 DEF Authority, Converts
    <2>2. IsReadFrom(origin, thing, given)
      BY <1>0, <2>1 DEF Became
    <2> QED
      BY <1>a, <2>1, <2>2 DEF Became, IsReadFrom
  <1>9. CASE UNCHANGED addressVars
    BY <1>0, <1>9 DEF addressVars
  <1> QED
    BY <1>1, <1>2, <1>3, <1>4, <1>5, <1>6, <1>7, <1>8, <1>9 DEF AddressesNext

LEMMA KeptHeld == AddressInv => EndpointKept
  <1> SUFFICES ASSUME AddressInv
               PROVE  EndpointKept
    OBVIOUS
  <1>0. Became(origin, form, thing, given)
    BY DEF AddressInv
  <1>1. form = "endpoint" =>
          /\ origin = Text(thing)
          /\ thing.address \in [1..4 -> 0..MaxOctet] /\ thing.port \in 0..MaxPort
    BY <1>0 DEF Became, Endpoints
  <1>2. form = "error" => \A a \in [1..4 -> Octets], p \in Ports :
                            origin # Text([address |-> a, port |-> p])
    <2>1. ASSUME NEW a \in [1..4 -> Octets], NEW p \in Ports
          PROVE  IsEndpoint(Text([address |-> a, port |-> p]))
      BY ValidTexts, TextIsEndpoint
    <2>2. form = "error" => ~ IsEndpoint(origin)
      BY <1>0 DEF Became
    <2> QED
      BY <2>1, <2>2
  <1>3. form = "uri" =>
          /\ origin = Text(thing.auth)
          /\ [path |-> thing.path, queries |-> thing.queries, fragments |-> thing.fragments] = given
    BY <1>0 DEF Became, IsReadFrom
  <1>4. ASSUME form = "bound"
        PROVE  /\ thing.reported # 0
               /\ ToSockaddr([address |-> AnyAddress, port |-> thing.reported]).port = thing.inKernel
    <2>1. /\ thing.inKernel \in 0..MaxPort /\ thing.inKernel # 0
          /\ thing.reported = Swapped(thing.inKernel)
      BY <1>0, <1>4 DEF Became, IsBound
    <2>2. thing.reported # 0 /\ Swapped(thing.reported) = thing.inKernel
      BY <2>1, SwapTwice, SwappedIsPort
    <2> QED
      BY <2>2 DEF ToSockaddr
  <1> QED
    BY <1>1, <1>2, <1>3, <1>4 DEF EndpointKept

(* Whatever the octets, the ports and the words are: v4_endpoint and uri    *)
(* take exactly the texts that name an endpoint, and keep what they name.   *)
THEOREM EndpointIsKept == AddressesSpec => []EndpointKept
  <1>1. AddressesSpec => []AddressInv
    BY AddressInvInit, AddressInvSteps, PTL DEF AddressesSpec
  <1> QED
    BY <1>1, KeptHeld, PTL

-----------------------------------------------------------------------------
(* Command lines. *)

(* The values of an option, none if it is not contained. *)
Vals(p, id) == IF id \in DOMAIN p THEN p[id] ELSE <<>>

LEMMA NotedFacts ==
    ASSUME NEW p, NEW o
    PROVE  /\ DOMAIN Noted(p, o) = DOMAIN p \cup {o.id}
           /\ \A id : Vals(Noted(p, o), id) = Vals(p, id)
  <1>1. CASE o.id \in DOMAIN p
    <2>1. Noted(p, o) = p
      BY <1>1 DEF Noted
    <2> QED
      BY <1>1, <2>1
  <1>2. CASE o.id \notin DOMAIN p
    <2> DEFINE q == [id \in DOMAIN p \cup {o.id} |-> IF id = o.id THEN <<>> ELSE p[id]]
    <2>1. Noted(p, o) = q
      BY <1>2 DEF Noted
    <2>2. /\ DOMAIN q = DOMAIN p \cup {o.id} /\ q[o.id] = <<>>
          /\ \A id \in DOMAIN p : q[id] = p[id]
      BY <1>2
    <2> HIDE DEF q
    <2>3. ASSUME NEW id
          PROVE  Vals(q, id) = Vals(p, id)
      <3>1. CASE id \in DOMAIN p
        BY <2>2, <3>1 DEF Vals
      <3>2. CASE id = o.id
        BY <1>2, <2>2, <3>2 DEF Vals
      <3>3. CASE id \notin DOMAIN p /\ id # o.id
        BY <2>2, <3>3 DEF Vals
      <3> QED
        BY <3>1, <3>2, <3>3
    <2> QED
      BY <2>1, <2>2, <2>3
  <1> QED
    BY <1>1, <1>2

LEMMA ValueDomain ==
    ASSUME NEW p, NEW o, NEW v
    PROVE  DOMAIN WithValue(p, o, v) = DOMAIN p \cup {o.id}
  <1> DEFINE q == Noted(p, o)
  <1>1. DOMAIN q = DOMAIN p \cup {o.id}
    BY NotedFacts
  <1>2. WithValue(p, o, v) = [q EXCEPT ![o.id] = Append(@, v)]
    BY DEF WithValue
  <1> HIDE DEF q
  <1>3. DOMAIN WithValue(p, o, v) = DOMAIN q
    BY <1>2
  <1> QED
    BY <1>1, <1>3

LEMMA ValueFacts ==
    ASSUME NEW p, NEW o, NEW v, NEW x
    PROVE  Vals(WithValue(p, o, v), x) = IF x = o.id THEN Append(Vals(p, o.id), v) ELSE Vals(p, x)
  <1> DEFINE q == Noted(p, o)
             r == WithValue(p, o, v)
  <1>1. /\ DOMAIN q = DOMAIN p \cup {o.id}
        /\ \A y : Vals(q, y) = Vals(p, y)
    BY NotedFacts
  <1>2. r = [q EXCEPT ![o.id] = Append(@, v)]
    BY DEF WithValue
  <1> HIDE DEF q, r
  <1>3. /\ DOMAIN r = DOMAIN q /\ r[o.id] = Append(q[o.id], v)
        /\ \A y \in DOMAIN q : y # o.id => r[y] = q[y]
    BY <1>1, <1>2
  <1>4. q[o.id] = Vals(p, o.id)
    <2>1. Vals(q, o.id) = q[o.id]
      BY <1>1 DEF Vals
    <2> QED
      BY <1>1, <2>1
  <1>5. Vals(r, o.id) = Append(Vals(p, o.id), v)
    BY <1>1, <1>3, <1>4 DEF Vals
  <1>6. CASE x = o.id
    BY <1>5, <1>6 DEF r
  <1>7. CASE x # o.id
    <2>1. Vals(r, x) = Vals(q, x)
      BY <1>3, <1>7 DEF Vals
    <2> QED
      BY <1>1, <1>7, <2>1 DEF r
  <1> QED
    BY <1>6, <1>7

(* A sequence given by its elements becomes longer. *)
LEMMA Longer ==
    ASSUME NEW n \in Nat, NEW f, f = [m \in 1..n |-> f[m]], NEW v
    PROVE  Append(f, v) = [m \in 1..(n + 1) |-> IF m = n + 1 THEN v ELSE f[m]]
  <1> DEFINE S == {f[m] : m \in 1..n} \cup {v}
             g == [m \in 1..(n + 1) |-> IF m = n + 1 THEN v ELSE f[m]]
             a == Append(f, v)
  <1>1. \A m \in 1..n : f[m] \in S
    OBVIOUS
  <1>2. v \in S
    OBVIOUS
  <1> HIDE DEF S
  <1>3. f \in Seq(S) /\ Len(f) = n
    <2>1. f \in [1..n -> S]
      BY <1>1
    <2> QED
      BY <2>1
  <1>4. /\ a \in Seq(S) /\ Len(a) = n + 1
        /\ \A m \in 1..n : a[m] = f[m]
        /\ a[n + 1] = v
    BY <1>2, <1>3, AppendProperties
  <1> HIDE DEF a
  <1>5. a = [m \in 1..(n + 1) |-> a[m]]
    BY <1>4
  <1>6. \A m \in 1..(n + 1) : a[m] = IF m = n + 1 THEN v ELSE f[m]
    BY <1>4
  <1>7. a = g
    BY <1>5, <1>6
  <1> QED
    BY <1>7 DEF a

(* One argument more is considered. *)
LEMMA GivenStep ==
    ASSUME NEW opts, NEW l, NEW o, NEW n \in Nat
    PROVE  Given(opts, l, o, n + 1) =
             IF o.value /\ NamedAt(opts, l, o, n + 1) # {}
             THEN Append(Given(opts, l, o, n), ValueAt(opts, l, o, n + 1))
             ELSE Given(opts, l, o, n)
  <1> DEFINE S == GivenAt(opts, l, o, n)
             T == GivenAt(opts, l, o, n + 1)
             size == Cardinality(S)
             V(k) == ValueAt(opts, l, o, k)
  <1>1. S \in SUBSET Int /\ IsFiniteSet(S) /\ \A x \in S : x < n + 1
    <2>1. IsFiniteSet(1..n)
      BY FS_Interval
    <2>2. S \subseteq 1..n
      BY DEF GivenAt
    <2> HIDE DEF S
    <2>3. IsFiniteSet(S)
      BY <2>1, <2>2, FS_Subset
    <2> QED
      BY <2>2, <2>3
  <1>2. T = IF o.value /\ NamedAt(opts, l, o, n + 1) # {} THEN S \cup {n + 1} ELSE S
    <2>1. 1..(n + 1) = 1..n \cup {n + 1}
      OBVIOUS
    <2> DEFINE I == 1..n
               J == 1..(n + 1)
    <2>2. J = I \cup {n + 1}
      BY <2>1
    <2>3. /\ S = {k \in I : o.value /\ NamedAt(opts, l, o, k) # {}}
          /\ T = {k \in J : o.value /\ NamedAt(opts, l, o, k) # {}}
      BY DEF GivenAt
    <2> HIDE DEF I, J, S, T
    <2> QED
      BY <2>2, <2>3
  <1>3. size \in Nat
    BY <1>1, FS_CardinalityType
  <1>4. /\ Given(opts, l, o, n) = [m \in 1..Cardinality(S) |-> V(Nth(S, m))]
        /\ Given(opts, l, o, n + 1) = [m \in 1..Cardinality(T) |-> V(Nth(T, m))]
    BY DEF Given
  <1> HIDE DEF T
  <1>5. CASE o.value /\ NamedAt(opts, l, o, n + 1) # {}
    <2>1. T = S \cup {n + 1}
      BY <1>2, <1>5
    <2> DEFINE f == Given(opts, l, o, n)
               last == n + 1
    <2>2. last \in Int /\ \A x \in S : x < last
      BY <1>1
    <2> HIDE DEF S, last
    <2>3. /\ Cardinality(S \cup {last}) = Cardinality(S) + 1
          /\ \A m \in 1..Cardinality(S) : Nth(S \cup {last}, m) = Nth(S, m)
          /\ Nth(S \cup {last}, Cardinality(S) + 1) = last
      BY <1>1, <2>2, NthAdds
    <2>4. T = S \cup {last}
      BY <2>1 DEF last
    <2>5. f = [m \in 1..size |-> f[m]] /\ \A m \in 1..size : f[m] = V(Nth(S, m))
      BY <1>4
    <2>6. Append(f, V(last)) = [m \in 1..(size + 1) |-> IF m = size + 1 THEN V(last) ELSE f[m]]
      <3> HIDE DEF f, size, V
      <3> QED
        BY <1>3, <2>5, Longer
    <2>7. \A m \in 1..(size + 1) : V(Nth(T, m)) = IF m = size + 1 THEN V(last) ELSE f[m]
      <3> TAKE m \in 1..(size + 1)
      <3>1. CASE m = size + 1
        BY <2>3, <2>4, <3>1
      <3>2. CASE m # size + 1
        <4>1. m \in 1..size
          <5> HIDE DEF size
          <5> QED
            BY <1>3, <3>2
        <4> QED
          BY <2>3, <2>4, <2>5, <3>2, <4>1
      <3> QED
        BY <3>1, <3>2
    <2>8. Cardinality(T) = size + 1
      BY <2>3, <2>4
    <2>9. Given(opts, l, o, n + 1) = Append(f, V(last))
      <3>1. Given(opts, l, o, n + 1) = [m \in 1..(size + 1) |-> V(Nth(T, m))]
        BY <1>4, <2>8
      <3> HIDE DEF size, V, f
      <3> QED
        BY <2>6, <2>7, <3>1, Zenon
    <2> QED
      BY <1>5, <2>9 DEF last
  <1>6. CASE ~(o.value /\ NamedAt(opts, l, o, n + 1) # {})
    <2>1. T = S
      BY <1>2, <1>6
    <2>2. Given(opts, l, o, n + 1) = Given(opts, l, o, n)
      BY <1>4, <2>1
    <2> QED
      BY <1>6, <2>2
  <1> QED
    BY <1>5, <1>6

LEMMA GivenNone ==
    ASSUME NEW opts, NEW l, NEW o
    PROVE  Given(opts, l, o, 0) = <<>>
  <1>1. GivenAt(opts, l, o, 0) = {}
    BY DEF GivenAt
  <1>2. Cardinality(GivenAt(opts, l, o, 0)) = 0
    BY <1>1, FS_EmptySet
  <1> QED
    BY <1>2 DEF Given

-----------------------------------------------------------------------------
(* Options: no two that are registered are the same. *)
Opts(opts) ==
    /\ opts \in Seq(Known)
    /\ \A j, k \in DOMAIN opts : j # k => ~Same(opts[j], opts[k])

LEMMA OptsPrepend ==
    ASSUME NEW opts, Opts(opts), NEW o \in Known, \A k \in DOMAIN opts : ~Same(o, opts[k])
    PROVE  Opts(<<o>> \o opts)
  <1> DEFINE r == <<o>> \o opts
             n == Len(opts)
  <1>1. opts \in Seq(Known) /\ n \in Nat /\ DOMAIN opts = 1..n
    BY DEF Opts
  <1>2. /\ r \in Seq(Known) /\ DOMAIN r = 1..(n + 1)
        /\ r[1] = o /\ \A k \in 2..(n + 1) : r[k] = opts[k - 1]
    BY <1>1
  <1> HIDE DEF r, n
  <1>3. ASSUME NEW j \in 1..(n + 1), NEW k \in 1..(n + 1), j < k
        PROVE  ~Same(r[j], r[k]) /\ ~Same(r[k], r[j])
    <2>1. k \in 2..(n + 1) /\ k - 1 \in 1..n
      BY <1>1, <1>3
    <2>2. r[k] = opts[k - 1]
      BY <1>2, <2>1
    <2>3. ~Same(r[j], r[k])
      <3>1. CASE j = 1
        BY <1>1, <1>2, <2>1, <2>2, <3>1
      <3>2. CASE j # 1
        <4>1. j \in 2..(n + 1) /\ j - 1 \in 1..n /\ j - 1 # k - 1
          BY <1>1, <1>3, <3>2
        <4>2. r[j] = opts[j - 1]
          BY <1>2, <4>1
        <4> QED
          BY <1>1, <2>1, <2>2, <4>1, <4>2 DEF Opts
      <3> QED
        BY <3>1, <3>2
    <2> QED
      BY <2>3 DEF Same
  <1>4. ASSUME NEW j \in 1..(n + 1), NEW k \in 1..(n + 1), j # k
        PROVE  ~Same(r[j], r[k])
    <2>1. j < k \/ k < j
      BY <1>1, <1>4
    <2> QED
      BY <1>3, <2>1
  <1> QED
    BY <1>2, <1>4 DEF Opts, r

LEMMA FirstIs ==
    ASSUME NEW k \in Int
    PROVE  Nth({k}, 1) = k
  <1> DEFINE S == {}
  <1>1. S \in SUBSET Int /\ IsFiniteSet(S) /\ Cardinality(S) = 0 /\ \A x \in S : x < k
    BY FS_EmptySet
  <1>2. S \cup {k} = {k}
    OBVIOUS
  <1> HIDE DEF S
  <1>3. Nth(S \cup {k}, Cardinality(S) + 1) = k
    BY <1>1, NthAdds
  <1>4. Cardinality(S) + 1 = 1
    BY <1>1
  <1> QED
    BY <1>2, <1>3, <1>4

LEMMA OneFound ==
    ASSUME NEW S \in SUBSET DOMAIN options, options \in Seq(Known),
           NEW k \in S, \A j \in S : j = k
    PROVE  FirstOf(S) = options[k]
  <1>1. S = {k} /\ k \in Int
    <2>1. k \in DOMAIN options /\ DOMAIN options = 1..Len(options)
      OBVIOUS
    <2> QED
      BY <2>1
  <1>2. Nth(S, 1) = k
    BY <1>1, FirstIs
  <1> QED
    BY <1>2 DEF FirstOf

(* o is the only option with the short form c. *)
OnlyOne(opts, o, c) ==
    o \in Range(opts) /\ o.short = c /\ \A q \in Range(opts) : q.short = c => q = o

LEMMA ShortIs ==
    ASSUME Opts(options), NEW c, c # NoShort
    PROVE  /\ FoundShort(c) = {} <=> ~IsShort(options, c)
           /\ FoundShort(c) # {} => OnlyOne(options, FirstOf(FoundShort(c)), c)
  <1>1. FoundShort(c) = {} <=> ~IsShort(options, c)
    BY DEF FoundShort, IsShort, Range
  <1>2. ASSUME FoundShort(c) # {}
        PROVE  OnlyOne(options, FirstOf(FoundShort(c)), c)
    <2>1. PICK k \in FoundShort(c) : TRUE
      BY <1>2
    <2>2. k \in DOMAIN options /\ options[k].short = c
      BY <2>1 DEF FoundShort
    <2>3. \A j \in DOMAIN options : options[j].short = c => j = k
      BY <2>2 DEF Opts, Same
    <2>4. FirstOf(FoundShort(c)) = options[k]
      <3> DEFINE S == FoundShort(c)
      <3>1. S \in SUBSET DOMAIN options /\ k \in S /\ \A j \in S : j = k
        BY <2>1, <2>3 DEF FoundShort
      <3>2. options \in Seq(Known)
        BY DEF Opts
      <3> HIDE DEF S
      <3>3. FirstOf(S) = options[k]
        BY <3>1, <3>2, OneFound
      <3> QED
        BY <3>3 DEF S
    <2>5. \A q \in Range(options) : q.short = c => q = options[k]
      BY <2>3 DEF Range
    <2>6. options[k] \in Range(options)
      BY <2>2 DEF Range
    <2> QED
      BY <2>2, <2>4, <2>5, <2>6 DEF OnlyOne
  <1> QED
    BY <1>1, <1>2

LEMMA PrefixOfItself ==
    ASSUME NEW S, NEW t \in Seq(S)
    PROVE  IsPrefix(t, t)
  BY DEF IsPrefix

LEMMA LongIs ==
    ASSUME Opts(options), NEW l, Unambiguous(options, l), NEW k \in DOMAIN l,
           l[k].form = "long", NEW S, l[k].text \in Seq(S)
    PROVE  /\ FoundLong(l[k].text) = {} => \A q \in Range(options) : q.long # l[k].text
           /\ FoundLong(l[k].text) # {} =>
                LET o == FirstOf(FoundLong(l[k].text))
                IN  /\ o \in Range(options) /\ o.long = l[k].text
                    /\ \A q \in Range(options) : q.long = l[k].text => q = o
  <1> DEFINE t == l[k].text
  <1>1. IsPrefix(t, t)
    BY PrefixOfItself
  <1>2. \A q \in Range(options) : IsPrefix(q.long, t) <=> q.long = t
    <2>1. \A q \in Range(options) : IsPrefix(q.long, t) => q.long = t
      BY DEF Unambiguous
    <2> QED
      BY <1>1, <2>1
  <1>3. \A q, r \in Range(options) : q.long = t /\ r.long = t => q = r
    <2>1. \A q, r \in Range(options) : q # r => ~IsPrefix(q.long, r.long)
      BY DEF Unambiguous
    <2> QED
      BY <1>1, <2>1
  <1> HIDE DEF t
  <1>4. FoundLong(t) = {j \in DOMAIN options : options[j].long = t}
    <2>1. \A j \in DOMAIN options : options[j] \in Range(options)
      BY DEF Range
    <2> QED
      BY <1>2, <2>1 DEF FoundLong, Matches
  <1>5. FoundLong(t) = {} => \A q \in Range(options) : q.long # t
    BY <1>4 DEF Range
  <1>6. ASSUME FoundLong(t) # {}
        PROVE  /\ FirstOf(FoundLong(t)) \in Range(options) /\ FirstOf(FoundLong(t)).long = t
               /\ \A q \in Range(options) : q.long = t => q = FirstOf(FoundLong(t))
    <2>1. PICK j \in DOMAIN options : options[j].long = t
      BY <1>4, <1>6
    <2>2. options[j] \in Range(options)
      BY <2>1 DEF Range
    <2>3. \A i \in DOMAIN options : options[i].long = t => i = j
      <3> TAKE i \in DOMAIN options
      <3> HAVE options[i].long = t
      <3>1. options[i] \in Range(options)
        BY DEF Range
      <3>2. options[i] = options[j]
        BY <1>3, <2>1, <2>2, <3>1
      <3> QED
        BY <3>2 DEF Opts, Same
    <2>4. FirstOf(FoundLong(t)) = options[j]
      <3> DEFINE F == FoundLong(t)
      <3>1. F \in SUBSET DOMAIN options /\ j \in F /\ \A i \in F : i = j
        BY <1>4, <2>1, <2>3
      <3>2. options \in Seq(Known)
        BY DEF Opts
      <3> HIDE DEF F
      <3>3. FirstOf(F) = options[j]
        BY <3>1, <3>2, OneFound
      <3> QED
        BY <3>3 DEF F
    <2> QED
      BY <1>3, <2>1, <2>2, <2>4
  <1> QED
    BY <1>5, <1>6 DEF t

LEMMA IdsDiffer ==
    ASSUME NEW opts, Opts(opts), NEW o \in Range(opts), NEW q \in Range(opts), o # q
    PROVE  o.id # q.id
  BY DEF Opts, Range, Same

-----------------------------------------------------------------------------
(* What is contained after n arguments; what the k-th argument adds to it.  *)
SoFar(opts, l, p, n) ==
    \A o \in Range(opts) :
       /\ o.id \in DOMAIN p <=> \E k \in 1..n : NamedAt(opts, l, o, k) # {}
       /\ Vals(p, o.id) = Given(opts, l, o, n)

(* From p to q the option o is named, if it is, and then given the value v. *)
Put(p, q, o, named, v) ==
    /\ o.id \in DOMAIN q <=> o.id \in DOMAIN p \/ named
    /\ Vals(q, o.id) = IF o.value /\ named THEN Append(Vals(p, o.id), v) ELSE Vals(p, o.id)

Adds(opts, l, p, q, k) ==
    \A o \in Range(opts) : Put(p, q, o, NamedAt(opts, l, o, k) # {}, ValueAt(opts, l, o, k))

LEMMA SoFarNothing ==
    ASSUME NEW opts, NEW l, NEW p, DOMAIN p = {}
    PROVE  SoFar(opts, l, p, 0)
  <1>1. \A o : Vals(p, o.id) = <<>> /\ Given(opts, l, o, 0) = <<>>
    BY GivenNone DEF Vals
  <1>2. 1..0 = {}
    OBVIOUS
  <1> QED
    BY <1>1, <1>2 DEF SoFar

LEMMA SoFarAdds ==
    ASSUME NEW opts, NEW l, NEW p, NEW q, NEW n \in Nat,
           SoFar(opts, l, p, n), Adds(opts, l, p, q, n + 1)
    PROVE  SoFar(opts, l, q, n + 1)
  <1> SUFFICES ASSUME NEW o \in Range(opts)
               PROVE  /\ o.id \in DOMAIN q <=> \E k \in 1..(n + 1) : NamedAt(opts, l, o, k) # {}
                      /\ Vals(q, o.id) = Given(opts, l, o, n + 1)
    BY DEF SoFar
  <1> DEFINE next == n + 1
             N(k) == NamedAt(opts, l, o, k) # {}
  <1>1. /\ o.id \in DOMAIN q <=> o.id \in DOMAIN p \/ N(next)
        /\ Vals(q, o.id) = IF o.value /\ N(next) THEN Append(Vals(p, o.id), ValueAt(opts, l, o, next))
                           ELSE Vals(p, o.id)
    BY DEF Adds, Put
  <1>2. /\ o.id \in DOMAIN p <=> \E k \in 1..n : N(k)
        /\ Vals(p, o.id) = Given(opts, l, o, n)
    BY DEF SoFar
  <1>3. Given(opts, l, o, next) = IF o.value /\ N(next)
                                  THEN Append(Given(opts, l, o, n), ValueAt(opts, l, o, next))
                                  ELSE Given(opts, l, o, n)
    BY GivenStep
  <1>4. 1..next = 1..n \cup {next}
    OBVIOUS
  <1> HIDE DEF N, next
  <1>5. (\E k \in 1..next : N(k)) <=> (\E k \in 1..n : N(k)) \/ N(next)
    BY <1>4, Zenon
  <1>6. o.id \in DOMAIN q <=> \E k \in 1..next : N(k)
    BY <1>1, <1>2, <1>5
  <1>7. Vals(q, o.id) = Given(opts, l, o, next)
    BY <1>1, <1>2, <1>3
  <1> QED
    BY <1>6, <1>7 DEF N, next

LEMMA AddsNone ==
    ASSUME NEW opts, NEW l, NEW p, NEW k, \A o \in Range(opts) : NamedAt(opts, l, o, k) = {}
    PROVE  Adds(opts, l, p, p, k)
  BY DEF Adds, Put

(* One option is named, and nothing else. *)
LEMMA PutOne ==
    ASSUME NEW opts, Opts(opts), NEW p, NEW q, NEW o \in Range(opts), NEW v,
           \/ ~o.value /\ q = Noted(p, o)
           \/ o.value /\ q = WithValue(p, o, v)
    PROVE  /\ Put(p, q, o, TRUE, v)
           /\ \A w : \A r \in Range(opts) : r # o => Put(p, q, r, FALSE, w)
  <1>1. /\ DOMAIN q = DOMAIN p \cup {o.id}
        /\ Vals(q, o.id) = IF o.value THEN Append(Vals(p, o.id), v) ELSE Vals(p, o.id)
        /\ \A id : id # o.id => Vals(q, id) = Vals(p, id)
    <2>1. CASE ~o.value /\ q = Noted(p, o)
      BY <2>1, NotedFacts
    <2>2. CASE o.value /\ q = WithValue(p, o, v)
      <3>1. /\ DOMAIN WithValue(p, o, v) = DOMAIN p \cup {o.id}
            /\ Vals(WithValue(p, o, v), o.id) = Append(Vals(p, o.id), v)
        <4>1. DOMAIN WithValue(p, o, v) = DOMAIN p \cup {o.id}
          BY ValueDomain
        <4>2. Vals(WithValue(p, o, v), o.id) = Append(Vals(p, o.id), v)
          BY ValueFacts
        <4> QED
          BY <4>1, <4>2
      <3>2. ASSUME NEW id, id # o.id
            PROVE  Vals(WithValue(p, o, v), id) = Vals(p, id)
        BY <3>2, ValueFacts
      <3> QED
        BY <2>2, <3>1, <3>2, Zenon
    <2> QED
      BY <2>1, <2>2
  <1>2. \A r \in Range(opts) : r # o => r.id # o.id
    BY IdsDiffer
  <1>3. Put(p, q, o, TRUE, v)
    BY <1>1 DEF Put
  <1>4. \A w : \A r \in Range(opts) : r # o => Put(p, q, r, FALSE, w)
    BY <1>1, <1>2 DEF Put
  <1> QED
    BY <1>3, <1>4

LEMMA LongAdds ==
    ASSUME Opts(options), NEW l, Unambiguous(options, l), NEW k \in DOMAIN l,
           l[k].form = "long", NEW S, l[k].text \in Seq(S), NEW q,
           LET found == FoundLong(l[k].text)
               o == FirstOf(found)
           IN  \/ found = {} /\ q = parsed
               \/ found # {} /\ ~o.value /\ q = Noted(parsed, o)
               \/ found # {} /\ o.value /\ q = WithValue(parsed, o, l[k].values[1])
    PROVE  Adds(options, l, parsed, q, k)
  <1> DEFINE t == l[k].text
             found == FoundLong(t)
             o == FirstOf(found)
  <1>1. \A r : NamedAt(options, l, r, k) # {} <=> r.long = t
    <2>1. l[k].form # "short" /\ 0 \in 0..Len(t)
      BY DEF t
    <2> QED
      BY <2>1 DEF NamedAt
  <1>2. \A r : ValueAt(options, l, r, k) = l[k].values[1]
    BY DEF ValueAt
  <1>3. CASE found = {}
    <2>1. \A r \in Range(options) : r.long # t
      BY <1>3, LongIs
    <2>2. \A r \in Range(options) : NamedAt(options, l, r, k) = {}
      BY <1>1, <2>1
    <2>3. q = parsed
      BY <1>3
    <2> QED
      BY <2>2, <2>3, AddsNone
  <1>4. CASE found # {}
    <2>1. o \in Range(options) /\ o.long = t /\ \A r \in Range(options) : r.long = t => r = o
      BY <1>4, LongIs
    <2>2. (~o.value /\ q = Noted(parsed, o)) \/ (o.value /\ q = WithValue(parsed, o, l[k].values[1]))
      BY <1>4
    <2> HIDE DEF o, t, found
    <2>3. /\ Put(parsed, q, o, TRUE, l[k].values[1])
          /\ \A w : \A r \in Range(options) : r # o => Put(parsed, q, r, FALSE, w)
      BY <2>1, <2>2, PutOne
    <2>4. ASSUME NEW r \in Range(options)
          PROVE  Put(parsed, q, r, NamedAt(options, l, r, k) # {}, ValueAt(options, l, r, k))
      <3>1. CASE r = o
        <4>1. (NamedAt(options, l, r, k) # {}) = TRUE
          BY <1>1, <2>1, <3>1
        <4> QED
          BY <1>2, <2>3, <3>1, <4>1, Zenon
      <3>2. CASE r # o
        <4>1. (NamedAt(options, l, r, k) # {}) = FALSE
          BY <1>1, <2>1, <3>2
        <4> QED
          BY <2>3, <3>2, <4>1, Zenon
      <3> QED
        BY <3>1, <3>2
    <2> QED
      BY <2>4 DEF Adds
  <1> QED
    BY <1>3, <1>4

-----------------------------------------------------------------------------
(* The short form: what has been read of it after i turns. *)
Named(opts, l, o, k, i) == NamedAt(opts, l, o, k) \cap 1..i # {}

Turned(opts, l, p, a, k, acc, i) ==
    /\ acc = [parsed |-> acc.parsed, args |-> acc.args, stop |-> acc.stop, threw |-> acc.threw]
    /\ acc.stop \in BOOLEAN /\ acc.threw \in BOOLEAN
    /\ ~acc.threw =>
         /\ acc.stop <=> \E j \in 1..i : ~IsShort(opts, l[k].text[j])
         /\ \A o \in Range(opts) :
              Put(p, acc.parsed, o, Named(opts, l, o, k, i), ValueAt(opts, l, o, k))
         /\ \/ acc.args = a
            \/ /\ i = Len(l[k].text) /\ Len(a) >= 2 /\ a[2].form = "word"
               /\ acc.args = Tail(a)

LEMMA NamedShort ==
    ASSUME NEW opts, NEW l, NEW k, l[k].form = "short", NEW o, NEW S, l[k].text \in Seq(S), NEW i
    PROVE  i \in NamedAt(opts, l, o, k) <=>
             /\ i \in 1..Len(l[k].text) /\ l[k].text[i] = o.short
             /\ \A j \in 1..(i - 1) : IsShort(opts, l[k].text[j])
  <1> DEFINE n == Len(l[k].text)
  <1>1. n \in Nat
    OBVIOUS
  <1>2. l[k].form # "long"
    OBVIOUS
  <1>3. i \in NamedAt(opts, l, o, k) <=>
          /\ i \in 0..n /\ i # 0 /\ l[k].text[i] = o.short
          /\ \A j \in 1..(i - 1) : IsShort(opts, l[k].text[j])
    BY <1>2 DEF NamedAt
  <1> HIDE DEF n
  <1>4. i \in 0..n /\ i # 0 <=> i \in 1..n
    BY <1>1
  <1> QED
    BY <1>3, <1>4, Zenon DEF n

(* One character more. *)
LEMMA NamedStep ==
    ASSUME NEW opts, NEW l, NEW k, l[k].form = "short", NEW o, NEW S, l[k].text \in Seq(S),
           NEW i \in 1..Len(l[k].text)
    PROVE  Named(opts, l, o, k, i) <=>
             \/ Named(opts, l, o, k, i - 1)
             \/ /\ l[k].text[i] = o.short
                /\ ~ \E j \in 1..(i - 1) : ~IsShort(opts, l[k].text[j])
  <1> DEFINE N == NamedAt(opts, l, o, k)
             A == 1..i
             B == 1..(i - 1)
  <1>1. i \in N <=> /\ l[k].text[i] = o.short
                    /\ ~ \E j \in 1..(i - 1) : ~IsShort(opts, l[k].text[j])
    <2>1. i \in N <=> /\ i \in 1..Len(l[k].text) /\ l[k].text[i] = o.short
                      /\ \A j \in 1..(i - 1) : IsShort(opts, l[k].text[j])
      BY NamedShort, Zenon
    <2> QED
      BY <2>1, Zenon
  <1>2. A = B \cup {i}
    OBVIOUS
  <1>3. Named(opts, l, o, k, i) <=> N \cap A # {}
    BY DEF Named
  <1>4. Named(opts, l, o, k, i - 1) <=> N \cap B # {}
    BY DEF Named
  <1> HIDE DEF N, A, B
  <1>5. N \cap A # {} <=> N \cap B # {} \/ i \in N
    BY <1>2
  <1> QED
    BY <1>1, <1>3, <1>4, <1>5

(* An option with a value is named once at most. *)
LEMMA OneNamed ==
    ASSUME NEW opts, NEW l, Unambiguous(opts, l), NEW k \in DOMAIN l, l[k].form = "short",
           NEW o \in Range(opts), o.value, NEW S, l[k].text \in Seq(S),
           NEW i \in 1..Len(l[k].text), l[k].text[i] = o.short,
           ~ \E j \in 1..(i - 1) : ~IsShort(opts, l[k].text[j])
    PROVE  /\ ~Named(opts, l, o, k, i - 1)
           /\ ValueAt(opts, l, o, k) = IF i = Len(l[k].text) THEN l[k + 1].text
                                       ELSE SubSeq(l[k].text, i + 1, Len(l[k].text))
  <1> DEFINE N == NamedAt(opts, l, o, k)
             n == Len(l[k].text)
  <1>1. i \in N
    <2>1. i \in N <=> /\ i \in 1..Len(l[k].text) /\ l[k].text[i] = o.short
                      /\ \A j \in 1..(i - 1) : IsShort(opts, l[k].text[j])
      BY NamedShort, Zenon
    <2> QED
      BY <2>1, Zenon
  <1>2. ASSUME NEW j \in N
        PROVE  j \in 1..n /\ l[k].text[j] = o.short
    <2>1. j \in N <=> /\ j \in 1..Len(l[k].text) /\ l[k].text[j] = o.short
                      /\ \A x \in 1..(j - 1) : IsShort(opts, l[k].text[x])
      BY NamedShort, Zenon
    <2> QED
      BY <1>2, <2>1, Zenon
  <1>3. TakesRest(opts, o.short) /\ IsShort(opts, o.short)
    BY DEF TakesRest, IsShort
  <1>4. \A x, y \in DOMAIN l[k].text : x < y /\ TakesRest(opts, l[k].text[x]) => ~IsShort(opts, l[k].text[y])
    BY DEF Unambiguous
  <1>5. DOMAIN l[k].text = 1..n /\ n \in Nat
    OBVIOUS
  <1> HIDE DEF N, n
  <1>6. \A x, y \in N : ~(x < y)
    BY <1>2, <1>3, <1>4, <1>5
  <1>7. ASSUME NEW j \in N
        PROVE  j = i
    <2>1. j \in Int /\ i \in Int
      BY <1>1, <1>2, <1>5
    <2> QED
      BY <1>1, <1>6, <2>1
  <1>8. ~Named(opts, l, o, k, i - 1)
    <2>1. i \notin 1..(i - 1)
      OBVIOUS
    <2> QED
      BY <1>7, <2>1 DEF Named, N
  <1>9. N = {i}
    BY <1>1, <1>7
  <1>10. (CHOOSE j \in N : TRUE) = i
    BY <1>9
  <1>11. ValueAt(opts, l, o, k) = IF i = n THEN l[k + 1].text ELSE SubSeq(l[k].text, i + 1, n)
    <2> DEFINE place == CHOOSE j \in NamedAt(opts, l, o, k) : TRUE
    <2>1. l[k].form # "long"
      OBVIOUS
    <2>2. ValueAt(opts, l, o, k) =
            IF l[k].form = "long" THEN l[k].values[1]
            ELSE IF place = n THEN l[k + 1].text ELSE SubSeq(l[k].text, place + 1, n)
      BY DEF ValueAt, n
    <2>3. place = i
      BY <1>10 DEF N
    <2> HIDE DEF place
    <2> QED
      BY <2>1, <2>2, <2>3, Zenon
  <1> QED
    BY <1>8, <1>11 DEF n

LEMMA TurnStep ==
    ASSUME Opts(options), NEW l, Unambiguous(options, l), NEW k \in DOMAIN l, l[k].form = "short",
           NEW S, l[k].text \in Seq(S), NoShort \notin Range(l[k].text),
           NEW i \in 1..Len(l[k].text), NEW p, NEW a, Len(a) >= 2 => a[2] = l[k + 1],
           NEW acc, Turned(options, l, p, a, k, acc, i - 1)
    PROVE  Turned(options, l, p, a, k, ShortTurn(l[k].text, acc, i), i)
  <1> DEFINE t == l[k].text
             n == Len(t)
             found == FoundShort(t[i])
             o == FirstOf(found)
             b == ShortTurn(t, acc, i)
             Was(r) == Named(options, l, r, k, i - 1)
             Is(r) == Named(options, l, r, k, i)
             V(r) == ValueAt(options, l, r, k)
             Stops(j) == ~IsShort(options, t[j])
             Before == \E j \in 1..(i - 1) : Stops(j)
  <1>1. n \in Nat /\ i \in 1..n /\ i - 1 # n
    OBVIOUS
  <1>2. /\ found = {} <=> Stops(i)
        /\ found # {} => OnlyOne(options, o, t[i])
    <2>1. t[i] # NoShort
      BY DEF Range
    <2> QED
      BY <2>1, ShortIs
  <1>3. \A r : Is(r) <=> Was(r) \/ (t[i] = r.short /\ ~Before)
    <2> TAKE r
    <2>1. Named(options, l, r, k, i) <=>
             \/ Named(options, l, r, k, i - 1)
             \/ /\ l[k].text[i] = r.short
                /\ ~ \E j \in 1..(i - 1) : ~IsShort(options, l[k].text[j])
      BY NamedStep, Zenon
    <2> QED
      BY <2>1
  <1>4. (\E j \in 1..i : Stops(j)) <=> Before \/ Stops(i)
    <2>1. 1..i = 1..(i - 1) \cup {i}
      OBVIOUS
    <2> DEFINE I == 1..i
               J == 1..(i - 1)
    <2>2. I = J \cup {i}
      BY <2>1
    <2> HIDE DEF I, J, Stops
    <2>3. (\E j \in I : Stops(j)) <=> (\E j \in J : Stops(j)) \/ Stops(i)
      BY <2>2, Zenon
    <2> QED
      BY <2>3 DEF I, J
  <1>5. /\ acc = [parsed |-> acc.parsed, args |-> acc.args, stop |-> acc.stop, threw |-> acc.threw]
        /\ acc.stop \in BOOLEAN /\ acc.threw \in BOOLEAN
        /\ ~acc.threw => /\ acc.stop <=> Before
                         /\ \A r \in Range(options) : Put(p, acc.parsed, r, Was(r), V(r))
                         /\ acc.args = a
    BY <1>1 DEF Turned
  <1>6. \A r : Was(r) \in BOOLEAN /\ Is(r) \in BOOLEAN
    BY DEF Named
  <1>7. IsShort(options, t[i]) => \E r \in Range(options) : r.short = t[i]
    BY DEF IsShort
  <1> DEFINE Result(x) ==
               /\ x = [parsed |-> x.parsed, args |-> x.args, stop |-> x.stop, threw |-> x.threw]
               /\ x.stop \in BOOLEAN /\ x.threw \in BOOLEAN
               /\ ~x.threw => /\ x.stop <=> Before \/ Stops(i)
                              /\ \A r \in Range(options) : Put(p, x.parsed, r, Is(r), V(r))
                              /\ \/ x.args = a
                                 \/ i = n /\ Len(a) >= 2 /\ a[2].form = "word" /\ x.args = Tail(a)
  <1>8. SUFFICES Result(b)
    BY <1>4 DEF Turned
  <1>9. CASE acc.stop \/ found = {}
    <2>1. b = [acc EXCEPT !.stop = TRUE]
      BY <1>9 DEF ShortTurn
    <2>2. /\ b = [parsed |-> acc.parsed, args |-> acc.args, stop |-> TRUE, threw |-> acc.threw]
      BY <1>5, <2>1
    <2>3. ASSUME ~acc.threw
          PROVE  /\ Before \/ Stops(i)
                 /\ \A r \in Range(options) : Put(p, acc.parsed, r, Is(r), V(r))
      <3>1. Before \/ Stops(i)
        BY <1>2, <1>5, <1>9, <2>3
      <3>2. \A r \in Range(options) : Is(r) <=> Was(r)
        <4>1. ASSUME NEW r \in Range(options), t[i] = r.short
              PROVE  ~Stops(i)
          BY <4>1 DEF IsShort
        <4> QED
          BY <1>3, <3>1, <4>1
      <3>3. ASSUME NEW r \in Range(options)
            PROVE  Put(p, acc.parsed, r, Is(r), V(r))
        <4>1. Put(p, acc.parsed, r, Was(r), V(r))
          BY <1>5, <2>3
        <4>2. Is(r) = Was(r)
          BY <1>6, <3>2
        <4> QED
          BY <4>1, <4>2, Zenon
      <3> QED
        BY <3>1, <3>3
    <2> HIDE DEF b, Before, Stops, Is, Was, V
    <2> QED
      BY <1>5, <2>2, <2>3
  <1>10. CASE ~acc.stop /\ found # {}
    <2>1. OnlyOne(options, o, t[i]) /\ ~Stops(i)
      BY <1>2, <1>10
    <2>2. o \in Range(options) /\ o.short = t[i] /\ \A r \in Range(options) : r.short = t[i] => r = o
      BY <2>1 DEF OnlyOne
    (* Whatever is done for o is the right thing. *)
    <2>3. ASSUME ~acc.threw, NEW q, NEW v,
                 \/ ~o.value /\ q = Noted(acc.parsed, o)
                 \/ o.value /\ q = WithValue(acc.parsed, o, v),
                 o.value => v = V(o)
          PROVE  \A r \in Range(options) : Put(p, q, r, Is(r), V(r))
      <3>1. /\ Put(acc.parsed, q, o, TRUE, v)
            /\ \A w : \A r \in Range(options) : r # o => Put(acc.parsed, q, r, FALSE, w)
        BY <2>2, <2>3, PutOne
      <3>2. ~Before /\ Is(o)
        BY <1>3, <1>5, <1>10, <2>2, <2>3
      <3>3. ~(o.value /\ Was(o))
        <4>1. CASE o.value
          BY <2>2, <3>2, <4>1, OneNamed
        <4> QED
          BY <4>1
      <3>4. Put(acc.parsed, q, o, TRUE, V(o))
        <4>1. CASE o.value
          BY <2>3, <3>1, <4>1
        <4>2. CASE ~o.value
          BY <3>1, <4>2 DEF Put
        <4> QED
          BY <4>1, <4>2
      <3>5. ASSUME NEW r \in Range(options)
            PROVE  Put(p, q, r, Is(r), V(r))
        <4>1. Put(p, acc.parsed, r, Was(r), V(r)) /\ Was(r) \in BOOLEAN
          BY <1>5, <1>6, <2>3
        <4>2. CASE r = o
          <5> HIDE DEF o, Is, Was, V
          <5> DEFINE was == Was(o)
                     value == V(o)
          <5>a. /\ Put(p, acc.parsed, o, was, value) /\ was \in BOOLEAN
                /\ Put(acc.parsed, q, o, TRUE, value) /\ ~(o.value /\ was /\ TRUE)
            BY <3>3, <3>4, <4>1, <4>2
          <5> HIDE DEF was, value
          <5>b. Put(p, q, o, was \/ TRUE, value)
            BY <5>a DEF Put
          <5>1. Put(p, q, o, Was(o) \/ TRUE, V(o))
            BY <5>b DEF was, value
          <5>2. (Was(o) \/ TRUE) = Is(o)
            BY <1>6, <3>2
          <5> QED
            BY <4>2, <5>1, <5>2
        <4>3. CASE r # o
          <5>1. Put(acc.parsed, q, r, FALSE, V(r))
            BY <3>1, <4>3
          <5>2. Is(r) <=> Was(r)
            BY <1>3, <2>2, <4>3
          <5> HIDE DEF o, Is, Was, V
          <5> DEFINE was == Was(r)
                     value == V(r)
          <5>a. /\ Put(p, acc.parsed, r, was, value) /\ was \in BOOLEAN
                /\ Put(acc.parsed, q, r, FALSE, value) /\ ~(r.value /\ was /\ FALSE)
            BY <4>1, <5>1
          <5> HIDE DEF was, value
          <5>b. Put(p, q, r, was \/ FALSE, value)
            BY <5>a DEF Put
          <5>3. Put(p, q, r, Was(r) \/ FALSE, V(r))
            BY <5>b DEF was, value
          <5>4. (Was(r) \/ FALSE) = Is(r)
            BY <1>6, <5>2
          <5> QED
            BY <5>3, <5>4
        <4> QED
          BY <4>2, <4>3
      <3> QED
        BY <3>5
    <2>4. CASE ~o.value
      <3>1. b = [acc EXCEPT !.parsed = Noted(@, o)]
        BY <1>10, <2>4 DEF ShortTurn
      <3>2. b = [parsed |-> Noted(acc.parsed, o), args |-> acc.args, stop |-> acc.stop, threw |-> acc.threw]
        BY <1>5, <3>1
      <3>3. ~acc.threw => \A r \in Range(options) : Put(p, Noted(acc.parsed, o), r, Is(r), V(r))
        BY <2>3, <2>4
      <3> HIDE DEF b, Before, Stops, Is, Was, V, o, found
      <3> QED
        BY <1>5, <1>10, <2>1, <3>2, <3>3
    <2>5. CASE o.value /\ i # n
      <3>0. i < n
        BY <1>1, <2>5
      <3> DEFINE v == SubSeq(t, i + 1, n)
      <3>1. b = [acc EXCEPT !.parsed = WithValue(@, o, v)]
        BY <1>10, <2>5, <3>0 DEF ShortTurn
      <3>2. b = [parsed |-> WithValue(acc.parsed, o, v), args |-> acc.args, stop |-> acc.stop, threw |-> acc.threw]
        BY <1>5, <3>1
      <3>3. ASSUME ~acc.threw
            PROVE  v = V(o)
        <4>1. ~Before
          BY <1>5, <1>10, <3>3
        <4>2. V(o) = IF i = n THEN l[k + 1].text ELSE SubSeq(t, i + 1, n)
          BY <2>2, <2>5, <4>1, OneNamed
        <4> QED
          BY <2>5, <4>2
      <3> HIDE DEF v
      <3>4. ~acc.threw => \A r \in Range(options) : Put(p, WithValue(acc.parsed, o, v), r, Is(r), V(r))
        BY <2>3, <2>5, <3>3
      <3> HIDE DEF b, Before, Stops, Is, Was, V, o, found
      <3> QED
        BY <1>5, <1>10, <2>1, <3>2, <3>4
    <2>6. CASE o.value /\ i = n
      <3> DEFINE v == acc.args[2].text
                 Lacks == Len(acc.args) < 2 \/ acc.args[2].form # "word"
      <3>1. b = IF Lacks THEN [acc EXCEPT !.parsed = Noted(@, o), !.threw = TRUE]
                ELSE [acc EXCEPT !.parsed = WithValue(@, o, v), !.args = Tail(@)]
        BY <1>1, <1>10, <2>6 DEF ShortTurn
      <3>2. CASE Lacks
        <4>1. b = [parsed |-> Noted(acc.parsed, o), args |-> acc.args, stop |-> acc.stop, threw |-> TRUE]
          BY <1>5, <3>1, <3>2
        <4> HIDE DEF b, Before, Stops, Is, Was, V, o, found
        <4> QED
          BY <1>5, <4>1
      <3>3. CASE ~Lacks
        <4>1. b = [parsed |-> WithValue(acc.parsed, o, v), args |-> Tail(acc.args), stop |-> acc.stop,
                   threw |-> acc.threw]
          BY <1>5, <3>1, <3>3
        <4>2. ASSUME ~acc.threw
              PROVE  v = V(o) /\ Len(a) >= 2 /\ a[2].form = "word" /\ acc.args = a
          <5>1. acc.args = a /\ ~Before
            BY <1>5, <1>10, <4>2
          <5>2. Len(a) >= 2 /\ a[2].form = "word" /\ v = l[k + 1].text
            <6>1. ~(Len(a) < 2) /\ a[2].form = "word" /\ v = a[2].text
              BY <3>3, <5>1
            <6> QED
              BY <6>1
          <5>3. V(o) = l[k + 1].text
            BY <2>2, <2>6, <5>1, OneNamed
          <5> QED
            BY <5>1, <5>2, <5>3
        <4> HIDE DEF v
        <4>3. ~acc.threw => \A r \in Range(options) : Put(p, WithValue(acc.parsed, o, v), r, Is(r), V(r))
          BY <2>3, <2>6, <4>2
        <4> HIDE DEF b, Before, Stops, Is, Was, V, o, found
        <4> QED
          BY <1>5, <1>10, <2>1, <2>6, <4>1, <4>2, <4>3
      <3> QED
        BY <3>2, <3>3
    <2> QED
      BY <2>4, <2>5, <2>6
  <1> QED
    BY <1>5, <1>9, <1>10

(* The turns of the loop, the first n of them. *)
Turns(f, chars, n) ==
    f = [i \in 0..n |-> IF i = 0 THEN [parsed |-> parsed, args |-> args, stop |-> FALSE, threw |-> FALSE]
                        ELSE ShortTurn(chars, f[i - 1], i)]

LEMMA TurnsFacts ==
    ASSUME NEW chars, NEW n \in Nat, NEW f, Turns(f, chars, n)
    PROVE  /\ f[0] = [parsed |-> parsed, args |-> args, stop |-> FALSE, threw |-> FALSE]
           /\ \A i \in 1..n : f[i] = ShortTurn(chars, f[i - 1], i)
  <1> DEFINE first == [parsed |-> parsed, args |-> args, stop |-> FALSE, threw |-> FALSE]
             Next(i) == ShortTurn(chars, f[i - 1], i)
             g == [i \in 0..n |-> IF i = 0 THEN first ELSE Next(i)]
  <1>1. f = g
    BY DEF Turns
  <1> HIDE DEF first, Next
  <1>2. g[0] = first /\ \A i \in 1..n : g[i] = Next(i)
    OBVIOUS
  <1> HIDE DEF g
  <1>3. f[0] = first /\ \A i \in 1..n : f[i] = Next(i)
    BY <1>1, <1>2
  <1> QED
    BY <1>3 DEF first, Next

LEMMA TurnsExist ==
    ASSUME NEW chars, NEW n \in Nat
    PROVE  \E f : Turns(f, chars, n)
  <1> DEFINE first == [parsed |-> parsed, args |-> args, stop |-> FALSE, threw |-> FALSE]
             Next(f, i) == ShortTurn(chars, f[i - 1], i)
             Good(f, m) == f = [i \in 0..m |-> IF i = 0 THEN first ELSE Next(f, i)]
             N == {m \in Nat : \E f : Good(f, m)}
  <1>1. 0 \in N
    <2> DEFINE f == [i \in 0..0 |-> first]
    <2>1. Good(f, 0)
      <3> HIDE DEF Next, first
      <3> QED
        OBVIOUS
    <2> QED
      BY <2>1
  <1>2. ASSUME NEW m \in N
        PROVE  m + 1 \in N
    <2>1. m \in Nat
      OBVIOUS
    <2>2. PICK f : Good(f, m)
      OBVIOUS
    <2> DEFINE V(i) == IF i = m + 1 THEN ShortTurn(chars, f[m], m + 1) ELSE f[i]
               g == [i \in 0..(m + 1) |-> V(i)]
    <2>3. /\ f[0] = first
          /\ \A i \in 1..m : f[i] = Next(f, i)
      <3> DEFINE h == [i \in 0..m |-> IF i = 0 THEN first ELSE Next(f, i)]
      <3>1. f = h
        BY <2>2
      <3> HIDE DEF first, Next
      <3>2. h[0] = first /\ \A i \in 1..m : h[i] = Next(f, i)
        BY <2>1
      <3> HIDE DEF h
      <3> QED
        BY <3>1, <3>2
    <2>4. \A i \in 0..(m + 1) : g[i] = V(i)
      OBVIOUS
    <2>5. \A i \in 0..(m + 1) : V(i) = IF i = 0 THEN first ELSE Next(g, i)
      <3> TAKE i \in 0..(m + 1)
      <3>1. CASE i = 0
        <4>1. V(i) = f[0]
          BY <2>1, <3>1
        <4> QED
          BY <2>3, <3>1, <4>1
      <3>2. CASE i = m + 1
        <4>1. i - 1 = m /\ m \in 0..(m + 1) /\ m # m + 1 /\ i # 0
          BY <2>1, <3>2
        <4>2. g[i - 1] = f[m]
          BY <2>4, <4>1
        <4>3. Next(g, i) = ShortTurn(chars, f[m], m + 1)
          BY <3>2, <4>2
        <4> QED
          BY <3>2, <4>1, <4>3
      <3>3. CASE i # 0 /\ i # m + 1
        <4>1. i \in 1..m /\ i - 1 \in 0..(m + 1) /\ i - 1 # m + 1
          BY <2>1, <3>3
        <4>2. g[i - 1] = f[i - 1]
          BY <2>4, <4>1
        <4>3. Next(g, i) = Next(f, i)
          BY <4>2
        <4>4. V(i) = f[i] /\ f[i] = Next(f, i)
          BY <2>3, <3>3, <4>1
        <4> QED
          BY <3>3, <4>3, <4>4
      <3> QED
        BY <3>1, <3>2, <3>3
    <2> HIDE DEF V, Next, first
    <2>6. Good(g, m + 1)
      BY <2>5
    <2> HIDE DEF g, Good
    <2> QED
      BY <2>1, <2>6
  <1> HIDE DEF N
  <1>3. n \in N
    BY <1>1, <1>2, Inductive DEF N
  <1>4. PICK f : Good(f, n)
    BY <1>3 DEF N
  <1>5. Turns(f, chars, n)
    BY <1>4 DEF Turns
  <1> QED
    BY <1>5

LEMMA ShortAdds ==
    ASSUME Opts(options), NEW l, Unambiguous(options, l), NEW k \in DOMAIN l, l[k].form = "short",
           NEW S, l[k].text \in Seq(S), NoShort \notin Range(l[k].text),
           Len(args) >= 2 => args[2] = l[k + 1]
    PROVE  LET acc == AfterTurns(l[k].text)
           IN  /\ acc.threw \in BOOLEAN
               /\ ~acc.threw =>
                    /\ Adds(options, l, parsed, acc.parsed, k)
                    /\ \/ acc.args = args
                       \/ Len(args) >= 2 /\ args[2].form = "word" /\ acc.args = Tail(args)
  <1> DEFINE t == l[k].text
             n == Len(t)
             turn == CHOOSE f : Turns(f, t, n)
             Good(i) == Turned(options, l, parsed, args, k, turn[i], i)
             N == {i \in Nat : i <= n => Good(i)}
  <1>1. n \in Nat
    OBVIOUS
  <1>2. AfterTurns(t) = turn[n]
    BY DEF AfterTurns, Turns
  <1>3. Turns(turn, t, n)
    BY <1>1, TurnsExist
  <1> HIDE DEF turn
  <1>4. /\ turn[0] = [parsed |-> parsed, args |-> args, stop |-> FALSE, threw |-> FALSE]
        /\ \A i \in 1..n : turn[i] = ShortTurn(t, turn[i - 1], i)
    <2> HIDE DEF t, n
    <2> QED
      BY <1>1, <1>3, TurnsFacts, Zenon
  <1>5. Good(0)
    <2> DEFINE acc == turn[0]
    <2>1. acc = [parsed |-> parsed, args |-> args, stop |-> FALSE, threw |-> FALSE]
      BY <1>4
    <2> HIDE DEF acc
    <2>2. /\ acc.parsed = parsed /\ acc.args = args /\ acc.stop = FALSE /\ acc.threw = FALSE
          /\ acc = [parsed |-> acc.parsed, args |-> acc.args, stop |-> acc.stop, threw |-> acc.threw]
      BY <2>1
    <2>3. 1..0 = {}
      OBVIOUS
    <2>4. \A o : ~Named(options, l, o, k, 0)
      BY <2>3 DEF Named
    <2>5. \A o \in Range(options) :
            Put(parsed, parsed, o, Named(options, l, o, k, 0), ValueAt(options, l, o, k))
      BY <2>4 DEF Put
    <2>6. Turned(options, l, parsed, args, k, acc, 0)
      BY <2>2, <2>3, <2>5 DEF Turned
    <2> QED
      BY <2>6 DEF acc
  <1>6. ASSUME NEW i \in Nat, Good(i), i + 1 <= n
        PROVE  Good(i + 1)
    <2> DEFINE j == i + 1
               acc == turn[i]
    <2>1. j \in 1..n /\ j - 1 = i
      BY <1>1, <1>6
    <2>2. turn[j] = ShortTurn(t, acc, j)
      BY <1>4, <2>1
    <2>3. Turned(options, l, parsed, args, k, acc, j - 1)
      BY <1>6, <2>1
    <2> HIDE DEF j, acc
    <2>4. Turned(options, l, parsed, args, k, ShortTurn(l[k].text, acc, j), j)
      BY <2>1, <2>3, TurnStep
    <2>5. Turned(options, l, parsed, args, k, turn[j], j)
      BY <2>2, <2>4
    <2> QED
      BY <2>5 DEF j
  <1>7. Good(n)
    <2>1. 0 \in N
      BY <1>5
    <2>2. ASSUME NEW i \in N
          PROVE  i + 1 \in N
      <3>1. i \in Nat /\ (i <= n => Good(i))
        OBVIOUS
      <3> HIDE DEF Good
      <3>2. i + 1 <= n => i <= n
        BY <1>1, <3>1
      <3> QED
        BY <1>6, <3>1, <3>2
    <2> HIDE DEF N
    <2>3. n \in N
      BY <1>1, <2>1, <2>2, Inductive DEF N
    <2> QED
      BY <1>1, <2>3 DEF N
  <1> DEFINE acc == turn[n]
  <1>8. Turned(options, l, parsed, args, k, acc, n)
    BY <1>7
  <1>9. \A o : Named(options, l, o, k, n) <=> NamedAt(options, l, o, k) # {}
    <2> TAKE o
    <2>1. \A i \in NamedAt(options, l, o, k) : i \in 1..n
      <3> TAKE i \in NamedAt(options, l, o, k)
      <3>1. i \in NamedAt(options, l, o, k) <=>
             /\ i \in 1..Len(l[k].text) /\ l[k].text[i] = o.short
             /\ \A j \in 1..(i - 1) : IsShort(options, l[k].text[j])
        BY NamedShort, Zenon
      <3> QED
        BY <3>1, Zenon
    <2> QED
      BY <2>1 DEF Named
  <1>10. ASSUME ~acc.threw
         PROVE  Adds(options, l, parsed, acc.parsed, k)
    <2>1. \A o \in Range(options) :
             Put(parsed, acc.parsed, o, Named(options, l, o, k, n), ValueAt(options, l, o, k))
      BY <1>8, <1>10 DEF Turned
    <2>2. \A o : Named(options, l, o, k, n) = (NamedAt(options, l, o, k) # {})
      BY <1>9 DEF Named
    <2>3. ASSUME NEW o \in Range(options)
          PROVE  Put(parsed, acc.parsed, o, NamedAt(options, l, o, k) # {}, ValueAt(options, l, o, k))
      BY <2>1, <2>2, Zenon
    <2> QED
      BY <2>3 DEF Adds
  <1>11. /\ acc.threw \in BOOLEAN
         /\ ~acc.threw => \/ acc.args = args
                          \/ Len(args) >= 2 /\ args[2].form = "word" /\ acc.args = Tail(args)
    BY <1>8 DEF Turned
  <1> QED
    BY <1>2, <1>10, <1>11

-----------------------------------------------------------------------------
(* The arguments that remain are those from a place on; what is contained   *)
(* is what has been given before it.                                        *)
Reached(opts, l, a, p, from) ==
    from \in 1..(Len(l) + 1) /\ a = SubSeq(l, from, Len(l)) /\ SoFar(opts, l, p, from - 1)

CliInv ==
    /\ Opts(options)
    /\ stage = "register" => DOMAIN parsed = {}
    /\ stage \in {"parse", "done"} => line \in Lines
    /\ stage \in {"parse", "done"} /\ Unambiguous(options, line) =>
         \E from : Reached(options, line, args, parsed, from)
    /\ stage = "done" => args = <<>>

LEMMA CliInvInit == CliInit => CliInv
  <1> SUFFICES ASSUME CliInit
               PROVE  CliInv
    OBVIOUS
  <1>1. Opts(options)
    BY DEF CliInit, Opts
  <1> QED
    BY <1>1 DEF CliInit, CliInv

LEMMA LineFacts ==
    ASSUME NEW l \in Lines
    PROVE  /\ l \in Seq(Range(l)) /\ Len(l) \in Nat /\ DOMAIN l = 1..Len(l)
           /\ \A k \in DOMAIN l : /\ l[k].text \in Seq(Range(l[k].text))
                                  /\ NoShort \notin Range(l[k].text)
  BY CliAssumption

LEMMA EmptyIs ==
    ASSUME NEW S, NEW a \in Seq(S)
    PROVE  a = <<>> <=> Len(a) = 0
  OBVIOUS

LEMMA RemainFacts ==
    ASSUME NEW l \in Lines, NEW from \in 1..(Len(l) + 1), NEW a, a = SubSeq(l, from, Len(l))
    PROVE  /\ a = <<>> <=> from = Len(l) + 1
           /\ a # <<>> => /\ from \in DOMAIN l /\ Head(a) = l[from]
                          /\ Tail(a) = SubSeq(l, from + 1, Len(l)) /\ from + 1 \in 1..(Len(l) + 1)
           /\ Len(a) >= 2 => from + 1 \in DOMAIN l /\ a[2] = l[from + 1]
  <1> DEFINE n == Len(l)
             S == Range(l)
  <1>1. l \in Seq(S) /\ n \in Nat /\ DOMAIN l = 1..n
    BY LineFacts
  <1> HIDE DEF S
  <1>2. from \in 1..(n + 1)
    OBVIOUS
  <1>3. \A i \in from..n : l[i] \in S
    BY <1>1, <1>2
  <1>4. /\ a \in Seq(S) /\ Len(a) = IF from <= n THEN n - from + 1 ELSE 0
        /\ \A i \in 1..Len(a) : a[i] = l[from + i - 1]
    <2>1. from \in Int /\ n \in Int
      BY <1>1, <1>2
    <2> QED
      BY <1>1, <1>2, <1>3, <2>1, SubSeqProperties
  <1>5. a = <<>> <=> from = n + 1
    <2>1. a = <<>> <=> Len(a) = 0
      BY <1>4, EmptyIs
    <2>2. from \in Int /\ from >= 1 /\ from <= n + 1
      BY <1>1, <1>2
    <2> HIDE DEF n
    <2>3. Len(a) = 0 <=> from = n + 1
      BY <1>1, <1>4, <2>2
    <2> QED
      BY <2>1, <2>3
  <1>6. ASSUME a # <<>>
        PROVE  /\ from \in 1..n /\ Head(a) = l[from]
               /\ Tail(a) = SubSeq(l, from + 1, n) /\ from + 1 \in 1..(n + 1)
    <2>1. from \in 1..n /\ n \in from..n /\ from + 1 \in 1..(n + 1)
      BY <1>1, <1>2, <1>5, <1>6
    <2> QED
      BY <1>1, <2>1, HeadTailOfSubSeq
  <1>7. ASSUME Len(a) >= 2
        PROVE  from + 1 \in 1..n /\ a[2] = l[from + 1]
    <2>1. 2 \in 1..Len(a) /\ from + 2 - 1 = from + 1 /\ from + 1 \in 1..n
      BY <1>1, <1>2, <1>4, <1>7
    <2> QED
      BY <1>4, <2>1
  <1> QED
    BY <1>1, <1>5, <1>6, <1>7

(* A turn of parse(): the argument at the place from has been dealt with. *)
LEMMA OneParsed ==
    ASSUME NEW l \in Lines, NEW opts, NEW a, NEW p, NEW q, NEW from,
           Reached(opts, l, a, p, from), a # <<>>, Adds(opts, l, p, q, from)
    PROVE  Reached(opts, l, Tail(a), q, from + 1)
  <1> DEFINE n == from - 1
             next == from + 1
  <1>0. from \in 1..(Len(l) + 1) /\ a = SubSeq(l, from, Len(l)) /\ SoFar(opts, l, p, n)
    BY DEF Reached
  <1>1. n \in Nat /\ n + 1 = from /\ next - 1 = from
    <2>1. Len(l) \in Nat
      BY LineFacts
    <2> QED
      BY <1>0, <2>1
  <1>2. Adds(opts, l, p, q, n + 1)
    BY <1>1
  <1>3. Tail(a) = SubSeq(l, next, Len(l)) /\ next \in 1..(Len(l) + 1)
    BY <1>0, RemainFacts
  <1> HIDE DEF n, next
  <1>4. SoFar(opts, l, q, n + 1)
    BY <1>0, <1>1, <1>2, SoFarAdds
  <1>5. SoFar(opts, l, q, next - 1)
    BY <1>1, <1>4
  <1>6. Reached(opts, l, Tail(a), q, next)
    BY <1>3, <1>5 DEF Reached
  <1> QED
    BY <1>6 DEF next

LEMMA WordAdds ==
    ASSUME NEW opts, NEW l, NEW p, NEW k, l[k].form = "word"
    PROVE  Adds(opts, l, p, p, k)
  <1>1. l[k].form # "long" /\ l[k].form # "short"
    OBVIOUS
  <1>2. \A o \in Range(opts) : NamedAt(opts, l, o, k) = {}
    BY <1>1 DEF NamedAt
  <1> QED
    BY <1>2, AddsNone

LEMMA ReachedFacts ==
    ASSUME NEW l \in Lines, NEW opts, NEW a, NEW p, NEW from, Reached(opts, l, a, p, from)
    PROVE  /\ a # <<>> => from \in DOMAIN l /\ Head(a) = l[from]
           /\ Len(a) >= 2 => a[2] = l[from + 1] /\ Tail(a) # <<>>
  <1> DEFINE n == Len(l)
             b == SubSeq(l, from + 1, n)
  <1>1. from \in 1..(n + 1) /\ a = SubSeq(l, from, n) /\ n \in Nat
    BY LineFacts DEF Reached
  <1>2. /\ a # <<>> => /\ from \in DOMAIN l /\ Head(a) = l[from]
                       /\ Tail(a) = b /\ from + 1 \in 1..(n + 1)
        /\ Len(a) >= 2 => from + 1 \in DOMAIN l /\ a[2] = l[from + 1]
    BY <1>1, RemainFacts
  <1>3. ASSUME Len(a) >= 2
        PROVE  Tail(a) # <<>>
    <2> DEFINE next == from + 1
    <2>1. a # <<>>
      BY <1>3
    <2>2. Tail(a) = SubSeq(l, next, n) /\ next \in 1..(n + 1) /\ next \in DOMAIN l
      BY <1>2, <1>3, <2>1
    <2>3. next # n + 1
      <3>1. DOMAIN l = 1..n
        BY LineFacts
      <3> HIDE DEF next, n
      <3> QED
        BY <1>1, <2>2, <3>1
    <2> DEFINE c == Tail(a)
    <2> HIDE DEF next
    <2>4. c = SubSeq(l, next, n)
      BY <2>2
    <2> HIDE DEF c
    <2>5. c = <<>> <=> next = n + 1
      BY <2>2, <2>4, RemainFacts
    <2> QED
      BY <2>3, <2>5 DEF c
  <1> QED
    BY <1>2, <1>3

LEMMA CliInvStep == CliInv /\ [CliNext]_cliVars => CliInv'
  <1> SUFFICES ASSUME CliInv, [CliNext]_cliVars
               PROVE  CliInv'
    OBVIOUS
  <1> USE DEF CliInv
  <1> DEFINE Parsed(p, rest) ==
               Unambiguous(options, line) =>
                 \E x : Reached(options, line, rest, p, x)
  <1>0. ASSUME stage = "parse", UNCHANGED <<options, line>>,
               stage' = "threw" \/ (stage' = "parse" /\ Parsed(parsed', args'))
        PROVE  CliInv'
    <2>1. CASE stage' = "threw"
      BY <1>0, <2>1
    <2>2. CASE stage' = "parse" /\ Parsed(parsed', args')
      <3>1. line \in Lines /\ Opts(options)
        BY <1>0
      <3> QED
        BY <1>0, <2>2, <3>1
    <2> QED
      BY <1>0, <2>1, <2>2
  <1>p. stage = "parse" => Opts(options) /\ line \in Lines /\ Parsed(parsed, args)
    OBVIOUS
  <1> HIDE DEF CliInv
  <1>1. CASE UNCHANGED cliVars
    BY <1>1 DEF CliInv, cliVars
  <1>2. CASE StartParse
    <2>1. /\ line' \in Lines /\ args' = line' /\ stage' = "parse" /\ options' = options /\ parsed' = parsed
          /\ Opts(options) /\ DOMAIN parsed = {}
      BY <1>2 DEF StartParse, CliInv
    <2> DEFINE l == line'
               n == Len(l)
    <2>2. SoFar(options, l, parsed, 0)
      BY <2>1, SoFarNothing
    <2>3. 1 \in 1..(n + 1) /\ l = SubSeq(l, 1, n)
      <3>1. l \in Seq(Range(l)) /\ n \in Nat
        BY <2>1, LineFacts
      <3> HIDE DEF l
      <3> QED
        BY <3>1
    <2>4. Reached(options, l, l, parsed, 1)
      <3>1. 1 - 1 = 0
        OBVIOUS
      <3> QED
        BY <2>2, <2>3, <3>1 DEF Reached
    <2> QED
      BY <2>1, <2>4 DEF CliInv
  <1>3. CASE ParseLong
    <2> DEFINE arg == Head(args)
               found == FoundLong(arg.text)
               o == FirstOf(found)
    <2>1. /\ stage = "parse" /\ args # <<>> /\ arg.form = "long"
          /\ args' = Tail(args) /\ options' = options /\ line' = line
          /\ \/ found = {} /\ parsed' = parsed /\ stage' = "parse"
             \/ found # {} /\ ~o.value /\ parsed' = Noted(parsed, o) /\ stage' = "parse"
             \/ found # {} /\ o.value /\ parsed' = WithValue(parsed, o, arg.values[1]) /\ stage' = "parse"
             \/ stage' = "threw"
      BY <1>3 DEF ParseLong
    <2>2. ASSUME stage' # "threw", Unambiguous(options, line)
          PROVE  \E x : Reached(options, line, args', parsed', x)
      <3>1. PICK from : Reached(options, line, args, parsed, from)
        BY <1>p, <2>1, <2>2
      <3>2. from \in DOMAIN line /\ arg = line[from]
        BY <1>p, <2>1, <3>1, ReachedFacts
      <3>3. line[from].text \in Seq(Range(line[from].text))
        BY <1>p, <2>1, <3>2, LineFacts
      <3>4. Adds(options, line, parsed, parsed', from)
        <4> DEFINE f == FoundLong(line[from].text)
        <4>1. \/ f = {} /\ parsed' = parsed
              \/ f # {} /\ ~FirstOf(f).value /\ parsed' = Noted(parsed, FirstOf(f))
              \/ f # {} /\ FirstOf(f).value
                 /\ parsed' = WithValue(parsed, FirstOf(f), line[from].values[1])
          BY <2>1, <2>2, <3>2
        <4>2. Opts(options) /\ line[from].form = "long"
          BY <1>p, <2>1, <3>2
        <4> QED
          BY <2>2, <3>2, <3>3, <4>1, <4>2, LongAdds
      <3>5. Reached(options, line, Tail(args), parsed', from + 1)
        BY <1>p, <2>1, <3>1, <3>4, OneParsed
      <3> QED
        BY <2>1, <3>5
    <2>3. stage' # "threw" => stage' = "parse"
      BY <2>1
    <2> QED
      BY <1>0, <2>1, <2>2, <2>3
  <1>4. CASE ParseShort
    <2> DEFINE acc == AfterTurns(Head(args).text)
    <2>1. /\ stage = "parse" /\ args # <<>> /\ Head(args).form = "short"
          /\ parsed' = acc.parsed /\ args' = Tail(acc.args)
          /\ stage' = IF acc.threw THEN "threw" ELSE stage
          /\ options' = options /\ line' = line
      BY <1>4 DEF ParseShort
    <2>2. ASSUME stage' # "threw", Unambiguous(options, line)
          PROVE  \E x : Reached(options, line, args', parsed', x)
      <3>1. PICK from : Reached(options, line, args, parsed, from)
        BY <1>p, <2>1, <2>2
      <3>2. /\ from \in DOMAIN line /\ Head(args) = line[from]
            /\ Len(args) >= 2 => args[2] = line[from + 1] /\ Tail(args) # <<>>
        BY <1>p, <2>1, <3>1, ReachedFacts
      <3>3. /\ line[from].text \in Seq(Range(line[from].text))
            /\ NoShort \notin Range(line[from].text) /\ line[from].form = "short" /\ Opts(options)
        BY <1>p, <2>1, <3>2, LineFacts
      <3>4. acc = AfterTurns(line[from].text)
        BY <3>2
      <3>5. ~acc.threw
        BY <2>1, <2>2
      <3> HIDE DEF acc
      <3>6. /\ Adds(options, line, parsed, acc.parsed, from)
            /\ \/ acc.args = args
               \/ Len(args) >= 2 /\ args[2].form = "word" /\ acc.args = Tail(args)
        BY <2>2, <3>2, <3>3, <3>4, <3>5, ShortAdds
      <3>7. Reached(options, line, Tail(args), parsed', from + 1)
        BY <1>p, <2>1, <3>1, <3>6, OneParsed
      <3>8. CASE acc.args = args
        BY <2>1, <3>7, <3>8
      <3>9. CASE Len(args) >= 2 /\ args[2].form = "word" /\ acc.args = Tail(args)
        <4> DEFINE next == from + 1
                   rest == Tail(args)
        <4>1. Reached(options, line, rest, parsed', next) /\ rest # <<>>
          BY <3>2, <3>7, <3>9
        <4>2. line[next].form = "word"
          BY <3>2, <3>9
        <4> HIDE DEF next, rest
        <4>3. Adds(options, line, parsed', parsed', next)
          BY <4>2, WordAdds
        <4>4. Reached(options, line, Tail(rest), parsed', next + 1)
          BY <1>p, <2>1, <4>1, <4>3, OneParsed
        <4>5. args' = Tail(rest)
          BY <2>1, <3>9 DEF rest
        <4> QED
          BY <4>4, <4>5
      <3> QED
        BY <3>6, <3>8, <3>9
    <2>3. stage' # "threw" => stage' = "parse"
      BY <2>1
    <2> QED
      BY <1>0, <2>1, <2>2, <2>3
  <1>5. CASE SkipWord
    <2>1. /\ stage = "parse" /\ args # <<>> /\ Head(args).form = "word"
          /\ args' = Tail(args) /\ stage' = "parse"
          /\ options' = options /\ line' = line /\ parsed' = parsed
      BY <1>5 DEF SkipWord
    <2>2. ASSUME Unambiguous(options, line)
          PROVE  \E x : Reached(options, line, args', parsed', x)
      <3>1. PICK from : Reached(options, line, args, parsed, from)
        BY <1>p, <2>1, <2>2
      <3>2. Head(args) = line[from]
        BY <1>p, <2>1, <3>1, ReachedFacts
      <3>3. Adds(options, line, parsed, parsed, from)
        BY <2>1, <3>2, WordAdds
      <3>4. Reached(options, line, Tail(args), parsed, from + 1)
        BY <1>p, <2>1, <3>1, <3>3, OneParsed
      <3> QED
        BY <2>1, <3>4
    <2> QED
      BY <1>0, <2>1, <2>2
  <1>6. CASE EndParse
    BY <1>6 DEF EndParse, CliInv
  <1>7. ASSUME NEW o \in Known, ConstructFails(o) \/ Register(o) \/ RegisterAgain(o)
        PROVE  CliInv'
    <2>1. CASE stage' = "threw" /\ UNCHANGED <<options, line, args, parsed>>
      BY <2>1 DEF CliInv
    <2>2. CASE Register(o)
      <3>1. /\ stage = "register" /\ stage' = "register" /\ parsed' = parsed
            /\ options' = <<o>> \o options /\ \A k \in DOMAIN options : ~Same(o, options[k])
        BY <2>2 DEF Register
      <3>2. Opts(options) /\ DOMAIN parsed = {}
        BY <3>1 DEF CliInv
      <3>3. Opts(<<o>> \o options)
        BY <3>1, <3>2, OptsPrepend
      <3> QED
        BY <3>1, <3>2, <3>3 DEF CliInv
    <2> QED
      BY <1>7, <2>1, <2>2 DEF ConstructFails, RegisterAgain
  <1> QED
    BY <1>1, <1>2, <1>3, <1>4, <1>5, <1>6, <1>7 DEF CliNext

LEMMA FoundHeld == CliInv => OptionsFound
  <1> SUFFICES ASSUME CliInv, stage = "done", Unambiguous(options, line), NEW o \in Range(options)
               PROVE  /\ o.id \in DOMAIN parsed <=> \E k \in DOMAIN line : NamedAt(options, line, o, k) # {}
                      /\ o.id \in DOMAIN parsed => parsed[o.id] = Given(options, line, o, Len(line))
    BY DEF OptionsFound, ContainsOption, OptionValues
  <1>1. PICK from : Reached(options, line, args, parsed, from)
    BY DEF CliInv
  <1> DEFINE n == Len(line)
  <1>2. line \in Lines /\ args = <<>>
    BY DEF CliInv
  <1>3. n \in Nat /\ DOMAIN line = 1..n
    BY <1>2, LineFacts
  <1>4. from = n + 1
    <2>1. from \in 1..(Len(line) + 1) /\ args = SubSeq(line, from, Len(line))
      BY <1>1 DEF Reached
    <2> QED
      BY <1>2, <2>1, RemainFacts
  <1>5. SoFar(options, line, parsed, n)
    <2>1. from - 1 = n
      <3> HIDE DEF n
      <3> QED
        BY <1>3, <1>4
    <2> QED
      BY <1>1, <2>1 DEF Reached
  <1> QED
    BY <1>3, <1>5 DEF SoFar, Vals

(* When a command line that can be read in one way has been parsed, an      *)
(* option is contained exactly if it was given, with exactly the values     *)
(* that were given for it, in their order: for any options and lines.       *)
THEOREM OptionsAreFound == CliSpec => []OptionsFound
<1>1. CliInit => CliInv
  BY CliInvInit
<1>2. CliInv /\ [CliNext]_cliVars => CliInv'
  BY CliInvStep
<1>3. CliInv => OptionsFound
  BY FoundHeld
<1> QED
  BY <1>1, <1>2, <1>3, PTL DEF CliSpec

-----------------------------------------------------------------------------
(* Serializer (BinaryCodec).                                                *)

(* An iteration: n steps from a base in a set that the steps do not leave.  *)
Iterates(f, n, base, step) == \A i \in 0..n : f[i] = IF i = 0 THEN base ELSE step[i][f[i - 1]]

LEMMA Iterated ==
    ASSUME NEW n \in Nat, NEW V, NEW base \in V, NEW step \in [1..n -> [V -> V]]
    PROVE  \E f \in [0..n -> V] : Iterates(f, n, base, step)
  <1> DEFINE Good(f, k) == /\ f \in [0..k -> V]
                           /\ \A i \in 0..k : f[i] = IF i = 0 THEN base ELSE step[i][f[i - 1]]
             N == {k \in Nat : k <= n => \E f : Good(f, k)}
  <1>1. 0 \in N
    <2>1. Good([i \in 0..0 |-> base], 0)
      OBVIOUS
    <2> QED
      BY <2>1
  <1>2. ASSUME NEW k \in N
        PROVE  k + 1 \in N
    <2> SUFFICES ASSUME k + 1 <= n
                 PROVE  \E f : Good(f, k + 1)
      OBVIOUS
    <2>1. PICK f : Good(f, k)
      OBVIOUS
    <2> DEFINE h == [i \in 0..(k + 1) |-> IF i = k + 1 THEN step[k + 1][f[k]] ELSE f[i]]
    <2>2. k \in 0..k /\ f[k] \in V /\ step[k + 1] \in [V -> V]
      BY <2>1
    <2>3. h \in [0..(k + 1) -> V]
      BY <2>1, <2>2
    <2>4. ASSUME NEW i \in 0..(k + 1)
          PROVE  h[i] = IF i = 0 THEN base ELSE step[i][h[i - 1]]
      <3>1. CASE i = k + 1
        <4>1. i # 0 /\ i - 1 = k /\ i - 1 \in 0..(k + 1) /\ i - 1 # k + 1
          BY <3>1
        <4>2. h[i - 1] = f[k] /\ h[i] = step[k + 1][f[k]]
          BY <3>1, <4>1
        <4> QED
          BY <3>1, <4>1, <4>2, Zenon
      <3>2. CASE i # k + 1
        <4>1. i \in 0..k
          BY <3>2
        <4>2. h[i] = f[i]
          BY <3>2
        <4>3. i # 0 => i - 1 \in 0..(k + 1) /\ i - 1 # k + 1
          BY <4>1
        <4>4. i # 0 => h[i - 1] = f[i - 1]
          BY <4>3
        <4> HIDE DEF h
        <4>5. f[i] = IF i = 0 THEN base ELSE step[i][f[i - 1]]
          BY <2>1, <4>1
        <4> QED
          BY <4>2, <4>4, <4>5, Zenon
      <3> QED
        BY <3>1, <3>2
    <2> HIDE DEF h
    <2>5. Good(h, k + 1)
      BY <2>3, <2>4
    <2> QED
      BY <2>5
  <1> HIDE DEF N
  <1>3. \A k \in Nat : k \in N
    <2>1. N \in SUBSET Nat
      BY DEF N
    <2> QED
      BY <1>1, <1>2, <2>1, Inductive
  <1> QED
    BY <1>3 DEF N, Iterates

-----------------------------------------------------------------------------
(* The sum of the first k of some numbers. *)
Upto(g, k) == Total(g, 1..k)

LEMMA UptoAdds ==
    ASSUME NEW n \in Nat, NEW g, \A i \in 1..n : g[i] \in Nat
    PROVE  /\ Upto(g, 0) = 0
           /\ \A k \in 0..n : Upto(g, k) \in Nat
           /\ \A k \in 1..n : Upto(g, k) = Upto(g, k - 1) + g[k]
  <1> DEFINE S == 1..n
  <1>1. IsFiniteSet(S)
    BY FS_Interval
  <1>2. \A x \in S : g[x] \in Nat
    OBVIOUS
  <1> HIDE DEF S
  <1>3. /\ Total(g, {}) = 0
        /\ \A s \in SUBSET S : Total(g, s) \in Nat
        /\ \A s \in SUBSET S, x \in S : x \notin s => Total(g, s \cup {x}) = Total(g, s) + g[x]
    BY <1>1, <1>2, TotalAdds
  <1>4. Upto(g, 0) = 0
    <2>1. 1..0 = {}
      OBVIOUS
    <2> QED
      BY <1>3, <2>1, Zenon DEF Upto
  <1>5. ASSUME NEW k \in 0..n
        PROVE  Upto(g, k) \in Nat
    <2>1. 1..k \in SUBSET S
      BY DEF S
    <2> QED
      BY <1>3, <2>1, Zenon DEF Upto
  <1>6. ASSUME NEW k \in 1..n
        PROVE  Upto(g, k) = Upto(g, k - 1) + g[k]
    <2>1. 1..(k - 1) \in SUBSET S /\ k \in S /\ k \notin 1..(k - 1)
      BY DEF S
    <2>2. 1..k = 1..(k - 1) \cup {k}
      OBVIOUS
    <2>3. Total(g, 1..(k - 1) \cup {k}) = Total(g, 1..(k - 1)) + g[k]
      BY <1>3, <2>1, Zenon
    <2> QED
      BY <2>2, <2>3, Zenon DEF Upto
  <1> QED
    BY <1>4, <1>5, <1>6

LEMMA UptoGrows ==
    ASSUME NEW n \in Nat, NEW g, \A i \in 1..n : g[i] \in Nat
    PROVE  \A k \in 0..n : \A j \in 0..k : Upto(g, j) <= Upto(g, k)
  <1>1. /\ \A k \in 0..n : Upto(g, k) \in Nat
        /\ \A k \in 1..n : Upto(g, k) = Upto(g, k - 1) + g[k]
    BY UptoAdds
  <1> DEFINE N == {k \in Nat : k <= n => \A j \in 0..k : Upto(g, j) <= Upto(g, k)}
  <1>2. 0 \in N
    BY <1>1
  <1>3. ASSUME NEW k \in N
        PROVE  k + 1 \in N
    <2> SUFFICES ASSUME k + 1 <= n, NEW j \in 0..(k + 1)
                 PROVE  Upto(g, j) <= Upto(g, k + 1)
      OBVIOUS
    <2>1. Upto(g, k + 1) \in Nat /\ Upto(g, k) \in Nat /\ g[k + 1] \in Nat
      BY <1>1
    <2>2. k + 1 \in 1..n /\ (k + 1) - 1 = k
      OBVIOUS
    <2>3. Upto(g, k + 1) = Upto(g, k) + g[k + 1]
      BY <1>1, <2>2
    <2>4. CASE j = k + 1
      BY <2>1, <2>4
    <2>5. CASE j \in 0..k
      <3>1. Upto(g, j) <= Upto(g, k) /\ Upto(g, j) \in Nat
        BY <1>1, <2>5
      <3> QED
        BY <2>1, <2>3, <3>1
    <2> QED
      BY <2>4, <2>5
  <1> HIDE DEF N
  <1>4. \A k \in Nat : k \in N
    <2>1. N \in SUBSET Nat
      BY DEF N
    <2> QED
      BY <1>2, <1>3, <2>1, Inductive
  <1> QED
    BY <1>4 DEF N

(* The members' sizes are added as the sum of the numbers is. *)
LEMMA SumIsUpto ==
    ASSUME NEW n \in Nat, NEW sizes, DOMAIN sizes = 1..n, \A i \in 1..n : sizes[i] \in Nat
    PROVE  SumOf(sizes) = Upto(sizes, n)
  <1>1. IsFiniteSet(1..n)
    BY FS_Interval
  <1>2. MapThenSumSet(LAMBDA i : sizes[i], 1..n) = Total(sizes, 1..n)
    BY <1>1, TotalOf
  <1> QED
    BY <1>2 DEF SumOf, Upto

(* The pieces of a sequence, one after the other: where each one ends. *)
Lengths(pieces) == [i \in 1..Len(pieces) |-> Len(pieces[i])]
EndOf(pieces, k) == Upto(Lengths(pieces), k)
Placed(s, pieces, k) ==
    \A i \in 1..k : \A j \in 1..Len(pieces[i]) : s[EndOf(pieces, i - 1) + j] = pieces[i][j]

LEMMA EndsAdd ==
    ASSUME NEW S, NEW pieces \in Seq(Seq(S))
    PROVE  /\ EndOf(pieces, 0) = 0
           /\ \A k \in 0..Len(pieces) : EndOf(pieces, k) \in Nat
           /\ \A k \in 1..Len(pieces) : EndOf(pieces, k) = EndOf(pieces, k - 1) + Len(pieces[k])
           /\ \A k \in 0..Len(pieces) : \A j \in 0..k : EndOf(pieces, j) <= EndOf(pieces, k)
  <1> DEFINE n == Len(pieces)
             g == Lengths(pieces)
  <1>1. n \in Nat /\ \A i \in 1..n : pieces[i] \in Seq(S)
    OBVIOUS
  <1>2. \A i \in 1..n : g[i] = Len(pieces[i]) /\ g[i] \in Nat
    BY <1>1 DEF Lengths
  <1> HIDE DEF n, g
  <1>3. /\ Upto(g, 0) = 0
        /\ \A k \in 0..n : Upto(g, k) \in Nat
        /\ \A k \in 1..n : Upto(g, k) = Upto(g, k - 1) + g[k]
    BY <1>1, <1>2, UptoAdds
  <1>4. \A k \in 0..n : \A j \in 0..k : Upto(g, j) <= Upto(g, k)
    BY <1>1, <1>2, UptoGrows
  <1> QED
    BY <1>2, <1>3, <1>4, Zenon DEF EndOf, n, g

LEMMA FlattenExists ==
    ASSUME NEW S, NEW pieces \in Seq(Seq(S)), pieces # <<>>
    PROVE  \E f \in [1..Len(pieces) -> Seq(S)] :
             /\ f[1] = pieces[1]
             /\ \A i \in 2..Len(pieces) : f[i] = f[i - 1] \o pieces[i]
             /\ FlattenSeq(pieces) = f[Len(pieces)]
  <1> DEFINE n == Len(pieces)
             step == [i \in 1..n |-> [v \in Seq(S) |-> v \o pieces[i]]]
  <1>1. n \in Nat /\ n # 0 /\ \A i \in 1..n : pieces[i] \in Seq(S)
    BY EmptySeq
  <1>2. step \in [1..n -> [Seq(S) -> Seq(S)]]
    BY <1>1
  <1>3. <<>> \in Seq(S)
    OBVIOUS
  <1>4. \A i \in 1..n : \A v \in Seq(S) : step[i][v] = v \o pieces[i]
    OBVIOUS
  <1> HIDE DEF n, step
  <1> DEFINE V == Seq(S)
             none == <<>>
  <1>a. step \in [1..n -> [V -> V]] /\ none \in V /\ n \in Nat
    BY <1>1, <1>2, <1>3
  <1> HIDE DEF V, none
  <1>b. \E f \in [0..n -> V] : Iterates(f, n, none, step)
    BY <1>a, Iterated
  <1> USE DEF V, none
  <1>5. PICK f \in [0..n -> Seq(S)] :
          \A i \in 0..n : f[i] = IF i = 0 THEN <<>> ELSE step[i][f[i - 1]]
    BY <1>b, Zenon DEF Iterates
  <1>6. ASSUME NEW i \in 1..n
        PROVE  f[i] = f[i - 1] \o pieces[i]
    <2>1. i \in 0..n /\ i # 0 /\ i - 1 \in 0..n
      BY <1>1
    <2>2. f[i - 1] \in Seq(S)
      BY <2>1
    <2>3. f[i] = step[i][f[i - 1]]
      BY <1>5, <2>1
    <2> QED
      BY <1>4, <2>2, <2>3
  <1>7. f[1] = pieces[1]
    <2>1. 1 \in 1..n /\ 0 \in 0..n
      BY <1>1
    <2>2. f[1] = f[0] \o pieces[1] /\ f[0] = <<>>
      <3>1. f[0] = <<>>
        BY <1>5, <2>1, Zenon
      <3>2. f[1] = f[1 - 1] \o pieces[1]
        BY <1>6, <2>1, Zenon
      <3>3. 1 - 1 = 0
        OBVIOUS
      <3> QED
        BY <3>1, <3>2, <3>3, Zenon
    <2>3. pieces[1] \in Seq(S)
      BY <1>1, <2>1
    <2> QED
      BY <2>2, <2>3
  <1> DEFINE Solves(g) == g = [i \in 1..n |-> IF i = 1 THEN pieces[i] ELSE g[i - 1] \o pieces[i]]
             h == [i \in 1..n |-> f[i]]
             flatten == CHOOSE g : Solves(g)
  <1>8. Solves(h)
    <2>1. ASSUME NEW i \in 1..n
          PROVE  h[i] = IF i = 1 THEN pieces[i] ELSE h[i - 1] \o pieces[i]
      <3>1. CASE i = 1
        BY <1>7, <3>1
      <3>2. CASE i # 1
        <4>1. i - 1 \in 1..n
          BY <3>2, <1>1
        <4>2. h[i - 1] = f[i - 1] /\ h[i] = f[i]
          BY <4>1
        <4> QED
          BY <1>6, <3>2, <4>2
      <3> QED
        BY <3>1, <3>2
    <2>2. h = [i \in 1..n |-> h[i]]
      OBVIOUS
    <2> HIDE DEF h
    <2> QED
      BY <2>1, <2>2, Zenon
  <1>9. Solves(flatten)
    BY <1>8, Zenon
  <1>10. FlattenSeq(pieces) = flatten[n]
    BY <1>1 DEF FlattenSeq, n
  <1> HIDE DEF flatten
  <1>11. \A i \in 1..n : flatten[i] = IF i = 1 THEN pieces[i] ELSE flatten[i - 1] \o pieces[i]
    BY <1>9
  <1> HIDE DEF Solves, h
  <1> DEFINE N == {i \in Nat : i \in 1..n => flatten[i] = f[i]}
  <1>12. 0 \in N
    OBVIOUS
  <1>13. ASSUME NEW i \in N
         PROVE  i + 1 \in N
    <2> SUFFICES ASSUME i + 1 \in 1..n
                 PROVE  flatten[i + 1] = f[i + 1]
      OBVIOUS
    <2>1. CASE i = 0
      <3>1. i + 1 = 1
        BY <2>1
      <3>2. flatten[1] = pieces[1]
        BY <1>11, <3>1
      <3> QED
        BY <1>7, <3>1, <3>2, Zenon
    <2>2. CASE i # 0
      <3>1. i \in 1..n /\ (i + 1) - 1 = i /\ i + 1 # 1
        BY <1>1, <2>2
      <3>2. flatten[i] = f[i]
        BY <3>1
      <3>3. flatten[i + 1] = flatten[i] \o pieces[i + 1]
        BY <1>11, <3>1
      <3>4. f[i + 1] = f[i] \o pieces[i + 1]
        BY <1>6, <3>1
      <3> QED
        BY <3>2, <3>3, <3>4, Zenon
    <2> QED
      BY <2>1, <2>2
  <1> HIDE DEF N
  <1>14. \A k \in Nat : k \in N
    <2>1. N \in SUBSET Nat
      BY DEF N
    <2> QED
      BY <1>12, <1>13, <2>1, Inductive
  <1>15. \A i \in 1..n : flatten[i] = f[i]
    <2> TAKE i \in 1..n
    <2>1. i \in Nat
      OBVIOUS
    <2> QED
      BY <1>14, <2>1 DEF N
  <1>16. h \in [1..n -> Seq(S)] /\ \A i \in 1..n : h[i] = f[i]
    BY DEF h
  <1>17. 1 \in 1..n /\ n \in 1..n /\ \A i \in 2..n : i \in 1..n /\ i - 1 \in 1..n
    BY <1>1
  <1>18. h[1] = pieces[1] /\ FlattenSeq(pieces) = h[n]
    BY <1>7, <1>10, <1>15, <1>16, <1>17, Zenon
  <1>19. ASSUME NEW i \in 2..n
         PROVE  h[i] = h[i - 1] \o pieces[i]
    <2>1. f[i] = f[i - 1] \o pieces[i]
      BY <1>6, <1>17
    <2> QED
      BY <1>16, <1>17, <2>1, Zenon
  <1> QED
    BY <1>16, <1>18, <1>19, Zenon DEF n

(* One more piece behind those that are there. *)
LEMMA PlacedNext ==
    ASSUME NEW S, NEW pieces \in Seq(Seq(S)), NEW k \in 1..Len(pieces), NEW s \in Seq(S),
           Len(s) = EndOf(pieces, k - 1), Placed(s, pieces, k - 1)
    PROVE  Len(s \o pieces[k]) = EndOf(pieces, k) /\ Placed(s \o pieces[k], pieces, k)
  <1> DEFINE t == s \o pieces[k]
             n == Len(pieces)
             e == [i \in 0..n |-> EndOf(pieces, i)]
  <1>1. n \in Nat /\ k \in Nat /\ k - 1 \in 0..n /\ pieces[k] \in Seq(S)
    OBVIOUS
  <1>2. /\ \A i \in 0..n : e[i] = EndOf(pieces, i) /\ e[i] \in Nat
        /\ \A i \in 1..n : e[i] = e[i - 1] + Len(pieces[i])
        /\ \A i \in 0..n : \A j \in 0..i : e[j] <= e[i]
    <2>1. /\ \A i \in 0..n : EndOf(pieces, i) \in Nat
          /\ \A i \in 1..n : EndOf(pieces, i) = EndOf(pieces, i - 1) + Len(pieces[i])
          /\ \A i \in 0..n : \A j \in 0..i : EndOf(pieces, j) <= EndOf(pieces, i)
      BY EndsAdd, Zenon
    <2>2. \A i \in 0..n : e[i] = EndOf(pieces, i)
      OBVIOUS
    <2>3. \A i \in 1..n : i \in 0..n /\ i - 1 \in 0..n
      BY <1>1
    <2>4. \A i \in 0..n : \A j \in 0..i : j \in 0..n
      BY <1>1
    <2> HIDE DEF e, n
    <2>5. \A i \in 1..n : e[i] = e[i - 1] + Len(pieces[i])
      BY <2>1, <2>2, <2>3, Zenon
    <2>6. \A i \in 0..n : \A j \in 0..i : e[j] <= e[i]
      BY <2>1, <2>2, <2>4, Zenon
    <2> QED
      BY <2>1, <2>2, <2>5, <2>6, Zenon
  <1>3. /\ t \in Seq(S) /\ Len(t) = Len(s) + Len(pieces[k])
        /\ \A i \in 1..Len(s) : t[i] = s[i]
        /\ \A i \in 1..Len(pieces[k]) : t[Len(s) + i] = pieces[k][i]
    <2> DEFINE q == pieces[k]
    <2>1. q \in Seq(S)
      BY <1>1
    <2> HIDE DEF q
    <2>2. /\ Len(s \o q) = Len(s) + Len(q)
          /\ s \o q \in Seq(S)
          /\ \A i \in 1..Len(s \o q) : (s \o q)[i] = IF i <= Len(s) THEN s[i] ELSE q[i - Len(s)]
      BY <2>1, ConcatProperties
    <2>3. Len(s) \in Nat /\ Len(q) \in Nat
      BY <2>1
    <2>4. ASSUME NEW i \in 1..Len(s)
          PROVE  (s \o q)[i] = s[i]
      BY <2>2, <2>3
    <2>5. ASSUME NEW i \in 1..Len(q)
          PROVE  (s \o q)[Len(s) + i] = q[i]
      <3> DEFINE m == Len(s) + i
      <3>1. m \in 1..Len(s \o q) /\ ~ (m <= Len(s)) /\ m - Len(s) = i
        BY <2>2, <2>3
      <3> HIDE DEF m
      <3>2. (s \o q)[m] = IF m <= Len(s) THEN s[m] ELSE q[m - Len(s)]
        BY <2>2, <3>1, Zenon
      <3>3. (s \o q)[m] = q[m - Len(s)]
        BY <3>1, <3>2, Zenon
      <3> QED
        BY <3>1, <3>3, Zenon DEF m
    <2> QED
      BY <2>2, <2>4, <2>5, Zenon DEF q
  <1> HIDE DEF e, t
  <1>4. Len(s) = e[k - 1]
    BY <1>1, <1>2, Zenon
  <1>5. Len(t) = EndOf(pieces, k)
    <2>1. k \in 1..n /\ k \in 0..n
      BY <1>1
    <2> QED
      BY <1>2, <1>3, <1>4, <2>1, Zenon
  <1>6. ASSUME NEW i \in 1..k, NEW j \in 1..Len(pieces[i])
        PROVE  t[EndOf(pieces, i - 1) + j] = pieces[i][j]
    <2>1. i \in 1..n /\ i - 1 \in 0..n /\ i \in 0..n /\ i \in Nat
      BY <1>1
    <2>2. EndOf(pieces, i - 1) = e[i - 1]
      BY <1>2, <2>1
    <2>3. CASE i = k
      <3>1. j \in 1..Len(pieces[k])
        BY <2>3
      <3>2. t[Len(s) + j] = pieces[k][j]
        BY <1>3, <3>1
      <3> QED
        BY <1>4, <2>2, <2>3, <3>2, Zenon
    <2>4. CASE i # k
      <3>1. i \in 1..(k - 1) /\ i \in 0..(k - 1)
        BY <1>1, <2>4
      <3>2. s[EndOf(pieces, i - 1) + j] = pieces[i][j]
        BY <3>1, Zenon DEF Placed
      <3>3. e[i] <= e[k - 1] /\ e[i] = e[i - 1] + Len(pieces[i])
        BY <1>1, <1>2, <2>1, <3>1
      <3>4. e[i] \in Nat /\ e[i - 1] \in Nat /\ e[k - 1] \in Nat /\ Len(pieces[i]) \in Nat
        <4>1. e[i] \in Nat /\ e[i - 1] \in Nat /\ e[k - 1] \in Nat
          BY <1>1, <1>2, <2>1, Zenon
        <4>2. pieces[i] \in Seq(S)
          BY <2>1
        <4> QED
          BY <4>1, <4>2
      <3>5. e[i - 1] + j \in 1..Len(s)
        <4> DEFINE a == e[i - 1]
                   b == e[i]
                   c == e[k - 1]
                   l == Len(pieces[i])
        <4>1. b <= c /\ b = a + l /\ a \in Nat /\ b \in Nat /\ c \in Nat /\ l \in Nat /\ j \in 1..l
          BY <3>3, <3>4
        <4>2. Len(s) = c
          BY <1>4
        <4> HIDE DEF a, b, c, l
        <4>3. a + j \in 1..c
          BY <4>1
        <4> QED
          BY <4>2, <4>3 DEF a
      <3>6. t[e[i - 1] + j] = s[e[i - 1] + j]
        BY <1>3, <3>5
      <3> QED
        BY <2>2, <3>2, <3>6, Zenon
    <2> QED
      BY <2>3, <2>4
  <1> QED
    BY <1>5, <1>6, Zenon DEF t, Placed

LEMMA FlattenPlaces ==
    ASSUME NEW S, NEW pieces \in Seq(Seq(S))
    PROVE  /\ FlattenSeq(pieces) \in Seq(S)
           /\ Len(FlattenSeq(pieces)) = EndOf(pieces, Len(pieces))
           /\ Placed(FlattenSeq(pieces), pieces, Len(pieces))
  <1>0. EndOf(pieces, 0) = 0
    BY EndsAdd, Zenon
  <1>1. CASE pieces = <<>>
    <2>1. Len(pieces) = 0 /\ FlattenSeq(pieces) = pieces
      BY <1>1 DEF FlattenSeq
    <2>2. Placed(pieces, pieces, 0)
      BY DEF Placed
    <2>3. pieces \in Seq(S) /\ Len(pieces) = 0
      BY <1>1
    <2> QED
      BY <1>0, <2>1, <2>2, <2>3, Zenon
  <1>2. CASE pieces # <<>>
    <2> DEFINE n == Len(pieces)
    <2>1. n \in Nat /\ n # 0 /\ \A i \in 1..n : pieces[i] \in Seq(S)
      BY <1>2, EmptySeq
    <2>2. PICK f \in [1..n -> Seq(S)] : /\ f[1] = pieces[1]
                                        /\ \A i \in 2..n : f[i] = f[i - 1] \o pieces[i]
                                        /\ FlattenSeq(pieces) = f[n]
      BY <1>2, FlattenExists, Zenon
    <2> DEFINE Good(k) == Len(f[k]) = EndOf(pieces, k) /\ Placed(f[k], pieces, k)
               N == {k \in Nat : k + 1 \in 1..n => Good(k + 1)}
    <2>3. 0 \in N
      <3>1. 1 \in 1..n /\ 1 - 1 = 0 /\ 0 + 1 = 1
        BY <2>1
      <3>2. pieces[1] \in Seq(S) /\ <<>> \in Seq(S) /\ Len(<<>>) = 0
        BY <2>1, <3>1
      <3>3. <<>> \o pieces[1] = pieces[1]
        BY <3>2
      <3>4. Placed(<<>>, pieces, 0)
        BY DEF Placed
      <3> DEFINE none == <<>>
      <3>5. none \in Seq(S) /\ Len(none) = EndOf(pieces, 1 - 1) /\ Placed(none, pieces, 1 - 1)
        BY <1>0, <3>1, <3>2, <3>4, Zenon
      <3> HIDE DEF none
      <3>6. Len(none \o pieces[1]) = EndOf(pieces, 1) /\ Placed(none \o pieces[1], pieces, 1)
        BY <3>1, <3>5, PlacedNext
      <3>7. none \o pieces[1] = f[1]
        BY <2>2, <3>3, Zenon DEF none
      <3>8. Good(1)
        BY <3>6, <3>7, Zenon
      <3> QED
        BY <3>1, <3>8
    <2>4. ASSUME NEW m \in N
          PROVE  m + 1 \in N
      <3> SUFFICES ASSUME (m + 1) + 1 \in 1..n
                   PROVE  Good((m + 1) + 1)
        OBVIOUS
      <3> DEFINE k == m + 1
      <3>1. m \in Nat /\ k \in 1..n /\ k + 1 \in 1..n /\ (k + 1) - 1 = k /\ k + 1 \in 2..n /\ Good(k)
        BY <2>1
      <3> HIDE DEF k, N
      <3>2. f[k] \in Seq(S) /\ f[k + 1] = f[k] \o pieces[k + 1]
        BY <2>2, <3>1
      <3> DEFINE s == f[k]
                 p == k + 1
      <3>3. /\ p \in 1..Len(pieces) /\ s \in Seq(S)
            /\ Len(s) = EndOf(pieces, p - 1) /\ Placed(s, pieces, p - 1)
        BY <3>1, <3>2, Zenon
      <3>4. f[p] = s \o pieces[p]
        BY <3>2
      <3> HIDE DEF s, p
      <3>5. Len(s \o pieces[p]) = EndOf(pieces, p) /\ Placed(s \o pieces[p], pieces, p)
        BY <3>3, PlacedNext
      <3>6. Good(p)
        BY <3>4, <3>5, Zenon
      <3> QED
        BY <3>6, Zenon DEF p, k
    <2> HIDE DEF N
    <2>5. \A k \in Nat : k \in N
      <3>1. N \in SUBSET Nat
        BY DEF N
      <3> QED
        BY <2>3, <2>4, <3>1, Inductive
    <2>6. Good(n)
      <3>1. n - 1 \in Nat /\ (n - 1) + 1 = n /\ n \in 1..n
        BY <2>1
      <3>2. n - 1 \in N
        BY <2>5, <3>1
      <3> HIDE DEF Good, n
      <3>3. (n - 1) + 1 \in 1..n => Good((n - 1) + 1)
        BY <3>2 DEF N
      <3> QED
        BY <3>1, <3>3, Zenon
    <2>7. n \in 1..n
      BY <2>1
    <2>8. f[n] \in Seq(S)
      BY <2>2, <2>7
    <2> QED
      BY <2>2, <2>6, <2>8, Zenon
  <1> QED
    BY <1>1, <1>2

LEMMA TypeFacts ==
    ASSUME NEW t \in Types
    PROVE  /\ t.depth \in 0..MaxDepth
           /\ \/ t.kind = "flat" /\ t.size \in Nat
              \/ t.kind = "tuple" /\ t.of \in Seq({u \in Types : u.depth < t.depth})
              \/ t.kind = "list" /\ t.of \in {u \in Types : u.depth < t.depth} /\ t.room \in Int
  <1>1. IsType(t)
    BY CodecAssumption, Zenon
  <1> QED
    BY <1>1, Zenon DEF IsType

LEMMA TupleFacts ==
    ASSUME NEW t \in Types, t.kind = "tuple"
    PROVE  Len(t.of) \in Nat /\ \A i \in 1..Len(t.of) : t.of[i] \in Types /\ t.of[i].depth < t.depth
  <1> DEFINE S == {u \in Types : u.depth < t.depth}
  <1>1. t.of \in Seq(S)
    <2>1. ~ (t.kind = "flat") /\ ~ (t.kind = "list")
      OBVIOUS
    <2> QED
      BY TypeFacts, <2>1, Zenon
  <1>2. \A u \in S : u \in Types /\ u.depth < t.depth
    OBVIOUS
  <1> HIDE DEF S
  <1> QED
    BY <1>1, <1>2

LEMMA ListFacts ==
    ASSUME NEW t \in Types, t.kind = "list"
    PROVE  t.of \in Types /\ t.of.depth < t.depth /\ t.room \in Int
  <1>1. ~ (t.kind = "flat") /\ ~ (t.kind = "tuple")
    OBVIOUS
  <1>2. t.of \in {u \in Types : u.depth < t.depth} /\ t.room \in Int
    BY TypeFacts, <1>1, Zenon
  <1> QED
    BY <1>2, Zenon

LEMMA ThingFacts ==
    ASSUME NEW x \in Things
    PROVE  /\ x.type \in Types /\ Len(x.value) \in Nat
           /\ x.value = [i \in 1..Len(x.value) |-> x.value[i]]
           /\ x.type.kind \in {"flat", "tuple", "list"}
           /\ x.type.depth \in Nat /\ x.type.depth <= MaxDepth
           /\ x.type.kind = "flat" =>
                x.type.size = Len(x.value) /\ x.value \in Seq(Byte)
           /\ x.type.kind = "tuple" => Len(x.value) = Len(x.type.of)
           /\ x.type.kind = "list" =>
                x.type.room \notin 0..(Len(x.value) - 1) /\ Shifted(Len(x.value))[SizeWidth] = 0
  <1>1. IsThing(x)
    BY CodecAssumption, Zenon
  <1>2. /\ x.type \in Types /\ Len(x.value) \in Nat
        /\ x.value = [i \in 1..Len(x.value) |-> x.value[i]]
        /\ x.type.kind = "flat" =>
             Len(x.value) = x.type.size /\ \A i \in 1..Len(x.value) : x.value[i] \in Byte
        /\ x.type.kind = "tuple" => Len(x.value) = Len(x.type.of)
        /\ x.type.kind = "list" =>
             x.type.room \notin 0..(Len(x.value) - 1) /\ Shifted(Len(x.value))[SizeWidth] = 0
    BY <1>1, Zenon DEF IsThing
  <1>3. x.type.kind \in {"flat", "tuple", "list"}
    BY <1>2, TypeFacts, Zenon
  <1>4. x.type.depth \in Nat /\ x.type.depth <= MaxDepth
    <2>1. x.type.depth \in 0..MaxDepth /\ MaxDepth \in Nat
      BY <1>2, TypeFacts, CodecAssumption, Zenon
    <2> QED
      BY <2>1
  <1>5. x.type.kind = "flat" => x.value \in Seq(Byte)
    <2> SUFFICES ASSUME x.type.kind = "flat"
                 PROVE  x.value \in Seq(Byte)
      OBVIOUS
    <2> DEFINE n == Len(x.value)
               v == x.value
    <2>1. n \in Nat /\ v = [i \in 1..n |-> v[i]] /\ \A i \in 1..n : v[i] \in Byte
      BY <1>2, Zenon
    <2> HIDE DEF n, v
    <2>2. v \in [1..n -> Byte]
      BY <2>1
    <2>3. v \in Seq(Byte)
      BY <2>1, <2>2
    <2> QED
      BY <2>3 DEF v
  <1> QED
    BY <1>2, <1>3, <1>4, <1>5, Zenon

LEMMA MemberFacts ==
    ASSUME NEW x \in Things, x.type.kind # "flat", NEW i \in 1..Len(x.value)
    PROVE  /\ Members(x)[i] \in Things
           /\ Members(x)[i].type = PartType(x.type, i) /\ Members(x)[i].value = x.value[i]
           /\ PartType(x.type, i) \in Types
           /\ Members(x)[i].type.depth < x.type.depth
  <1>1. IsThing(x)
    BY CodecAssumption, Zenon
  <1>2. Members(x)[i] \in Things
    BY <1>1, Zenon DEF IsThing
  <1>3. Members(x)[i].type = PartType(x.type, i) /\ Members(x)[i].value = x.value[i]
    BY DEF Members
  <1>4. x.type \in Types /\ x.type.kind \in {"flat", "tuple", "list"}
        /\ (x.type.kind = "tuple" => Len(x.value) = Len(x.type.of))
    BY ThingFacts, Zenon
  <1>5. CASE x.type.kind = "tuple"
    <2>1. i \in 1..Len(x.type.of) /\ PartType(x.type, i) = x.type.of[i]
      BY <1>4, <1>5, Zenon DEF PartType
    <2>2. PartType(x.type, i) \in Types /\ PartType(x.type, i).depth < x.type.depth
      BY <1>4, <1>5, <2>1, TupleFacts, Zenon
    <2> QED
      BY <1>2, <1>3, <2>2, Zenon
  <1>6. CASE x.type.kind = "list"
    <2>1. x.type.kind # "tuple"
      BY <1>6
    <2>2. PartType(x.type, i) = x.type.of
      BY <2>1, Zenon DEF PartType
    <2>3. PartType(x.type, i) \in Types /\ PartType(x.type, i).depth < x.type.depth
      BY <1>4, <1>6, <2>2, ListFacts, Zenon
    <2> QED
      BY <1>2, <1>3, <2>3, Zenon
  <1> QED
    BY <1>4, <1>5, <1>6, Zenon

-----------------------------------------------------------------------------
(* A function of the things by the values it has for their members. *)
ForMembers(f, x) ==
    IF x.type.kind = "flat" THEN <<>> ELSE [i \in 1..Len(x.value) |-> f[Members(x)[i]]]
Structural(f, step) == \A x \in Things : f[x] = step[x][ForMembers(f, x)]

LEMMA ForMembersTyped ==
    ASSUME NEW V, NEW f \in [Things -> V], NEW x \in Things
    PROVE  ForMembers(f, x) \in Seq(V)
  <1>1. CASE x.type.kind = "flat"
    BY <1>1 DEF ForMembers
  <1>2. CASE x.type.kind # "flat"
    <2> DEFINE n == Len(x.value)
               v == ForMembers(f, x)
    <2>1. n \in Nat
      BY ThingFacts, Zenon
    <2>2. ASSUME NEW i \in 1..n
          PROVE  f[Members(x)[i]] \in V
      <3>1. Members(x)[i] \in Things
        BY <1>2, MemberFacts, Zenon
      <3> QED
        BY <3>1
    <2>3. v = [i \in 1..n |-> f[Members(x)[i]]]
      BY <1>2, Zenon DEF ForMembers
    <2> HIDE DEF n, v
    <2>4. v \in Seq(V)
      BY <2>1, <2>2, <2>3
    <2> QED
      BY <2>4 DEF v
  <1> QED
    BY <1>1, <1>2

LEMMA ForMembersSame ==
    ASSUME NEW f, NEW h, NEW x \in Things, NEW n,
           \A y \in Things : y.type.depth < n => f[y] = h[y],
           x.type.kind = "flat" \/ \A i \in 1..Len(x.value) : Members(x)[i].type.depth < n
    PROVE  ForMembers(f, x) = ForMembers(h, x)
  <1>1. CASE x.type.kind = "flat"
    BY <1>1, Zenon DEF ForMembers
  <1>2. CASE x.type.kind # "flat"
    <2>1. ASSUME NEW i \in 1..Len(x.value)
          PROVE  f[Members(x)[i]] = h[Members(x)[i]]
      <3>1. Members(x)[i] \in Things
        BY <1>2, MemberFacts, Zenon
      <3> QED
        BY <1>2, <3>1, Zenon
    <2>2. [i \in 1..Len(x.value) |-> f[Members(x)[i]]] = [i \in 1..Len(x.value) |-> h[Members(x)[i]]]
      BY <2>1, Zenon
    <2> QED
      BY <1>2, <2>2, Zenon DEF ForMembers
  <1> QED
    BY <1>1, <1>2

LEMMA StructuralExists ==
    ASSUME NEW V, NEW step \in [Things -> [Seq(V) -> V]]
    PROVE  \E f \in [Things -> V] : Structural(f, step)
  <1> DEFINE Good(f, n) ==
               /\ f \in [Things -> V]
               /\ \A x \in Things : x.type.depth < n => f[x] = step[x][ForMembers(f, x)]
             N == {n \in Nat : \E f : Good(f, n)}
  <1>0. \A x \in Things : x.type.depth \in Nat /\ x.type.depth <= MaxDepth
    BY ThingFacts, Zenon
  <1>1. 0 \in N
    <2> DEFINE none == <<>>
               f == [x \in Things |-> step[x][none]]
    <2>a. none \in Seq(V)
      OBVIOUS
    <2> HIDE DEF none
    <2>1. f \in [Things -> V]
      BY <2>a
    <2> HIDE DEF f
    <2>2. \A x \in Things : ~ (x.type.depth < 0)
      BY <1>0
    <2>3. Good(f, 0)
      BY <2>1, <2>2
    <2> QED
      BY <2>3
  <1>2. ASSUME NEW n \in N
        PROVE  n + 1 \in N
    <2>1. PICK f : Good(f, n)
      OBVIOUS
    <2> DEFINE h == [x \in Things |-> IF x.type.depth < n THEN f[x] ELSE step[x][ForMembers(f, x)]]
    <2>2. ASSUME NEW x \in Things
          PROVE  step[x][ForMembers(f, x)] \in V
      <3>1. ForMembers(f, x) \in Seq(V)
        BY <2>1, ForMembersTyped
      <3> QED
        BY <3>1
    <2>3. h \in [Things -> V]
      BY <2>1, <2>2
    <2>4. \A x \in Things : h[x] = IF x.type.depth < n THEN f[x] ELSE step[x][ForMembers(f, x)]
      OBVIOUS
    <2> HIDE DEF h
    <2>5. ASSUME NEW x \in Things, x.type.depth < n + 1
          PROVE  h[x] = step[x][ForMembers(h, x)]
      <3>1. x.type.kind = "flat" \/ \A i \in 1..Len(x.value) : Members(x)[i].type.depth < n
        <4> SUFFICES ASSUME x.type.kind # "flat"
                     PROVE  \A i \in 1..Len(x.value) : Members(x)[i].type.depth < n
          BY Zenon
        <4> TAKE i \in 1..Len(x.value)
        <4>1. Members(x)[i] \in Things /\ Members(x)[i].type.depth < x.type.depth
          BY MemberFacts, Zenon
        <4> DEFINE a == Members(x)[i].type.depth
                   b == x.type.depth
        <4>2. a \in Nat /\ b \in Nat /\ a < b /\ b < n + 1 /\ n \in Nat
          BY <1>0, <2>5, <4>1, Zenon
        <4> HIDE DEF a, b
        <4>3. a < n
          BY <4>2
        <4> QED
          BY <4>3 DEF a
      <3>2. \A y \in Things : y.type.depth < n => f[y] = h[y]
        BY <2>4, Zenon
      <3>3. ForMembers(f, x) = ForMembers(h, x)
        BY <3>1, <3>2, ForMembersSame
      <3>4. x.type.depth < n => f[x] = step[x][ForMembers(f, x)]
        BY <2>1, Zenon
      <3> QED
        BY <2>4, <3>3, <3>4, Zenon
    <2>6. Good(h, n + 1)
      BY <2>3, <2>5, Zenon
    <2> QED
      BY <2>6
  <1> HIDE DEF N
  <1>3. \A k \in Nat : k \in N
    <2>1. N \in SUBSET Nat
      BY DEF N
    <2> QED
      BY <1>1, <1>2, <2>1, Inductive
  <1>4. MaxDepth + 1 \in N /\ MaxDepth \in Nat
    BY <1>3, CodecAssumption
  <1>5. PICK f : Good(f, MaxDepth + 1)
    BY <1>4 DEF N
  <1>6. \A x \in Things : x.type.depth < MaxDepth + 1
    BY <1>0, <1>4
  <1>7. f \in [Things -> V] /\ Structural(f, step)
    BY <1>5, <1>6, Zenon DEF Structural
  <1> QED
    BY <1>7

(* A count: what is left of it, byte by byte. *)
LEMMA ShiftedFacts ==
    ASSUME NEW n \in Nat
    PROVE  /\ Shifted(n)[0] = n
           /\ \A i \in 0..SizeWidth : Shifted(n)[i] \in Nat
           /\ \A i \in 1..SizeWidth : Shifted(n)[i] = Shifted(n)[i - 1] \div 256
  <1> DEFINE V == Nat
             W == SizeWidth
             step == [i \in 1..W |-> [v \in V |-> v \div 256]]
             Solves(h) == h = [i \in 0..W |-> IF i = 0 THEN n ELSE h[i - 1] \div 256]
             high == CHOOSE h : Solves(h)
  <1>1. W \in Nat /\ n \in V
    BY CodecAssumption
  <1>2. \A i \in 1..W : \A v \in V : step[i][v] = v \div 256
    OBVIOUS
  <1>3. step \in [1..W -> [V -> V]]
    <2>1. \A v \in V : v \div 256 \in V
      OBVIOUS
    <2> QED
      BY <2>1
  <1> HIDE DEF V, W, step
  <1>4. PICK f \in [0..W -> V] : Iterates(f, W, n, step)
    BY <1>1, <1>3, Iterated
  <1>5. Solves(f)
    <2>1. ASSUME NEW i \in 0..W
          PROVE  f[i] = IF i = 0 THEN n ELSE f[i - 1] \div 256
      <3>1. f[i] = IF i = 0 THEN n ELSE step[i][f[i - 1]]
        BY <1>4 DEF Iterates
      <3>2. CASE i = 0
        BY <3>1, <3>2
      <3>3. CASE i # 0
        <4>1. i \in 1..W /\ i - 1 \in 0..W
          BY <1>1, <3>3
        <4> DEFINE v == f[i - 1]
        <4>2. v \in V
          BY <4>1
        <4>3. step[i][v] = v \div 256
          <5> HIDE DEF v
          <5> QED
            BY <1>2, <4>1, <4>2, Zenon
        <4> QED
          BY <3>1, <3>3, <4>3, Zenon
      <3> QED
        BY <3>2, <3>3
    <2>2. f = [i \in 0..W |-> f[i]]
      OBVIOUS
    <2> QED
      BY <2>1, <2>2, Zenon
  <1>6. Solves(high)
    BY <1>5, Zenon
  <1>7. Shifted(n) = high
    BY DEF Shifted, W
  <1> HIDE DEF high
  <1>8. \A i \in 0..W : high[i] = IF i = 0 THEN n ELSE high[i - 1] \div 256
    BY <1>6
  <1> HIDE DEF Solves
  <1>9. high[0] = n
    <2>1. 0 \in 0..W
      BY <1>1
    <2> QED
      BY <1>8, <2>1, Zenon
  <1>10. \A i \in 1..W : high[i] = high[i - 1] \div 256
    <2>1. \A i \in 1..W : i \in 0..W /\ i # 0
      BY <1>1
    <2> QED
      BY <1>8, <2>1, Zenon
  <1> DEFINE N == {i \in Nat : i <= W => high[i] \in Nat}
  <1>11. 0 \in N
    BY <1>9
  <1>12. ASSUME NEW i \in N
         PROVE  i + 1 \in N
    <2> SUFFICES ASSUME i + 1 <= W
                 PROVE  high[i + 1] \in Nat
      OBVIOUS
    <2>1. i + 1 \in 1..W /\ (i + 1) - 1 = i /\ high[i] \in Nat
      BY <1>1
    <2>2. high[i + 1] = high[i] \div 256
      BY <1>10, <2>1
    <2> QED
      BY <2>1, <2>2
  <1> HIDE DEF N
  <1>13. \A k \in Nat : k \in N
    <2>1. N \in SUBSET Nat
      BY DEF N
    <2> QED
      BY <1>11, <1>12, <2>1, Inductive
  <1>14. \A i \in 0..W : high[i] \in Nat
    BY <1>13 DEF N
  <1> QED
    BY <1>7, <1>9, <1>10, <1>14, Zenon DEF W

LEMMA CountBytes ==
    ASSUME NEW n \in Nat
    PROVE  /\ Count(n) \in Seq(Byte) /\ Len(Count(n)) = SizeWidth
           /\ \A i \in 1..SizeWidth : Count(n)[i] = Shifted(n)[i - 1] % 256
  <1> DEFINE W == SizeWidth
             s == Count(n)
             h == Shifted(n)
  <1>1. W \in Nat /\ \A i \in 0..W : h[i] \in Nat
    BY CodecAssumption, ShiftedFacts, Zenon
  <1>2. s = [i \in 1..W |-> h[i - 1] % 256]
    BY DEF Count
  <1> HIDE DEF W, s, h
  <1>3. ASSUME NEW i \in 1..W
        PROVE  h[i - 1] % 256 \in Byte
    <2>1. i - 1 \in 0..W
      BY <1>1
    <2>2. h[i - 1] \in Nat
      BY <1>1, <2>1
    <2> QED
      BY <2>2 DEF Byte
  <1>4. s \in Seq(Byte) /\ Len(s) = W
    BY <1>1, <1>2, <1>3
  <1>5. \A i \in 1..W : s[i] = h[i - 1] % 256
    BY <1>2
  <1> QED
    BY <1>4, <1>5, Zenon DEF W, s, h

(* What is read is the count that has been written. *)
LEMMA CountIsRead ==
    ASSUME NEW n \in Nat, Shifted(n)[SizeWidth] = 0, NEW s,
           \A i \in 1..SizeWidth : s[i] = Count(n)[i]
    PROVE  CountOf(s) = n
  <1> DEFINE W == SizeWidth
             h == Shifted(n)
             c == [k \in 0..W |-> h[W - k]]
             Above(k, v) == s[W - k + 1] + 256 * v
             Solves(g) == g = [k \in 0..W |-> IF k = 0 THEN 0 ELSE Above(k, g[k - 1])]
             high == CHOOSE g : Solves(g)
  <1>1. /\ W \in Nat /\ W # 0 /\ h[W] = 0 /\ h[0] = n
        /\ \A i \in 0..W : h[i] \in Nat
        /\ \A i \in 1..W : h[i] = h[i - 1] \div 256
        /\ \A i \in 1..W : s[i] = h[i - 1] % 256
    <2>1. W \in Nat /\ W # 0
      BY CodecAssumption
    <2>2. /\ h[0] = n
          /\ \A i \in 0..W : h[i] \in Nat
          /\ \A i \in 1..W : h[i] = h[i - 1] \div 256
      BY ShiftedFacts
    <2>3. \A i \in 1..W : s[i] = h[i - 1] % 256
      BY CountBytes
    <2> QED
      BY <2>1, <2>2, <2>3, Zenon
  <1> HIDE DEF W, h
  <1>2. ASSUME NEW k \in 1..W
        PROVE  h[W - k] = s[W - k + 1] + 256 * h[W - (k - 1)]
    <2> DEFINE i == W - k + 1
    <2>1. i \in 1..W /\ i - 1 \in 0..W /\ i - 1 = W - k /\ i = W - (k - 1)
      BY <1>1
    <2> HIDE DEF i
    <2>2. h[i] = h[i - 1] \div 256 /\ s[i] = h[i - 1] % 256 /\ h[i - 1] \in Nat
      BY <1>1, <2>1, Zenon
    <2> DEFINE v == h[i - 1]
    <2>3. v = (v % 256) + 256 * (v \div 256)
      <3>1. v \in Nat
        BY <2>2
      <3> HIDE DEF v
      <3> QED
        BY <3>1
    <2>4. v = s[i] + 256 * h[i]
      BY <2>2, <2>3, Zenon
    <2>5. h[W - k] = v
      BY <2>1, Zenon
    <2>6. h[W - (k - 1)] = h[i]
      BY <2>1, Zenon
    <2>7. s[W - k + 1] = s[i]
      BY DEF i
    <2> HIDE DEF v
    <2> QED
      BY <2>4, <2>5, <2>6, <2>7, Zenon
  <1>3. Solves(c)
    <2>1. ASSUME NEW k \in 0..W
          PROVE  c[k] = IF k = 0 THEN 0 ELSE s[W - k + 1] + 256 * c[k - 1]
      <3>1. CASE k = 0
        <4>1. W - k = W
          BY <1>1, <3>1
        <4>2. c[k] = h[W]
          BY <4>1
        <4> QED
          BY <1>1, <3>1, <4>2, Zenon
      <3>2. CASE k # 0
        <4>1. k \in 1..W /\ k - 1 \in 0..W
          BY <1>1, <3>2
        <4>2. c[k] = h[W - k] /\ c[k - 1] = h[W - (k - 1)]
          BY <4>1
        <4> HIDE DEF c
        <4> QED
          BY <1>2, <3>2, <4>1, <4>2
      <3> QED
        BY <3>1, <3>2
    <2>2. c = [k \in 0..W |-> c[k]]
      OBVIOUS
    <2> HIDE DEF c
    <2> QED
      BY <2>1, <2>2
  <1>4. Solves(high)
    BY <1>3, Zenon
  <1>5. CountOf(s) = high[W]
    BY DEF CountOf, W
  <1> HIDE DEF high
  <1>7. c[W] = n
    <2>1. W \in 0..W /\ W - W = 0
      BY <1>1
    <2> QED
      BY <1>1, <2>1
  <1> HIDE DEF c, Above
  <1>a. \A k \in 0..W : c[k] = IF k = 0 THEN 0 ELSE Above(k, c[k - 1])
    BY <1>3
  <1>b. \A k \in 0..W : high[k] = IF k = 0 THEN 0 ELSE Above(k, high[k - 1])
    BY <1>4
  <1>6. /\ \A k \in 0..W : c[k] = IF k = 0 THEN 0 ELSE Above(k, c[k - 1])
        /\ \A k \in 0..W : high[k] = IF k = 0 THEN 0 ELSE Above(k, high[k - 1])
    BY <1>a, <1>b
  <1> HIDE DEF Solves
  <1> DEFINE N == {k \in Nat : k <= W => high[k] = c[k]}
  <1>8. 0 \in N
    <2>1. 0 \in 0..W
      BY <1>1
    <2>2. high[0] = c[0]
      BY <1>6, <2>1
    <2> QED
      BY <2>2
  <1>9. ASSUME NEW k \in N
        PROVE  k + 1 \in N
    <2> SUFFICES ASSUME k + 1 <= W
                 PROVE  high[k + 1] = c[k + 1]
      OBVIOUS
    <2>1. k + 1 \in 0..W /\ k + 1 # 0 /\ (k + 1) - 1 = k /\ high[k] = c[k]
      BY <1>1
    <2> DEFINE m == k + 1
    <2>2. m \in 0..W /\ m # 0 /\ high[m - 1] = c[m - 1]
      BY <2>1
    <2> HIDE DEF m
    <2>3. high[m] = c[m]
      BY <1>6, <2>2
    <2> QED
      BY <2>3 DEF m
  <1> HIDE DEF N
  <1>10. \A k \in Nat : k \in N
    <2>1. N \in SUBSET Nat
      BY DEF N
    <2> QED
      BY <1>8, <1>9, <2>1, Inductive
  <1>11. high[W] = c[W]
    BY <1>1, <1>10 DEF N
  <1> QED
    BY <1>5, <1>7, <1>11, Zenon

MembersDecide(f, g) == \A x \in Things : ForMembers(f, x) = ForMembers(g, x) => f[x] = g[x]

LEMMA StructuralUnique ==
    ASSUME NEW f, NEW g, MembersDecide(f, g)
    PROVE  \A x \in Things : f[x] = g[x]
  <1> DEFINE N == {n \in Nat : \A x \in Things : x.type.depth < n => f[x] = g[x]}
  <1>0. \A x \in Things : x.type.depth \in Nat /\ x.type.depth <= MaxDepth
    BY ThingFacts, Zenon
  <1>1. 0 \in N
    <2>1. \A x \in Things : ~ (x.type.depth < 0)
      BY <1>0
    <2> QED
      BY <2>1
  <1>2. ASSUME NEW n \in N
        PROVE  n + 1 \in N
    <2>1. ASSUME NEW x \in Things, x.type.depth < n + 1
          PROVE  f[x] = g[x]
      <3>1. x.type.kind = "flat" \/ \A i \in 1..Len(x.value) : Members(x)[i].type.depth < n
        <4> SUFFICES ASSUME x.type.kind # "flat"
                     PROVE  \A i \in 1..Len(x.value) : Members(x)[i].type.depth < n
          BY Zenon
        <4> TAKE i \in 1..Len(x.value)
        <4>1. Members(x)[i] \in Things /\ Members(x)[i].type.depth < x.type.depth
          BY MemberFacts, Zenon
        <4> DEFINE a == Members(x)[i].type.depth
                   b == x.type.depth
        <4>2. a \in Nat /\ b \in Nat /\ a < b /\ b < n + 1 /\ n \in Nat
          BY <1>0, <2>1, <4>1, Zenon
        <4> HIDE DEF a, b
        <4>3. a < n
          BY <4>2
        <4> QED
          BY <4>3 DEF a
      <3>2. \A y \in Things : y.type.depth < n => f[y] = g[y]
        OBVIOUS
      <3>3. ForMembers(f, x) = ForMembers(g, x)
        BY <3>1, <3>2, ForMembersSame
      <3> QED
        BY <3>3, Zenon DEF MembersDecide
    <2> QED
      BY <2>1
  <1> HIDE DEF N
  <1>3. \A k \in Nat : k \in N
    <2>1. N \in SUBSET Nat
      BY DEF N
    <2> QED
      BY <1>1, <1>2, <2>1, Inductive
  <1>4. MaxDepth + 1 \in N /\ MaxDepth \in Nat
    BY <1>3, CodecAssumption
  <1>5. \A x \in Things : x.type.depth < MaxDepth + 1
    BY <1>0, <1>4
  <1> QED
    BY <1>4, <1>5 DEF N

-----------------------------------------------------------------------------
LEMMA SumTyped ==
    ASSUME NEW v \in Seq(Nat)
    PROVE  SumOf(v) \in Nat /\ SumOf(v) = Upto(v, Len(v))
  <1> DEFINE n == Len(v)
  <1>1. n \in Nat /\ DOMAIN v = 1..n /\ \A i \in 1..n : v[i] \in Nat
    OBVIOUS
  <1> HIDE DEF n
  <1>2. SumOf(v) = Upto(v, n)
    BY <1>1, SumIsUpto
  <1>3. \A k \in 0..n : Upto(v, k) \in Nat
    BY <1>1, UptoAdds
  <1>4. n \in 0..n
    BY <1>1
  <1> QED
    BY <1>2, <1>3, <1>4, Zenon DEF n

(* The bytes in front of the members. *)
HeadSize(x) == IF x.type.kind = "list" THEN SizeWidth ELSE 0
HeadBytes(x) == IF x.type.kind = "list" THEN Count(Len(x.value)) ELSE <<>>

LEMMA HeadFacts ==
    ASSUME NEW x \in Things
    PROVE  HeadSize(x) \in Nat /\ HeadBytes(x) \in Seq(Byte) /\ Len(HeadBytes(x)) = HeadSize(x)
  <1>1. Len(x.value) \in Nat
    BY ThingFacts, Zenon
  <1>2. CASE x.type.kind = "list"
    <2>1. Count(Len(x.value)) \in Seq(Byte) /\ Len(Count(Len(x.value))) = SizeWidth /\ SizeWidth \in Nat
      BY <1>1, CountBytes, CodecAssumption
    <2> QED
      BY <1>2, <2>1, Zenon DEF HeadSize, HeadBytes
  <1>3. CASE x.type.kind # "list"
    BY <1>3 DEF HeadSize, HeadBytes
  <1> QED
    BY <1>2, <1>3

LEMMA SizeOfFacts ==
    /\ SizeOf \in [Things -> Nat]
    /\ \A x \in Things : SizeOf[x] = IF x.type.kind = "flat" THEN x.type.size
                                     ELSE HeadSize(x) + SumOf(ForMembers(SizeOf, x))
  <1> DEFINE Val(x, v) == IF x.type.kind = "flat" THEN x.type.size ELSE HeadSize(x) + SumOf(v)
             step == [x \in Things |-> [v \in Seq(Nat) |-> Val(x, v)]]
             Solves(g) == g = [x \in Things |->
                 IF x.type.kind = "flat" THEN x.type.size
                 ELSE (IF x.type.kind = "list" THEN SizeWidth ELSE 0) +
                        SumOf([i \in 1..Len(x.value) |-> g[Members(x)[i]]])]
  <1>1. ASSUME NEW x \in Things, NEW v \in Seq(Nat)
        PROVE  Val(x, v) \in Nat
    <2>1. HeadSize(x) \in Nat /\ SumOf(v) \in Nat
      BY HeadFacts, SumTyped
    <2>2. x.type.kind = "flat" => x.type.size \in Nat
      <3>1. x.type.kind = "flat" => x.type.size = Len(x.value)
        BY ThingFacts, Zenon
      <3>2. Len(x.value) \in Nat
        BY ThingFacts, Zenon
      <3> QED
        BY <3>1, <3>2, Zenon
    <2> QED
      BY <2>1, <2>2
  <1>2. \A g, x : Val(x, ForMembers(g, x)) =
                    IF x.type.kind = "flat" THEN x.type.size
                    ELSE (IF x.type.kind = "list" THEN SizeWidth ELSE 0) +
                           SumOf([i \in 1..Len(x.value) |-> g[Members(x)[i]]])
    BY Zenon DEF ForMembers, HeadSize
  <1>3. step \in [Things -> [Seq(Nat) -> Nat]]
    <2> HIDE DEF Val
    <2> QED
      BY <1>1
  <1>4. \A x \in Things : \A v \in Seq(Nat) : step[x][v] = Val(x, v)
    <2> HIDE DEF Val
    <2> QED
      OBVIOUS
  <1> HIDE DEF step
  <1>5. PICK f \in [Things -> Nat] : Structural(f, step)
    BY <1>3, StructuralExists
  <1>6. \A x \in Things : f[x] = Val(x, ForMembers(f, x))
    <2> TAKE x \in Things
    <2>1. ForMembers(f, x) \in Seq(Nat)
      BY ForMembersTyped
    <2>2. f[x] = step[x][ForMembers(f, x)]
      BY <1>5, Zenon DEF Structural
    <2> QED
      BY <1>4, <2>1, <2>2, Zenon
  <1> HIDE DEF Val
  <1>7. Solves(f)
    <2>1. f = [x \in Things |-> f[x]]
      OBVIOUS
    <2>2. f = [x \in Things |-> Val(x, ForMembers(f, x))]
      BY <1>6, <2>1, Zenon
    <2>3. [x \in Things |-> Val(x, ForMembers(f, x))] = [x \in Things |->
                 IF x.type.kind = "flat" THEN x.type.size
                 ELSE (IF x.type.kind = "list" THEN SizeWidth ELSE 0) +
                        SumOf([i \in 1..Len(x.value) |-> f[Members(x)[i]]])]
      BY <1>2, Zenon
    <2> QED
      BY <2>2, <2>3, Zenon
  <1>8. Solves(SizeOf)
    <2> DEFINE g == CHOOSE g : Solves(g)
    <2>1. Solves(g)
      BY <1>7, Zenon
    <2>2. SizeOf = g
      BY DEF SizeOf
    <2> HIDE DEF g, Solves
    <2> QED
      BY <2>1, <2>2, Zenon
  <1>9. \A x \in Things : SizeOf[x] = Val(x, ForMembers(SizeOf, x))
    <2> DEFINE size == SizeOf
    <2>1. Solves(size)
      BY <1>8
    <2> HIDE DEF size
    <2>2. \A x \in Things : size[x] =
              IF x.type.kind = "flat" THEN x.type.size
              ELSE (IF x.type.kind = "list" THEN SizeWidth ELSE 0) +
                     SumOf([i \in 1..Len(x.value) |-> size[Members(x)[i]]])
      BY <2>1, Zenon
    <2> HIDE DEF Solves
    <2> QED
      BY <1>2, <2>2, Zenon DEF size
  <1>10. \A x \in Things : SizeOf[x] = f[x]
    <2>1. MembersDecide(SizeOf, f)
      BY <1>6, <1>9, Zenon DEF MembersDecide
    <2> QED
      BY <2>1, StructuralUnique, Zenon
  <1>11. SizeOf = f
    <2> DEFINE size == SizeOf
    <2>1. Solves(size)
      BY <1>8
    <2> HIDE DEF size
    <2>2. size = [x \in Things |-> size[x]]
      BY <2>1
    <2>3. f = [x \in Things |-> f[x]]
      OBVIOUS
    <2> HIDE DEF Solves
    <2>4. \A x \in Things : size[x] = f[x]
      BY <1>10 DEF size
    <2> QED
      BY <2>2, <2>3, <2>4, Zenon DEF size
  <1>12. SizeOf \in [Things -> Nat]
    BY <1>11, Zenon
  <1> QED
    BY <1>9, <1>12, Zenon DEF Val

LEMMA BytesFacts ==
    /\ Bytes \in [Things -> Seq(Byte)]
    /\ \A x \in Things : Bytes[x] = IF x.type.kind = "flat" THEN x.value
                                     ELSE HeadBytes(x) \o FlattenSeq(ForMembers(Bytes, x))
  <1> DEFINE Val(x, v) == IF x.type.kind = "flat" THEN x.value ELSE HeadBytes(x) \o FlattenSeq(v)
             step == [x \in Things |-> [v \in Seq(Seq(Byte)) |-> Val(x, v)]]
             Solves(g) == g = [x \in Things |->
                 IF x.type.kind = "flat" THEN x.value
                 ELSE (IF x.type.kind = "list" THEN Count(Len(x.value)) ELSE <<>>) \o
                        FlattenSeq([i \in 1..Len(x.value) |-> g[Members(x)[i]]])]
  <1>1. ASSUME NEW x \in Things, NEW v \in Seq(Seq(Byte))
        PROVE  Val(x, v) \in Seq(Byte)
    <2>1. HeadBytes(x) \in Seq(Byte) /\ FlattenSeq(v) \in Seq(Byte)
      BY HeadFacts, FlattenPlaces, Zenon
    <2> DEFINE a == HeadBytes(x)
               b == FlattenSeq(v)
    <2>2. a \o b \in Seq(Byte)
      <3>1. a \in Seq(Byte) /\ b \in Seq(Byte)
        BY <2>1
      <3> HIDE DEF a, b
      <3> QED
        BY <3>1, ConcatProperties
    <2>3. x.type.kind = "flat" => x.value \in Seq(Byte)
      BY ThingFacts, Zenon
    <2> QED
      BY <2>2, <2>3, Zenon DEF a, b
  <1>2. \A g, x : Val(x, ForMembers(g, x)) =
                    IF x.type.kind = "flat" THEN x.value
                    ELSE (IF x.type.kind = "list" THEN Count(Len(x.value)) ELSE <<>>) \o
                           FlattenSeq([i \in 1..Len(x.value) |-> g[Members(x)[i]]])
    BY Zenon DEF ForMembers, HeadBytes
  <1>3. step \in [Things -> [Seq(Seq(Byte)) -> Seq(Byte)]]
    <2> HIDE DEF Val
    <2> QED
      BY <1>1
  <1>4. \A x \in Things : \A v \in Seq(Seq(Byte)) : step[x][v] = Val(x, v)
    <2> HIDE DEF Val
    <2> QED
      OBVIOUS
  <1> HIDE DEF step
  <1>5. PICK f \in [Things -> Seq(Byte)] : Structural(f, step)
    BY <1>3, StructuralExists
  <1>6. \A x \in Things : f[x] = Val(x, ForMembers(f, x))
    <2> TAKE x \in Things
    <2>1. ForMembers(f, x) \in Seq(Seq(Byte))
      BY ForMembersTyped
    <2>2. f[x] = step[x][ForMembers(f, x)]
      BY <1>5, Zenon DEF Structural
    <2> QED
      BY <1>4, <2>1, <2>2, Zenon
  <1> HIDE DEF Val
  <1>7. Solves(f)
    <2>1. f = [x \in Things |-> f[x]]
      OBVIOUS
    <2>2. f = [x \in Things |-> Val(x, ForMembers(f, x))]
      BY <1>6, <2>1, Zenon
    <2>3. [x \in Things |-> Val(x, ForMembers(f, x))] = [x \in Things |->
                 IF x.type.kind = "flat" THEN x.value
                 ELSE (IF x.type.kind = "list" THEN Count(Len(x.value)) ELSE <<>>) \o
                        FlattenSeq([i \in 1..Len(x.value) |-> f[Members(x)[i]]])]
      BY <1>2, Zenon
    <2> QED
      BY <2>2, <2>3, Zenon
  <1>8. Solves(Bytes)
    <2> DEFINE g == CHOOSE g : Solves(g)
    <2>1. Solves(g)
      BY <1>7, Zenon
    <2>2. Bytes = g
      BY DEF Bytes
    <2> HIDE DEF g, Solves
    <2> QED
      BY <2>1, <2>2, Zenon
  <1>9. \A x \in Things : Bytes[x] = Val(x, ForMembers(Bytes, x))
    <2> DEFINE bytes == Bytes
    <2>1. Solves(bytes)
      BY <1>8
    <2> HIDE DEF bytes
    <2>2. \A x \in Things : bytes[x] =
              IF x.type.kind = "flat" THEN x.value
              ELSE (IF x.type.kind = "list" THEN Count(Len(x.value)) ELSE <<>>) \o
                     FlattenSeq([i \in 1..Len(x.value) |-> bytes[Members(x)[i]]])
      BY <2>1, Zenon
    <2> HIDE DEF Solves
    <2> QED
      BY <1>2, <2>2, Zenon DEF bytes
  <1>10. \A x \in Things : Bytes[x] = f[x]
    <2>1. MembersDecide(Bytes, f)
      BY <1>6, <1>9, Zenon DEF MembersDecide
    <2> QED
      BY <2>1, StructuralUnique, Zenon
  <1>11. Bytes = f
    <2> DEFINE bytes == Bytes
    <2>1. Solves(bytes)
      BY <1>8
    <2> HIDE DEF bytes
    <2>2. bytes = [x \in Things |-> bytes[x]]
      BY <2>1
    <2>3. f = [x \in Things |-> f[x]]
      OBVIOUS
    <2> HIDE DEF Solves
    <2>4. \A x \in Things : bytes[x] = f[x]
      BY <1>10 DEF bytes
    <2> QED
      BY <2>2, <2>3, <2>4, Zenon DEF bytes
  <1>12. Bytes \in [Things -> Seq(Byte)]
    BY <1>11, Zenon
  <1> QED
    BY <1>9, <1>12, Zenon DEF Val

(* One member more, or an exception. *)
NextGot(acc, read) ==
    IF acc.ok /\ read[acc.rest].ok
    THEN Got(Append(acc.value, read[acc.rest].value), read[acc.rest].rest) ELSE Threw
GotFrom(f, reads, s, n) == \A i \in 0..n : f[i] = IF i = 0 THEN Got(<<>>, s) ELSE NextGot(f[i - 1], reads[i])

LEMMA GotsExist ==
    ASSUME NEW reads, NEW s, NEW n \in Nat
    PROVE  \E f : f = [i \in 0..n |-> f[i]] /\ GotFrom(f, reads, s, n)
  <1> DEFINE Good(f, k) == f = [i \in 0..k |-> f[i]] /\ GotFrom(f, reads, s, k)
             N == {k \in Nat : \E f : Good(f, k)}
  <1>1. 0 \in N
    <2> DEFINE f == [i \in 0..0 |-> Got(<<>>, s)]
    <2>1. f = [i \in 0..0 |-> f[i]] /\ \A i \in 0..0 : i = 0 /\ f[i] = Got(<<>>, s)
      OBVIOUS
    <2> HIDE DEF f
    <2>2. Good(f, 0)
      BY <2>1, Zenon DEF GotFrom
    <2> QED
      BY <2>2
  <1>2. ASSUME NEW k \in N
        PROVE  k + 1 \in N
    <2>1. PICK f : Good(f, k)
      OBVIOUS
    <2> DEFINE p == k + 1
               h == [i \in 0..p |-> IF i = p THEN NextGot(f[k], reads[p]) ELSE f[i]]
    <2>2. h = [i \in 0..p |-> h[i]]
      OBVIOUS
    <2>3. \A i \in 0..p : h[i] = IF i = p THEN NextGot(f[k], reads[p]) ELSE f[i]
      OBVIOUS
    <2>4. k \in Nat /\ p \in 0..p /\ p # 0 /\ p - 1 = k /\ \A i \in 0..p : i # p => i \in 0..k
      OBVIOUS
    <2>5. \A i \in 0..k : i \in 0..p /\ i # p /\ (i # 0 => i - 1 \in 0..k)
      OBVIOUS
    <2> HIDE DEF h, p
    <2>6. \A i \in 0..k : h[i] = f[i]
      BY <2>3, <2>5, Zenon
    <2>7. \A i \in 0..k : f[i] = IF i = 0 THEN Got(<<>>, s) ELSE NextGot(f[i - 1], reads[i])
      BY <2>1, Zenon DEF GotFrom
    <2>8. k \in 0..k
      BY <2>4
    <2>9. ASSUME NEW i \in 0..p
          PROVE  h[i] = IF i = 0 THEN Got(<<>>, s) ELSE NextGot(h[i - 1], reads[i])
      <3>1. CASE i = p
        <4>1. h[i - 1] = f[k]
          BY <2>4, <2>6, <2>8, <3>1, Zenon
        <4>2. h[i] = NextGot(f[k], reads[p])
          BY <2>3, <3>1, Zenon
        <4> QED
          BY <2>4, <3>1, <4>1, <4>2, Zenon
      <3>2. CASE i # p
        <4>1. i \in 0..k
          BY <2>4, <3>2, Zenon
        <4>2. h[i] = f[i] /\ (i # 0 => h[i - 1] = f[i - 1])
          BY <2>5, <2>6, <4>1, Zenon
        <4> QED
          BY <2>7, <4>1, <4>2, Zenon
      <3> QED
        BY <3>1, <3>2
    <2>10. Good(h, p)
      BY <2>2, <2>9, Zenon DEF GotFrom
    <2>11. p \in Nat
      BY <2>4 DEF p
    <2> QED
      BY <2>10, <2>11, Zenon DEF p
  <1> HIDE DEF N
  <1>3. \A k \in Nat : k \in N
    <2>1. N \in SUBSET Nat
      BY DEF N
    <2> QED
      BY <1>1, <1>2, <2>1, Inductive
  <1> QED
    BY <1>3 DEF N

LEMMA ReadAllFacts ==
    ASSUME NEW reads, NEW s, Len(reads) \in Nat
    PROVE  \E f : GotFrom(f, reads, s, Len(reads)) /\ ReadAll(reads, s) = f[Len(reads)]
  <1> DEFINE n == Len(reads)
             Solves(f) == f = [i \in 0..n |-> IF i = 0 THEN Got(<<>>, s)
                                                       ELSE NextGot(f[i - 1], reads[i])]
             upto == CHOOSE f : Solves(f)
  <1>1. n \in Nat
    OBVIOUS
  <1>2. ReadAll(reads, s) = upto[n]
    BY DEF ReadAll, NextGot
  <1> HIDE DEF n
  <1>3. PICK f : f = [i \in 0..n |-> f[i]] /\ GotFrom(f, reads, s, n)
    BY <1>1, GotsExist
  <1>4. Solves(f)
    BY <1>3, Zenon DEF GotFrom
  <1>5. Solves(upto)
    BY <1>4, Zenon
  <1> HIDE DEF upto
  <1>6. GotFrom(upto, reads, s, n)
    BY <1>5 DEF GotFrom
  <1> QED
    BY <1>2, <1>6, Zenon DEF n

-----------------------------------------------------------------------------
(* f and h read the types below the depth n alike. *)
AlikeBelow(f, h, n) == \A u \in Types : u.depth < n => f[u] = h[u]

LEMMA ReadBySame ==
    ASSUME NEW f, NEW h, NEW t \in Types, NEW n, t.depth \in Nat, n \in Nat, t.depth < n + 1,
           AlikeBelow(f, h, n), NEW s
    PROVE  ReadBy(f, t, s) = ReadBy(h, t, s)
  <1>0. \A u \in Types : u.depth < t.depth => f[u] = h[u]
    <2> TAKE u \in Types
    <2> HAVE u.depth < t.depth
    <2> DEFINE a == u.depth
               b == t.depth
    <2>1. a \in Nat
      <3>1. a \in 0..MaxDepth /\ MaxDepth \in Nat
        BY TypeFacts, CodecAssumption, Zenon
      <3> QED
        BY <3>1
    <2>2. b \in Nat /\ n \in Nat /\ a < b /\ b < n + 1
      OBVIOUS
    <2> HIDE DEF a, b
    <2>3. a < n
      BY <2>1, <2>2
    <2> QED
      BY <2>3, Zenon DEF a, AlikeBelow
  <1>1. CASE t.kind = "flat"
    BY <1>1 DEF ReadBy
  <1>2. CASE t.kind = "tuple"
    <2>1. [i \in 1..Len(t.of) |-> f[t.of[i]]] = [i \in 1..Len(t.of) |-> h[t.of[i]]]
      <3>1. \A i \in 1..Len(t.of) : f[t.of[i]] = h[t.of[i]]
        BY <1>0, <1>2, TupleFacts, Zenon
      <3> QED
        BY <3>1, Zenon
    <2>2. \A g : ReadBy(g, t, s) = ReadAll([i \in 1..Len(t.of) |-> g[t.of[i]]], s)
      BY <1>2 DEF ReadBy
    <2> QED
      BY <2>1, <2>2, Zenon
  <1>3. CASE t.kind = "list"
    <2>1. f[t.of] = h[t.of]
      BY <1>0, <1>3, ListFacts, Zenon
    <2>2. \A g : ReadBy(g, t, s) =
             IF Len(s) < SizeWidth \/ t.room \in 0..(CountOf(s) - 1) THEN Threw
             ELSE ReadAll([i \in 1..CountOf(s) |-> g[t.of]], After(s, SizeWidth))
      BY <1>3 DEF ReadBy
    <2> QED
      BY <2>1, <2>2, Zenon
  <1>4. t.kind = "flat" \/ t.kind = "tuple" \/ t.kind = "list"
    BY TypeFacts, Zenon
  <1> QED
    BY <1>1, <1>2, <1>3, <1>4

LEMMA ReadFacts ==
    \A t \in Types : \A s \in Seq(Byte) : Read[t][s] = ReadBy(Read, t, s)
  <1> DEFINE Body(f, t) == [s \in Seq(Byte) |-> ReadBy(f, t, s)]
             Solves(f) == f = [t \in Types |-> Body(f, t)]
             Good(f, n) == /\ f = [t \in Types |-> f[t]]
                           /\ \A t \in Types : t.depth < n => f[t] = Body(f, t)
             N == {n \in Nat : \E f : Good(f, n)}
  <1>0. \A t \in Types : t.depth \in Nat /\ t.depth <= MaxDepth
    <2> TAKE t \in Types
    <2>1. t.depth \in 0..MaxDepth /\ MaxDepth \in Nat
      BY TypeFacts, CodecAssumption, Zenon
    <2> QED
      BY <2>1
  <1>1. 0 \in N
    <2> DEFINE f == [t \in Types |-> 0]
    <2>1. \A t \in Types : ~ (t.depth < 0)
      BY <1>0
    <2>2. f = [t \in Types |-> f[t]]
      OBVIOUS
    <2> HIDE DEF f, Body
    <2>3. Good(f, 0)
      BY <2>1, <2>2, Zenon
    <2> QED
      BY <2>3
  <1>2. ASSUME NEW n \in N
        PROVE  n + 1 \in N
    <2>1. PICK f : Good(f, n)
      OBVIOUS
    <2> HIDE DEF Body
    <2> DEFINE h == [t \in Types |-> IF t.depth < n THEN f[t] ELSE Body(f, t)]
    <2>2. h = [t \in Types |-> h[t]]
      OBVIOUS
    <2>3. \A t \in Types : h[t] = IF t.depth < n THEN f[t] ELSE Body(f, t)
      OBVIOUS
    <2> HIDE DEF h
    <2>4. ASSUME NEW t \in Types, t.depth < n + 1
          PROVE  h[t] = Body(h, t)
      <3>1. AlikeBelow(f, h, n)
        BY <2>3, Zenon DEF AlikeBelow
      <3>2. t.depth \in Nat /\ n \in Nat
        BY <1>0
      <3>3. ASSUME NEW s \in Seq(Byte)
            PROVE  ReadBy(f, t, s) = ReadBy(h, t, s)
        <4>1. t.depth < n + 1
          BY <2>4, Zenon
        <4> QED
          BY <3>1, <3>2, <4>1, ReadBySame, Zenon
      <3>4. Body(f, t) = Body(h, t)
        BY <3>3, Zenon DEF Body
      <3>5. t.depth < n => f[t] = Body(f, t)
        BY <2>1, Zenon
      <3> QED
        BY <2>3, <3>4, <3>5, Zenon
    <2>5. Good(h, n + 1)
      BY <2>2, <2>4, Zenon
    <2>6. n + 1 \in Nat
      OBVIOUS
    <2> QED
      BY <2>5, <2>6, Zenon
  <1> HIDE DEF N
  <1>3. \A k \in Nat : k \in N
    <2>1. N \in SUBSET Nat
      BY DEF N
    <2> QED
      BY <1>1, <1>2, <2>1, Inductive
  <1>4. MaxDepth + 1 \in N /\ MaxDepth \in Nat
    BY <1>3, CodecAssumption
  <1>5. PICK f : Good(f, MaxDepth + 1)
    BY <1>4 DEF N
  <1>6. \A t \in Types : t.depth < MaxDepth + 1
    BY <1>0, <1>4
  <1>7. Solves(f)
    <2> HIDE DEF Body
    <2> QED
      BY <1>5, <1>6, Zenon
  <1> DEFINE g == CHOOSE f_ : Solves(f_)
  <1>8. Solves(g)
    <2> HIDE DEF Body
    <2> QED
      BY <1>7, Zenon
  <1>9. Read = g
    BY DEF Read
  <1> HIDE DEF g
  <1>10. Solves(Read)
    <2> HIDE DEF Solves
    <2> QED
      BY <1>8, <1>9, Zenon
  <1>11. ASSUME NEW t \in Types
         PROVE  Read[t] = Body(Read, t)
    <2> DEFINE r == Read
    <2>1. r = [t_ \in Types |-> Body(r, t_)]
      BY <1>10
    <2> HIDE DEF r, Body
    <2>2. r[t] = Body(r, t)
      BY <2>1, Zenon
    <2> QED
      BY <2>2 DEF r
  <1>12. ASSUME NEW t \in Types, NEW s \in Seq(Byte)
         PROVE  Read[t][s] = ReadBy(Read, t, s)
    <2> DEFINE r == Read
    <2>1. r[t] = [s_ \in Seq(Byte) |-> ReadBy(r, t, s_)]
      BY <1>11
    <2> HIDE DEF r
    <2>2. r[t][s] = ReadBy(r, t, s)
      BY <2>1, Zenon
    <2> QED
      BY <2>2 DEF r
  <1> QED
    BY <1>12

LEMMA AfterFacts ==
    ASSUME NEW S, NEW s \in Seq(S), NEW n \in 0..Len(s)
    PROVE  /\ After(s, n) \in Seq(S) /\ Len(After(s, n)) = Len(s) - n
           /\ \A i \in 1..(Len(s) - n) : After(s, n)[i] = s[n + i]
  <1> DEFINE l == Len(s)
  <1>1. l \in Nat /\ n \in Nat /\ n <= l /\ \A i \in 1..l : s[i] \in S
    OBVIOUS
  <1>2. \A i \in (n + 1)..l : s[i] \in S
    BY <1>1
  <1>3. n + 1 \in Int /\ l \in Int
    BY <1>1
  <1> DEFINE m == n + 1
             t == SubSeq(s, m, l)
  <1> HIDE DEF m, l
  <1>4. /\ t \in Seq(S)
        /\ Len(t) = IF m <= l THEN l - m + 1 ELSE 0
        /\ \A i \in 1..(l - m + 1) : t[i] = s[m + i - 1]
    BY <1>2, <1>3, SubSeqProperties DEF m
  <1> HIDE DEF t
  <1>5. Len(t) = l - n
    BY <1>1, <1>4 DEF m
  <1>6. ASSUME NEW i \in 1..(l - n)
        PROVE  t[i] = s[n + i]
    <2>1. i \in 1..(l - m + 1) /\ m + i - 1 = n + i
      BY <1>1 DEF m
    <2> QED
      BY <1>4, <2>1
  <1>7. After(s, n) = t
    BY DEF After, t, m, l
  <1> QED
    BY <1>4, <1>5, <1>6, <1>7, Zenon DEF l

LEMMA SeqsEqual ==
    ASSUME NEW S, NEW s \in Seq(S), NEW t \in Seq(S), Len(s) = Len(t),
           \A i \in 1..Len(s) : s[i] = t[i]
    PROVE  s = t
  OBVIOUS

LEMMA AfterAfter ==
    ASSUME NEW S, NEW s \in Seq(S), NEW a \in Nat, NEW b \in Nat, a + b <= Len(s)
    PROVE  After(After(s, a), b) = After(s, a + b)
  <1> DEFINE l == Len(s)
             q == After(s, a)
             r == After(q, b)
             t == After(s, a + b)
  <1>1. l \in Nat /\ a \in 0..l /\ b \in 0..(l - a) /\ a + b \in 0..l
    OBVIOUS
  <1>2. q \in Seq(S) /\ Len(q) = l - a /\ \A i \in 1..(l - a) : q[i] = s[a + i]
    BY <1>1, AfterFacts, Zenon
  <1> HIDE DEF q
  <1>3. b \in 0..Len(q)
    BY <1>1, <1>2, Zenon
  <1>4. r \in Seq(S) /\ Len(r) = Len(q) - b /\ \A i \in 1..(Len(q) - b) : r[i] = q[b + i]
    BY <1>2, <1>3, AfterFacts, Zenon
  <1> DEFINE c == a + b
  <1>5. t \in Seq(S) /\ Len(t) = l - c /\ \A i \in 1..(l - c) : t[i] = s[c + i]
    BY <1>1, AfterFacts, Zenon
  <1> HIDE DEF r, t, l
  <1>6. Len(r) = Len(t)
    BY <1>1, <1>2, <1>4, <1>5
  <1>7. ASSUME NEW i \in 1..Len(r)
        PROVE  r[i] = t[i]
    <2>1. i \in 1..(Len(q) - b) /\ i \in 1..(l - c) /\ b + i \in 1..(l - a) /\ a + (b + i) = c + i
      BY <1>1, <1>2, <1>4, <1>5
    <2>2. r[i] = q[b + i]
      BY <1>4, <2>1, Zenon
    <2>3. q[b + i] = s[a + (b + i)]
      BY <1>2, <2>1, Zenon
    <2>4. t[i] = s[c + i]
      BY <1>5, <2>1, Zenon
    <2> QED
      BY <2>1, <2>2, <2>3, <2>4, Zenon
  <1>8. r = t
    BY <1>4, <1>5, <1>6, <1>7, SeqsEqual, Zenon
  <1> QED
    BY <1>8 DEF r, t, q

LEMMA AfterNothing ==
    ASSUME NEW S, NEW s \in Seq(S)
    PROVE  After(s, 0) = s
  <1> DEFINE t == After(s, 0)
  <1>1. 0 \in 0..Len(s) /\ Len(s) \in Nat /\ Len(s) - 0 = Len(s) /\ \A i \in 1..Len(s) : 0 + i = i
    OBVIOUS
  <1>2. t \in Seq(S) /\ Len(t) = Len(s) - 0 /\ \A i \in 1..(Len(s) - 0) : t[i] = s[0 + i]
    BY <1>1, AfterFacts, Zenon
  <1> HIDE DEF t
  <1>3. Len(s) = Len(t) /\ \A i \in 1..Len(s) : s[i] = t[i]
    BY <1>1, <1>2, Zenon
  <1>4. s = t
    BY <1>2, <1>3, SeqsEqual, Zenon
  <1> QED
    BY <1>4 DEF t

-----------------------------------------------------------------------------
(* As far as the bytes s go, they are those of b. *)
Agrees(s, b) == \A i \in 1..Len(b) : i <= Len(s) => s[i] = b[i]
ReadsAs(read, b, v) ==
    \A s \in Seq(Byte) :
      Agrees(s, b) => read[s] = IF Len(b) <= Len(s) THEN Got(v, After(s, Len(b))) ELSE Threw

(* Pieces that are joined are there one after the other. *)
LEMMA PieceAgrees ==
    ASSUME NEW pieces \in Seq(Seq(Byte)), NEW s \in Seq(Byte), Agrees(s, FlattenSeq(pieces)),
           NEW k \in 1..Len(pieces), EndOf(pieces, k - 1) <= Len(s)
    PROVE  Agrees(After(s, EndOf(pieces, k - 1)), pieces[k])
  <1> DEFINE n == Len(pieces)
             a == EndOf(pieces, k - 1)
             b == EndOf(pieces, k)
             c == EndOf(pieces, n)
             piece == pieces[k]
             all == FlattenSeq(pieces)
             q == After(s, a)
  <1>1. n \in Nat /\ k \in 1..n /\ k - 1 \in 0..n /\ k \in 0..n /\ n \in 0..n /\ k \in 0..n
        /\ piece \in Seq(Byte)
    OBVIOUS
  <1>1a. k \in 0..n /\ n \in 0..n /\ k \in 0..n
    BY <1>1
  <1>2. /\ \A i \in 0..n : EndOf(pieces, i) \in Nat
        /\ \A i \in 1..n : EndOf(pieces, i) = EndOf(pieces, i - 1) + Len(pieces[i])
        /\ \A i \in 0..n : \A j \in 0..i : EndOf(pieces, j) <= EndOf(pieces, i)
    BY EndsAdd, Zenon
  <1>3. a \in Nat /\ b = a + Len(piece) /\ b <= c /\ c \in Nat /\ Len(piece) \in Nat
    <2>1. k \in 0..n /\ k - 1 \in 0..n /\ n \in 0..n /\ k \in 1..n
      BY <1>1
    <2>2. a \in Nat /\ c \in Nat /\ b = a + Len(piece)
      BY <1>2, <2>1, Zenon
    <2>3. b <= c
      BY <1>2, <2>1, Zenon
    <2>4. Len(piece) \in Nat
      BY <1>1
    <2> QED
      BY <2>2, <2>3, <2>4
  <1>4. all \in Seq(Byte) /\ Len(all) = c /\ Placed(all, pieces, n)
    BY FlattenPlaces, Zenon
  <1>5. \A j \in 1..Len(piece) : all[a + j] = piece[j]
    BY <1>1, <1>4, Zenon DEF Placed
  <1>6. a \in 0..Len(s) /\ Len(s) \in Nat
    <2>1. a <= Len(s) /\ Len(s) \in Nat
      OBVIOUS
    <2> HIDE DEF a
    <2> QED
      BY <1>3, <2>1
  <1>7. Len(q) = Len(s) - a /\ \A i \in 1..(Len(s) - a) : q[i] = s[a + i]
    BY <1>6, AfterFacts, Zenon
  <1>8. \A i \in 1..Len(all) : i <= Len(s) => s[i] = all[i]
    BY Zenon DEF Agrees
  <1> HIDE DEF n, a, b, c, piece, all, q
  <1>9. ASSUME NEW j \in 1..Len(piece), j <= Len(q)
        PROVE  q[j] = piece[j]
    <2>1. a + j \in 1..Len(all) /\ a + j <= Len(s) /\ j \in 1..(Len(s) - a)
      BY <1>3, <1>4, <1>6, <1>7, <1>9
    <2>2. q[j] = s[a + j]
      BY <1>7, <2>1, Zenon
    <2>3. s[a + j] = all[a + j]
      BY <1>8, <2>1, Zenon
    <2> QED
      BY <1>5, <2>2, <2>3, Zenon
  <1>10. Agrees(q, piece)
    BY <1>9, Zenon DEF Agrees
  <1> QED
    BY <1>10 DEF q, piece, a

(* The members are read one after the other, as far as the bytes go. *)
UptoGot(vals, pieces, s, k) ==
    IF EndOf(pieces, k) <= Len(s) THEN Got([i \in 1..k |-> vals[i]], After(s, EndOf(pieces, k)))
    ELSE Threw

LEMMA NextIsGot ==
    ASSUME NEW pieces \in Seq(Seq(Byte)), NEW s \in Seq(Byte), Agrees(s, FlattenSeq(pieces)),
           NEW vals, NEW read, NEW k \in 1..Len(pieces), ReadsAs(read, pieces[k], vals[k])
    PROVE  NextGot(UptoGot(vals, pieces, s, k - 1), read) = UptoGot(vals, pieces, s, k)
  <1> DEFINE n == Len(pieces)
             a == EndOf(pieces, k - 1)
             b == EndOf(pieces, k)
             piece == pieces[k]
             p == k - 1
             before == [i \in 1..p |-> vals[i]]
             q == After(s, a)
             acc == UptoGot(vals, pieces, s, p)
  <1>1. n \in Nat /\ k \in 1..n /\ p \in Nat /\ p + 1 = k /\ Len(s) \in Nat /\ piece \in Seq(Byte)
    OBVIOUS
  <1>2. a \in Nat /\ b = a + Len(piece) /\ Len(piece) \in Nat
    <2>1. /\ \A i \in 0..n : EndOf(pieces, i) \in Nat
          /\ \A i \in 1..n : EndOf(pieces, i) = EndOf(pieces, i - 1) + Len(pieces[i])
      BY EndsAdd, Zenon
    <2>2. k \in 1..n /\ k - 1 \in 0..n /\ Len(piece) \in Nat
      BY <1>1
    <2> QED
      BY <2>1, <2>2, Zenon
  <1>3. Threw.ok = FALSE /\ \A v, r : Got(v, r).ok = TRUE /\ Got(v, r).value = v /\ Got(v, r).rest = r
    BY DEF Threw, Got
  <1>4. CASE ~ (a <= Len(s))
    <2>1. ~ (b <= Len(s))
      <3> HIDE DEF a, b, piece
      <3> QED
        BY <1>1, <1>2, <1>4
    <2>2. acc = Threw /\ UptoGot(vals, pieces, s, k) = Threw
      BY <1>4, <2>1, Zenon DEF UptoGot
    <2> HIDE DEF acc
    <2>3. NextGot(acc, read) = Threw
      BY <1>3, <2>2, Zenon DEF NextGot
    <2> QED
      BY <2>2, <2>3, Zenon DEF acc, p
  <1>5. CASE a <= Len(s)
    <2>1. acc = Got(before, q)
      BY <1>5, Zenon DEF UptoGot
    <2>2. acc.ok /\ acc.value = before /\ acc.rest = q
      <3> HIDE DEF acc, before, q
      <3> QED
        BY <2>1 DEF Got
    <2>3. Agrees(q, piece)
      BY <1>5, PieceAgrees, Zenon
    <2>4. a \in 0..Len(s)
      <3> HIDE DEF a
      <3> QED
        BY <1>1, <1>2, <1>5
    <2>5. q \in Seq(Byte) /\ Len(q) = Len(s) - a
      BY <2>4, AfterFacts, Zenon
    <2>6. read[q] = IF Len(piece) <= Len(q) THEN Got(vals[k], After(q, Len(piece))) ELSE Threw
      BY <2>3, <2>5, Zenon DEF ReadsAs
    <2>7. Len(piece) <= Len(q) <=> b <= Len(s)
      <3> HIDE DEF a, b, piece, q
      <3> QED
        BY <1>1, <1>2, <2>5
    <2>8. CASE ~ (b <= Len(s))
      <3>1. read[q] = Threw
        BY <2>6, <2>7, <2>8, Zenon
      <3>2. NextGot(acc, read) = Threw
        <4> HIDE DEF acc
        <4> QED
          BY <1>3, <2>2, <3>1, Zenon DEF NextGot
      <3>3. UptoGot(vals, pieces, s, k) = Threw
        BY <2>8, Zenon DEF UptoGot
      <3> QED
        BY <3>2, <3>3, Zenon
    <2>9. CASE b <= Len(s)
      <3>1. read[q] = Got(vals[k], After(q, Len(piece)))
        BY <2>6, <2>7, <2>9, Zenon
      <3>2. NextGot(acc, read) = Got(Append(before, vals[k]), After(q, Len(piece)))
        <4> DEFINE v == vals[k]
                   r == After(q, Len(piece))
        <4>1. read[acc.rest] = Got(v, r)
          BY <2>2, <3>1, Zenon
        <4> HIDE DEF acc, before, q, piece, v, r
        <4>2. read[acc.rest].ok /\ read[acc.rest].value = v /\ read[acc.rest].rest = r
          BY <4>1 DEF Got
        <4>3. NextGot(acc, read) = Got(Append(before, v), r)
          BY <2>2, <4>2, Zenon DEF NextGot
        <4> QED
          BY <4>3 DEF v, r
      <3>3. Append(before, vals[k]) = [i \in 1..k |-> vals[i]]
        <4> DEFINE v == vals[k]
        <4>1. before = [i \in 1..p |-> before[i]] /\ \A i \in 1..p : before[i] = vals[i]
          OBVIOUS
        <4> HIDE DEF before, p
        <4>2. Append(before, v) = [i \in 1..(p + 1) |-> IF i = p + 1 THEN v ELSE before[i]]
          BY <1>1, <4>1, Longer
        <4>3. \A i \in 1..k : (IF i = k THEN v ELSE before[i]) = vals[i]
          <5>1. \A i \in 1..k : i # k => i \in 1..p
            BY <1>1
          <5> QED
            BY <4>1, <5>1, Zenon
        <4> HIDE DEF v
        <4> QED
          BY <1>1, <4>2, <4>3, Zenon DEF v
      <3>4. After(q, Len(piece)) = After(s, b)
        <4> DEFINE l == Len(piece)
        <4>1. l \in Nat /\ a + l = b /\ a \in Nat /\ a + l <= Len(s)
          BY <1>2, <2>9, Zenon
        <4> HIDE DEF a, b, l
        <4>2. After(After(s, a), l) = After(s, a + l)
          BY <4>1, AfterAfter
        <4> QED
          BY <4>1, <4>2, Zenon DEF a, l
      <3>5. UptoGot(vals, pieces, s, k) = Got([i \in 1..k |-> vals[i]], After(s, b))
        BY <2>9, Zenon DEF UptoGot
      <3> QED
        BY <3>2, <3>3, <3>4, <3>5, Zenon
    <2> QED
      BY <2>8, <2>9
  <1> QED
    BY <1>4, <1>5

LEMMA ReadAllReads ==
    ASSUME NEW pieces \in Seq(Seq(Byte)), NEW s \in Seq(Byte), Agrees(s, FlattenSeq(pieces)),
           NEW vals, NEW reads, Len(reads) = Len(pieces),
           \A k \in 1..Len(pieces) : ReadsAs(reads[k], pieces[k], vals[k])
    PROVE  ReadAll(reads, s) = UptoGot(vals, pieces, s, Len(pieces))
  <1> DEFINE n == Len(pieces)
  <1>1. n \in Nat /\ Len(reads) = n /\ Len(s) \in Nat
    OBVIOUS
  <1>2. PICK f : GotFrom(f, reads, s, n) /\ ReadAll(reads, s) = f[n]
    BY <1>1, ReadAllFacts
  <1>3. \A i \in 0..n : f[i] = IF i = 0 THEN Got(<<>>, s) ELSE NextGot(f[i - 1], reads[i])
    BY <1>2, Zenon DEF GotFrom
  <1> DEFINE N == {k \in Nat : k <= n => f[k] = UptoGot(vals, pieces, s, k)}
  <1>4. 0 \in N
    <2>1. EndOf(pieces, 0) = 0
      BY EndsAdd, Zenon
    <2>2. After(s, 0) = s
      BY AfterNothing
    <2>3. [i \in 1..0 |-> vals[i]] = <<>>
      OBVIOUS
    <2>4. 0 <= Len(s) /\ 0 \in 0..n
      BY <1>1
    <2>5. UptoGot(vals, pieces, s, 0) = Got(<<>>, s)
      BY <2>1, <2>2, <2>3, <2>4, Zenon DEF UptoGot
    <2>6. f[0] = Got(<<>>, s)
      BY <1>3, <2>4, Zenon
    <2> QED
      BY <2>5, <2>6
  <1>5. ASSUME NEW m \in N
        PROVE  m + 1 \in N
    <2> SUFFICES ASSUME m + 1 <= n
                 PROVE  f[m + 1] = UptoGot(vals, pieces, s, m + 1)
      OBVIOUS
    <2> DEFINE k == m + 1
    <2>1. k \in 1..Len(pieces) /\ k \in 0..n /\ k # 0 /\ k - 1 = m /\ f[m] = UptoGot(vals, pieces, s, m)
      BY <1>1
    <2> HIDE DEF k, N
    <2>2. f[k] = NextGot(UptoGot(vals, pieces, s, k - 1), reads[k])
      BY <1>3, <2>1, Zenon
    <2>3. ReadsAs(reads[k], pieces[k], vals[k])
      BY <2>1, Zenon
    <2>4. NextGot(UptoGot(vals, pieces, s, k - 1), reads[k]) = UptoGot(vals, pieces, s, k)
      BY <2>1, <2>3, NextIsGot, Zenon
    <2> QED
      BY <2>2, <2>4, Zenon DEF k
  <1> HIDE DEF N
  <1>6. \A k \in Nat : k \in N
    <2>1. N \in SUBSET Nat
      BY DEF N
    <2> QED
      BY <1>4, <1>5, <2>1, Inductive
  <1>7. f[n] = UptoGot(vals, pieces, s, n)
    <2>1. n \in N /\ n <= n
      BY <1>1, <1>6
    <2> QED
      BY <2>1 DEF N
  <1> QED
    BY <1>2, <1>7, Zenon

LEMMA LengthOf ==
    ASSUME NEW n \in Nat, NEW f, f = [i \in 1..n |-> f[i]]
    PROVE  Len(f) = n
  OBVIOUS

LEMMA HeadAgrees ==
    ASSUME NEW h \in Seq(Byte), NEW b \in Seq(Byte), NEW s \in Seq(Byte), Agrees(s, h \o b),
           Len(h) <= Len(s)
    PROVE  /\ Agrees(After(s, Len(h)), b)
           /\ \A i \in 1..Len(h) : s[i] = h[i]
  <1> DEFINE w == Len(h)
             l == Len(b)
             all == h \o b
             q == After(s, w)
  <1>1. w \in Nat /\ l \in Nat /\ Len(s) \in Nat /\ w \in 0..Len(s) /\ w <= Len(s)
    OBVIOUS
  <1>2. Len(all) = w + l /\ \A i \in 1..(w + l) : all[i] = IF i <= w THEN h[i] ELSE b[i - w]
    BY ConcatProperties, Zenon
  <1>3. Len(q) = Len(s) - w /\ \A i \in 1..(Len(s) - w) : q[i] = s[w + i]
    BY <1>1, AfterFacts, Zenon
  <1>4. \A i \in 1..Len(all) : i <= Len(s) => s[i] = all[i]
    BY Zenon DEF Agrees
  <1> HIDE DEF w, l, all, q
  <1>5. ASSUME NEW i \in 1..w
        PROVE  s[i] = h[i]
    <2>1. i \in 1..Len(all) /\ i <= Len(s) /\ i \in 1..(w + l) /\ i <= w
      BY <1>1, <1>2
    <2> QED
      BY <1>2, <1>4, <2>1, Zenon
  <1>6. ASSUME NEW j \in 1..l, j <= Len(q)
        PROVE  q[j] = b[j]
    <2>1. /\ w + j \in 1..Len(all) /\ w + j <= Len(s) /\ w + j \in 1..(w + l) /\ ~ (w + j <= w)
          /\ j \in 1..(Len(s) - w) /\ (w + j) - w = j
      BY <1>1, <1>2, <1>3, <1>6
    <2>2. all[w + j] = b[(w + j) - w]
      BY <1>2, <2>1, Zenon
    <2>3. s[w + j] = all[w + j]
      BY <1>4, <2>1, Zenon
    <2>4. q[j] = s[w + j]
      BY <1>3, <2>1, Zenon
    <2>5. b[(w + j) - w] = b[j]
      BY <2>1, Zenon
    <2> QED
      BY <2>2, <2>3, <2>4, <2>5, Zenon
  <1>7. Agrees(q, b)
    BY <1>6, Zenon DEF Agrees, l
  <1> QED
    BY <1>5, <1>7, Zenon DEF q, w

(* A thing and its members: its bytes are those of its head and of them.    *)
LEMMA BytesOfMembers ==
    ASSUME NEW x \in Things, x.type.kind # "flat"
    PROVE  /\ ForMembers(Bytes, x) \in Seq(Seq(Byte))
           /\ Len(ForMembers(Bytes, x)) = Len(x.value)
           /\ \A i \in 1..Len(x.value) : ForMembers(Bytes, x)[i] = Bytes[Members(x)[i]]
           /\ FlattenSeq(ForMembers(Bytes, x)) \in Seq(Byte)
           /\ Bytes[x] = HeadBytes(x) \o FlattenSeq(ForMembers(Bytes, x))
           /\ Len(Bytes[x]) = HeadSize(x) + EndOf(ForMembers(Bytes, x), Len(x.value))
  <1> DEFINE pieces == ForMembers(Bytes, x)
             n == Len(x.value)
             flat == FlattenSeq(pieces)
             head == HeadBytes(x)
  <1>1. n \in Nat
    BY ThingFacts, Zenon
  <1>2. pieces \in Seq(Seq(Byte))
    BY BytesFacts, ForMembersTyped, Zenon
  <1>3. pieces = [i \in 1..n |-> Bytes[Members(x)[i]]]
    BY Zenon DEF ForMembers
  <1>4. Bytes[x] = head \o flat
    BY BytesFacts, Zenon
  <1> HIDE DEF pieces, n
  <1>5. Len(pieces) = n /\ \A i \in 1..n : pieces[i] = Bytes[Members(x)[i]]
    BY <1>1, <1>3
  <1>6. flat \in Seq(Byte) /\ Len(flat) = EndOf(pieces, Len(pieces))
    BY <1>2, FlattenPlaces, Zenon
  <1>7. head \in Seq(Byte) /\ Len(head) = HeadSize(x)
    BY HeadFacts, Zenon
  <1>8. Len(head \o flat) = Len(head) + Len(flat)
    <2> HIDE DEF head, flat
    <2> QED
      BY <1>6, <1>7, ConcatProperties
  <1> QED
    BY <1>2, <1>4, <1>5, <1>6, <1>7, <1>8, Zenon DEF pieces, n

MembersRead(x) ==
    \A i \in 1..Len(x.value) :
      ReadsAs(Read[PartType(x.type, i)], Bytes[Members(x)[i]], x.value[i])

LEMMA FlatReads ==
    ASSUME NEW x \in Things, x.type.kind = "flat"
    PROVE  ReadsAs(Read[x.type], Bytes[x], x.value)
  <1> DEFINE t == x.type
             v == x.value
             n == Len(v)
  <1>1. Bytes[x] = v
    BY BytesFacts, Zenon
  <1>2. t \in Types /\ t.size = n /\ v \in Seq(Byte)
    BY ThingFacts, Zenon
  <1> SUFFICES ASSUME NEW s \in Seq(Byte), Agrees(s, v)
               PROVE  Read[t][s] = IF n <= Len(s) THEN Got(v, After(s, n)) ELSE Threw
    BY <1>1, Zenon DEF ReadsAs
  <1>3. Read[t][s] = ReadBy(Read, t, s)
    BY <1>2, ReadFacts, Zenon
  <1>4. ReadBy(Read, t, s) = IF Len(s) < t.size THEN Threw
                             ELSE Got(SubSeq(s, 1, t.size), After(s, t.size))
    BY DEF ReadBy
  <1>5. n \in Nat /\ Len(s) \in Nat
    BY <1>2
  <1>6. CASE n <= Len(s)
    <2>1. ~ (Len(s) < n)
      <3> HIDE DEF n
      <3> QED
        BY <1>5, <1>6
    <2>2. SubSeq(s, 1, n) = v
      <3> DEFINE p == SubSeq(s, 1, n)
      <3>1. \A i \in 1..n : s[i] \in Byte /\ s[i] = v[i]
        <4>1. \A i \in 1..n : i <= Len(s) /\ i \in 1..Len(s)
          <5> HIDE DEF n
          <5> QED
            BY <1>5, <1>6
        <4>2. \A i \in 1..n : s[i] = v[i]
          BY <4>1, Zenon DEF Agrees
        <4>3. \A i \in 1..Len(s) : s[i] \in Byte
          OBVIOUS
        <4> QED
          BY <4>1, <4>2, <4>3, Zenon
      <3>2. 1 \in Int /\ n \in Int
        BY <1>5
      <3> HIDE DEF n
      <3>3. /\ p \in Seq(Byte)
            /\ Len(p) = IF 1 <= n THEN n - 1 + 1 ELSE 0
            /\ \A i \in 1..(n - 1 + 1) : p[i] = s[1 + i - 1]
        BY <3>1, <3>2, SubSeqProperties
      <3> HIDE DEF p
      <3>4. Len(p) = n /\ \A i \in 1..n : p[i] = s[i]
        BY <1>5, <3>3
      <3>5. Len(p) = Len(v) /\ \A i \in 1..Len(p) : p[i] = v[i]
        BY <3>1, <3>4, Zenon DEF n
      <3>6. p = v
        BY <1>2, <3>3, <3>5, SeqsEqual, Zenon
      <3> QED
        BY <3>6 DEF p
    <2> QED
      BY <1>2, <1>3, <1>4, <1>6, <2>1, <2>2, Zenon
  <1>7. CASE ~ (n <= Len(s))
    <2>1. Len(s) < n
      <3> HIDE DEF n
      <3> QED
        BY <1>5, <1>7
    <2> QED
      BY <1>2, <1>3, <1>4, <1>7, <2>1, Zenon
  <1> QED
    BY <1>6, <1>7

LEMMA TupleReads ==
    ASSUME NEW x \in Things, x.type.kind = "tuple", MembersRead(x)
    PROVE  ReadsAs(Read[x.type], Bytes[x], x.value)
  <1> DEFINE t == x.type
             v == x.value
             n == Len(v)
             pieces == ForMembers(Bytes, x)
             flat == FlattenSeq(pieces)
             reads == [i \in 1..Len(t.of) |-> Read[t.of[i]]]
  <1>1. t \in Types /\ n \in Nat /\ Len(t.of) = n /\ v = [i \in 1..n |-> v[i]]
    BY ThingFacts, Zenon
  <1>2. x.type.kind # "flat" /\ x.type.kind # "list"
    OBVIOUS
  <1>3. /\ pieces \in Seq(Seq(Byte)) /\ Len(pieces) = n
        /\ \A i \in 1..n : pieces[i] = Bytes[Members(x)[i]]
        /\ flat \in Seq(Byte) /\ Bytes[x] = HeadBytes(x) \o flat
    BY <1>2, BytesOfMembers, Zenon
  <1>4. Bytes[x] = flat
    <2>1. HeadBytes(x) = <<>>
      BY <1>2, Zenon DEF HeadBytes
    <2>2. <<>> \o flat = flat
      <3> HIDE DEF flat
      <3> QED
        BY <1>3, ConcatEmptySeq
    <2> QED
      BY <1>3, <2>1, <2>2, Zenon
  <1>5. Len(reads) = n /\ \A i \in 1..n : reads[i] = Read[t.of[i]]
    <2>1. reads = [i \in 1..n |-> Read[t.of[i]]]
      BY <1>1, Zenon
    <2> HIDE DEF reads, n
    <2>2. \A i \in 1..n : reads[i] = Read[t.of[i]]
      BY <2>1, Zenon
    <2>3. reads = [i \in 1..n |-> reads[i]]
      BY <2>1, <2>2, Zenon
    <2> QED
      BY <1>1, <2>2, <2>3, LengthOf, Zenon
  <1>6. ASSUME NEW i \in 1..n
        PROVE  ReadsAs(reads[i], pieces[i], v[i])
    <2>1. PartType(x.type, i) = t.of[i]
      BY Zenon DEF PartType
    <2>2. ReadsAs(Read[PartType(x.type, i)], Bytes[Members(x)[i]], v[i])
      BY Zenon DEF MembersRead
    <2> HIDE DEF reads, pieces, v
    <2> QED
      BY <1>3, <1>5, <2>1, <2>2, Zenon
  <1> SUFFICES ASSUME NEW s \in Seq(Byte), Agrees(s, flat)
               PROVE  Read[t][s] = IF Len(flat) <= Len(s) THEN Got(v, After(s, Len(flat))) ELSE Threw
    BY <1>4, Zenon DEF ReadsAs
  <1>7. Read[t][s] = ReadAll(reads, s)
    <2>1. Read[t][s] = ReadBy(Read, t, s)
      BY <1>1, ReadFacts, Zenon
    <2>2. ReadBy(Read, t, s) = ReadAll(reads, s)
      BY DEF ReadBy
    <2> QED
      BY <2>1, <2>2, Zenon
  <1>8. Len(flat) = EndOf(pieces, n)
    BY <1>3, FlattenPlaces, Zenon
  <1>9. ReadAll(reads, s) = UptoGot(v, pieces, s, n)
    <2> HIDE DEF reads, pieces, v, n
    <2> QED
      BY <1>3, <1>5, <1>6, ReadAllReads, Zenon
  <1>10. UptoGot(v, pieces, s, n) = IF EndOf(pieces, n) <= Len(s) THEN Got(v, After(s, EndOf(pieces, n)))
                                    ELSE Threw
    BY <1>1, Zenon DEF UptoGot
  <1> QED
    BY <1>7, <1>8, <1>9, <1>10, Zenon

(* A list is read by a container of the same elements, if that has room.    *)
LEMMA ListReads ==
    ASSUME NEW x \in Things, x.type.kind = "list", MembersRead(x),
           NEW t \in Types, t.kind = "list", t.of = x.type.of
    PROVE  IF t.room \in 0..(Len(x.value) - 1)
           THEN \A s \in Seq(Byte) : Agrees(s, Bytes[x]) => Read[t][s] = Threw
           ELSE ReadsAs(Read[t], Bytes[x], x.value)
  <1> DEFINE v == x.value
             n == Len(v)
             pieces == ForMembers(Bytes, x)
             flat == FlattenSeq(pieces)
             head == HeadBytes(x)
             W == SizeWidth
             small == t.room \in 0..(n - 1)
             reads == [i \in 1..n |-> Read[t.of]]
             e == EndOf(pieces, n)
  <1>1. x.type \in Types /\ n \in Nat /\ v = [i \in 1..n |-> v[i]] /\ Shifted(n)[W] = 0
    BY ThingFacts, Zenon
  <1>2. x.type.kind # "flat" /\ x.type.kind # "tuple"
    OBVIOUS
  <1>3. /\ pieces \in Seq(Seq(Byte)) /\ Len(pieces) = n
        /\ \A i \in 1..n : pieces[i] = Bytes[Members(x)[i]]
        /\ flat \in Seq(Byte) /\ Bytes[x] = head \o flat
        /\ Len(Bytes[x]) = HeadSize(x) + e
    BY <1>2, BytesOfMembers, Zenon
  <1>4. head = Count(n) /\ HeadSize(x) = W
    BY Zenon DEF HeadBytes, HeadSize
  <1>5. /\ W \in Nat /\ head \in Seq(Byte) /\ Len(head) = W
    <2>1. W \in Nat
      BY CodecAssumption
    <2>2. head \in Seq(Byte) /\ Len(head) = HeadSize(x)
      BY HeadFacts, Zenon
    <2> QED
      BY <1>4, <2>1, <2>2, Zenon
  <1>6. e \in Nat /\ Len(flat) = e
    <2>1. Len(flat) = EndOf(pieces, n)
      BY <1>3, FlattenPlaces, Zenon
    <2>2. Len(flat) \in Nat
      <3> HIDE DEF flat
      <3> QED
        BY <1>3
    <2> QED
      BY <2>1, <2>2, Zenon
  <1>7. Len(reads) = n /\ \A i \in 1..n : reads[i] = Read[t.of]
    <2>1. \A i \in 1..n : reads[i] = Read[t.of]
      OBVIOUS
    <2>2. reads = [i \in 1..n |-> reads[i]]
      OBVIOUS
    <2> HIDE DEF reads, n
    <2> QED
      BY <1>1, <2>1, <2>2, LengthOf, Zenon
  <1>8. ASSUME NEW i \in 1..n
        PROVE  ReadsAs(reads[i], pieces[i], v[i])
    <2>1. PartType(x.type, i) = t.of
      BY <1>2, Zenon DEF PartType
    <2>2. ReadsAs(Read[PartType(x.type, i)], Bytes[Members(x)[i]], v[i])
      BY Zenon DEF MembersRead
    <2> HIDE DEF reads, pieces, v
    <2> QED
      BY <1>3, <1>7, <2>1, <2>2, Zenon
  <1>9. ASSUME NEW s \in Seq(Byte), Agrees(s, Bytes[x])
        PROVE  Read[t][s] = IF small THEN Threw
                            ELSE IF Len(Bytes[x]) <= Len(s) THEN Got(v, After(s, Len(Bytes[x]))) ELSE Threw
    <2>1. Read[t][s] = ReadBy(Read, t, s)
      BY ReadFacts, Zenon
    <2>2. ReadBy(Read, t, s) =
            IF Len(s) < W \/ t.room \in 0..(CountOf(s) - 1) THEN Threw
            ELSE ReadAll([i \in 1..CountOf(s) |-> Read[t.of]], After(s, W))
      <3>1. t.kind # "flat" /\ t.kind # "tuple"
        OBVIOUS
      <3> QED
        BY <3>1 DEF ReadBy
    <2>3. Len(Bytes[x]) = W + e
      BY <1>3, <1>4, Zenon
    <2>4. Len(s) \in Nat
      OBVIOUS
    <2>5. CASE Len(s) < W
      <3>1. ~ (Len(Bytes[x]) <= Len(s))
        <4> HIDE DEF W, e
        <4> QED
          BY <1>5, <1>6, <2>3, <2>4, <2>5
      <3> QED
        BY <2>1, <2>2, <2>5, <3>1, Zenon
    <2>6. CASE ~ (Len(s) < W)
      <3>1. Len(head) <= Len(s) /\ W \in 0..Len(s)
        <4>1. W <= Len(s) /\ W \in 0..Len(s)
          <5> HIDE DEF W
          <5> QED
            BY <1>5, <2>4, <2>6
        <4> QED
          BY <1>5, <4>1, Zenon
      <3> DEFINE q == After(s, W)
      <3>2. Agrees(q, flat) /\ \A i \in 1..W : s[i] = head[i]
        <4>1. Agrees(s, head \o flat)
          BY <1>3, <1>9, Zenon
        <4> HIDE DEF head, flat
        <4>2. Agrees(After(s, Len(head)), flat) /\ \A i \in 1..Len(head) : s[i] = head[i]
          BY <1>3, <1>5, <3>1, <4>1, HeadAgrees, Zenon
        <4> QED
          BY <1>5, <4>2, Zenon
      <3>3. CountOf(s) = n
        <4>1. \A i \in 1..W : s[i] = Count(n)[i]
          BY <1>4, <3>2, Zenon
        <4> HIDE DEF n
        <4> QED
          BY <1>1, <4>1, CountIsRead, Zenon
      <3>4. CASE small
        BY <2>1, <2>2, <3>3, <3>4, Zenon
      <3>5. CASE ~ small
        <4>1. Read[t][s] = ReadAll(reads, q)
          BY <2>1, <2>2, <2>6, <3>3, <3>5, Zenon
        <4>2. q \in Seq(Byte) /\ Len(q) = Len(s) - W
          BY <3>1, AfterFacts, Zenon
        <4>3. ReadAll(reads, q) = UptoGot(v, pieces, q, n)
          <5>1. Agrees(q, FlattenSeq(pieces)) /\ q \in Seq(Byte)
            BY <3>2, <4>2, Zenon
          <5> HIDE DEF reads, pieces, v, n, q
          <5>2. \A k \in 1..Len(pieces) : ReadsAs(reads[k], pieces[k], v[k])
            BY <1>3, <1>8, Zenon
          <5>3. pieces \in Seq(Seq(Byte)) /\ Len(reads) = Len(pieces)
            BY <1>3, <1>7, Zenon
          <5>4. ReadAll(reads, q) = UptoGot(v, pieces, q, Len(pieces))
            BY <5>1, <5>2, <5>3, ReadAllReads, Zenon
          <5> QED
            BY <1>3, <5>4, Zenon
        <4>4. UptoGot(v, pieces, q, n) = IF e <= Len(q) THEN Got(v, After(q, e)) ELSE Threw
          BY <1>1, Zenon DEF UptoGot
        <4>5. e <= Len(q) <=> Len(Bytes[x]) <= Len(s)
          <5> HIDE DEF W, e, q
          <5> QED
            BY <1>5, <1>6, <2>3, <2>4, <4>2
        <4>6. ASSUME e <= Len(q)
              PROVE  After(q, e) = After(s, Len(Bytes[x]))
          <5> DEFINE w == W
          <5>1. w \in Nat /\ e \in Nat /\ w + e <= Len(s)
            BY <1>5, <1>6, <2>3, <4>5, <4>6, Zenon
          <5> HIDE DEF w, e
          <5>2. After(After(s, w), e) = After(s, w + e)
            BY <5>1, AfterAfter
          <5> QED
            BY <2>3, <5>2, Zenon DEF w
        <4> QED
          BY <3>5, <4>1, <4>3, <4>4, <4>5, <4>6, Zenon
      <3> QED
        BY <3>4, <3>5
    <2> QED
      BY <2>5, <2>6
  <1> HIDE DEF v
  <1>10. CASE small
    BY <1>9, <1>10, Zenon DEF v
  <1>11. CASE ~ small
    <2>1. ReadsAs(Read[t], Bytes[x], v)
      BY <1>9, <1>11, Zenon DEF ReadsAs
    <2> QED
      BY <1>11, <2>1, Zenon DEF v
  <1> QED
    BY <1>10, <1>11

(* Everything is read as what has been written. *)
LEMMA ThingReads ==
    \A x \in Things : ReadsAs(Read[x.type], Bytes[x], x.value)
  <1> DEFINE N == {n \in Nat : \A x \in Things : x.type.depth < n =>
                                 ReadsAs(Read[x.type], Bytes[x], x.value)}
  <1>0. \A x \in Things : x.type.depth \in Nat /\ x.type.depth <= MaxDepth
    BY ThingFacts, Zenon
  <1>1. 0 \in N
    <2>1. \A x \in Things : ~ (x.type.depth < 0)
      BY <1>0
    <2> QED
      BY <2>1
  <1>2. ASSUME NEW n \in N
        PROVE  n + 1 \in N
    <2>1. ASSUME NEW x \in Things, x.type.depth < n + 1
          PROVE  ReadsAs(Read[x.type], Bytes[x], x.value)
      <3>1. CASE x.type.kind = "flat"
        BY <3>1, FlatReads, Zenon
      <3>2. CASE x.type.kind # "flat"
        <4>1. ASSUME NEW i \in 1..Len(x.value)
              PROVE  ReadsAs(Read[PartType(x.type, i)], Bytes[Members(x)[i]], x.value[i])
          <5> DEFINE y == Members(x)[i]
          <5>1. /\ y \in Things /\ y.type = PartType(x.type, i) /\ y.value = x.value[i]
                /\ y.type.depth < x.type.depth
            BY <3>2, MemberFacts, Zenon
          <5>2. y.type.depth < n
            <6> DEFINE a == y.type.depth
                       b == x.type.depth
            <6>1. a \in Nat /\ b \in Nat /\ a < b /\ b < n + 1 /\ n \in Nat
              BY <1>0, <2>1, <5>1, Zenon
            <6> HIDE DEF a, b
            <6>2. a < n
              BY <6>1
            <6> QED
              BY <6>2 DEF a
          <5>3. ReadsAs(Read[y.type], Bytes[y], y.value)
            <6> HIDE DEF y
            <6> QED
              BY <5>1, <5>2
          <5> QED
            BY <5>1, <5>3, Zenon
        <4>2. MembersRead(x)
          BY <4>1, Zenon DEF MembersRead
        <4>3. CASE x.type.kind = "tuple"
          BY <4>2, <4>3, TupleReads, Zenon
        <4>4. CASE x.type.kind = "list"
          <5>1. x.type \in Types /\ x.type.room \notin 0..(Len(x.value) - 1)
            BY <4>4, ThingFacts, Zenon
          <5>2. IF x.type.room \in 0..(Len(x.value) - 1)
                THEN \A s \in Seq(Byte) : Agrees(s, Bytes[x]) => Read[x.type][s] = Threw
                ELSE ReadsAs(Read[x.type], Bytes[x], x.value)
            BY <4>2, <4>4, <5>1, ListReads, Zenon
          <5> QED
            BY <5>1, <5>2, Zenon
        <4>5. x.type.kind \in {"flat", "tuple", "list"}
          BY ThingFacts, Zenon
        <4> QED
          BY <3>2, <4>3, <4>4, <4>5, Zenon
      <3> QED
        BY <3>1, <3>2
    <2> QED
      BY <2>1
  <1> HIDE DEF N
  <1>3. \A k \in Nat : k \in N
    <2>1. N \in SUBSET Nat
      BY DEF N
    <2> QED
      BY <1>1, <1>2, <2>1, Inductive
  <1>4. MaxDepth + 1 \in N /\ MaxDepth \in Nat
    BY <1>3, CodecAssumption
  <1>5. \A x \in Things : x.type.depth < MaxDepth + 1
    BY <1>0, <1>4
  <1> QED
    BY <1>4, <1>5 DEF N

(* So is it by another container, unless that is too small. *)
LEMMA ThingIsRead ==
    ASSUME NEW x \in Things, NEW t \in Readers(x.type), NEW s \in Seq(Byte), Agrees(s, Bytes[x])
    PROVE  \/ Len(Bytes[x]) <= Len(s) /\ Read[t][s] = Got(x.value, After(s, Len(Bytes[x])))
           \/ (t # x.type \/ ~ (Len(Bytes[x]) <= Len(s))) /\ Read[t][s] = Threw
  <1>1. t \in Types /\ (t = x.type \/ (t.kind = "list" /\ x.type.kind = "list" /\ t.of = x.type.of))
    BY Zenon DEF Readers
  <1>2. CASE t = x.type
    <2>1. ReadsAs(Read[t], Bytes[x], x.value)
      BY <1>2, ThingReads, Zenon
    <2> QED
      BY <2>1, Zenon DEF ReadsAs
  <1>3. CASE t # x.type
    <2>1. t.kind = "list" /\ x.type.kind = "list" /\ t.of = x.type.of
      BY <1>1, <1>3, Zenon
    <2>2. MembersRead(x)
      <3> SUFFICES ASSUME NEW i \in 1..Len(x.value)
                   PROVE  ReadsAs(Read[PartType(x.type, i)], Bytes[Members(x)[i]], x.value[i])
        BY Zenon DEF MembersRead
      <3>1. x.type.kind # "flat"
        BY <2>1
      <3>2. /\ Members(x)[i] \in Things /\ Members(x)[i].type = PartType(x.type, i)
            /\ Members(x)[i].value = x.value[i]
        BY <3>1, MemberFacts, Zenon
      <3>3. ReadsAs(Read[Members(x)[i].type], Bytes[Members(x)[i]], Members(x)[i].value)
        BY <3>2, ThingReads, Zenon
      <3> QED
        BY <3>2, <3>3, Zenon
    <2>3. IF t.room \in 0..(Len(x.value) - 1)
          THEN \A r \in Seq(Byte) : Agrees(r, Bytes[x]) => Read[t][r] = Threw
          ELSE ReadsAs(Read[t], Bytes[x], x.value)
      BY <1>1, <2>1, <2>2, ListReads, Zenon
    <2>4. CASE t.room \in 0..(Len(x.value) - 1)
      BY <1>3, <2>3, <2>4, Zenon
    <2>5. CASE ~ (t.room \in 0..(Len(x.value) - 1))
      <3>1. ReadsAs(Read[t], Bytes[x], x.value)
        BY <2>3, <2>5, Zenon
      <3> QED
        BY <3>1, Zenon DEF ReadsAs
    <2> QED
      BY <2>4, <2>5
  <1> QED
    BY <1>2, <1>3

(* calculate_size() is the number of bytes that serialize() writes. *)
LEMMA SizeIsLength ==
    \A x \in Things : Len(Bytes[x]) = SizeOf[x]
  <1> DEFINE f == [x \in Things |-> Len(Bytes[x])]
  <1>1. \A x \in Things : f[x] = Len(Bytes[x])
    OBVIOUS
  <1> HIDE DEF f
  <1>2. ASSUME NEW x \in Things, ForMembers(f, x) = ForMembers(SizeOf, x)
        PROVE  f[x] = SizeOf[x]
    <2>1. CASE x.type.kind = "flat"
      <3>1. Bytes[x] = x.value /\ SizeOf[x] = x.type.size /\ x.type.size = Len(x.value)
        BY <2>1, BytesFacts, SizeOfFacts, ThingFacts, Zenon
      <3> QED
        BY <1>1, <3>1, Zenon
    <2>2. CASE x.type.kind # "flat"
      <3> DEFINE pieces == ForMembers(Bytes, x)
                 n == Len(x.value)
                 sizes == ForMembers(SizeOf, x)
      <3>1. /\ pieces \in Seq(Seq(Byte)) /\ Len(pieces) = n
            /\ \A i \in 1..n : pieces[i] = Bytes[Members(x)[i]]
            /\ Len(Bytes[x]) = HeadSize(x) + EndOf(pieces, n)
        BY <2>2, BytesOfMembers, Zenon
      <3>2. SizeOf[x] = HeadSize(x) + SumOf(sizes)
        BY <2>2, SizeOfFacts, Zenon
      <3>3. sizes \in Seq(Nat)
        BY SizeOfFacts, ForMembersTyped, Zenon
      <3>4. SumOf(sizes) = Upto(sizes, Len(sizes))
        BY <3>3, SumTyped, Zenon
      <3>5. sizes = [i \in 1..n |-> f[Members(x)[i]]]
        BY <1>2, <2>2, Zenon DEF ForMembers
      <3>6. \A i \in 1..n : f[Members(x)[i]] = Len(pieces[i])
        <4> TAKE i \in 1..n
        <4>1. Members(x)[i] \in Things
          BY <2>2, MemberFacts, Zenon
        <4> QED
          BY <1>1, <3>1, <4>1, Zenon
      <3>7. Lengths(pieces) = sizes
        <4> HIDE DEF pieces, sizes, n
        <4> QED
          BY <3>1, <3>5, <3>6, Zenon DEF Lengths
      <3>8. Len(sizes) = n
        <4>1. n \in Nat
          BY ThingFacts, Zenon
        <4>2. \A i \in 1..n : sizes[i] = f[Members(x)[i]]
          <5> HIDE DEF sizes, n
          <5> QED
            BY <3>5, Zenon
        <4>3. sizes = [i \in 1..n |-> sizes[i]]
          <5> HIDE DEF sizes, n
          <5> QED
            BY <3>5, <4>2, Zenon
        <4> HIDE DEF sizes, n
        <4> QED
          BY <4>1, <4>3, LengthOf, Zenon
      <3> QED
        BY <1>1, <3>1, <3>2, <3>4, <3>7, <3>8, Zenon DEF EndOf
    <2> QED
      BY <2>1, <2>2
  <1>3. MembersDecide(f, SizeOf)
    BY <1>2, Zenon DEF MembersDecide
  <1>4. \A x \in Things : f[x] = SizeOf[x]
    BY <1>3, StructuralUnique, Zenon
  <1> QED
    BY <1>1, <1>4, Zenon

-----------------------------------------------------------------------------
(* The bytes of the things that are written. *)
Pieces(things) == [i \in 1..Len(things) |-> Bytes[things[i]]]

LEMMA PiecesFacts ==
    ASSUME NEW things \in Seq(Things)
    PROVE  /\ Pieces(things) \in Seq(Seq(Byte)) /\ Len(Pieces(things)) = Len(things)
           /\ \A i \in 1..Len(things) : Pieces(things)[i] = Bytes[things[i]]
           /\ SumOf([i \in 1..Len(things) |-> SizeOf[things[i]]]) = EndOf(Pieces(things), Len(things))
  <1> DEFINE n == Len(things)
             p == Pieces(things)
             sizes == [i \in 1..n |-> SizeOf[things[i]]]
  <1>1. n \in Nat /\ \A i \in 1..n : things[i] \in Things
    OBVIOUS
  <1>2. \A i \in 1..n : p[i] = Bytes[things[i]]
    BY DEF Pieces
  <1>3. p = [i \in 1..n |-> p[i]]
    BY DEF Pieces
  <1>4. \A i \in 1..n : Bytes[things[i]] \in Seq(Byte) /\ Len(Bytes[things[i]]) = SizeOf[things[i]]
                        /\ SizeOf[things[i]] \in Nat
    <2> TAKE i \in 1..n
    <2> DEFINE x == things[i]
    <2>1. x \in Things
      BY <1>1
    <2> HIDE DEF x
    <2>2. Bytes[x] \in Seq(Byte) /\ SizeOf[x] \in Nat
      BY <2>1, BytesFacts, SizeOfFacts
    <2>3. Len(Bytes[x]) = SizeOf[x]
      BY <2>1, SizeIsLength, Zenon
    <2> QED
      BY <2>2, <2>3 DEF x
  <1>5. \A i \in 1..n : sizes[i] = SizeOf[things[i]]
    OBVIOUS
  <1>6. sizes = [i \in 1..n |-> sizes[i]]
    OBVIOUS
  <1> HIDE DEF n, p, sizes
  <1>7. Len(p) = n
    BY <1>1, <1>3, LengthOf, Zenon
  <1>8. p \in Seq(Seq(Byte))
    <2> DEFINE V == Seq(Byte)
    <2>1. \A i \in 1..n : p[i] \in V
      BY <1>2, <1>4, Zenon
    <2> HIDE DEF V
    <2>2. p \in Seq(V)
      BY <1>1, <1>3, <2>1
    <2> QED
      BY <2>2 DEF V
  <1>9. Lengths(p) = sizes
    BY <1>2, <1>4, <1>5, <1>6, <1>7, Zenon DEF Lengths
  <1>10. SumOf(sizes) = Upto(sizes, n)
    <2>1. \A i \in 1..n : sizes[i] \in Nat
      BY <1>4, <1>5, Zenon
    <2>2. sizes \in Seq(Nat)
      BY <1>1, <1>6, <2>1
    <2>3. Len(sizes) = n
      BY <1>1, <1>6, LengthOf, Zenon
    <2> QED
      BY <2>2, <2>3, SumTyped, Zenon
  <1>11. SumOf(sizes) = EndOf(p, n)
    BY <1>9, <1>10, Zenon DEF EndOf
  <1> QED
    BY <1>2, <1>7, <1>8, <1>11, Zenon DEF n, p, sizes

(* Pieces behind pieces. *)
LEMMA EndsBehind ==
    ASSUME NEW S, NEW p \in Seq(Seq(S)), NEW t \in Seq(Seq(S)), NEW q \in Seq(Seq(S)),
           Len(q) = Len(p) + Len(t),
           \A i \in 1..Len(p) : q[i] = p[i],
           \A i \in 1..Len(t) : q[Len(p) + i] = t[i]
    PROVE  /\ \A k \in 0..Len(p) : EndOf(q, k) = EndOf(p, k)
           /\ \A k \in 0..Len(t) : EndOf(q, Len(p) + k) = EndOf(p, Len(p)) + EndOf(t, k)
  <1> DEFINE a == Len(p)
             b == Len(t)
             c == EndOf(p, a)
  <1>1. a \in Nat /\ b \in Nat /\ Len(q) = a + b
    OBVIOUS
  <1>2. /\ EndOf(q, 0) = 0
        /\ \A k \in 1..Len(q) : EndOf(q, k) = EndOf(q, k - 1) + Len(q[k])
    BY EndsAdd, Zenon
  <1>3. /\ EndOf(p, 0) = 0
        /\ \A k \in 1..a : EndOf(p, k) = EndOf(p, k - 1) + Len(p[k])
        /\ \A k \in 0..a : EndOf(p, k) \in Nat
    BY EndsAdd, Zenon
  <1>4. /\ EndOf(t, 0) = 0
        /\ \A k \in 1..b : EndOf(t, k) = EndOf(t, k - 1) + Len(t[k])
        /\ \A k \in 0..b : EndOf(t, k) \in Nat
    BY EndsAdd, Zenon
  <1>5. \A i \in 1..b : Len(t[i]) \in Nat
    OBVIOUS
  <1>6. \A i \in 1..b : q[a + i] = t[i]
    OBVIOUS
  <1>7. \A i \in 1..a : q[i] = p[i]
    OBVIOUS
  <1> DEFINE N == {k \in Nat : k <= a => EndOf(q, k) = EndOf(p, k)}
             M == {k \in Nat : k <= b => EndOf(q, a + k) = c + EndOf(t, k)}
  <1> HIDE DEF a, b
  <1>8. 0 \in N
    BY <1>2, <1>3
  <1>9. ASSUME NEW k \in N
        PROVE  k + 1 \in N
    <2> SUFFICES ASSUME k + 1 <= a
                 PROVE  EndOf(q, k + 1) = EndOf(p, k + 1)
      OBVIOUS
    <2> DEFINE m == k + 1
    <2>1. m \in 1..a /\ m \in 1..Len(q) /\ m - 1 = k /\ EndOf(q, k) = EndOf(p, k)
      BY <1>1
    <2> HIDE DEF m, N
    <2>2. EndOf(q, m) = EndOf(p, m)
      BY <1>2, <1>3, <1>7, <2>1, Zenon
    <2> QED
      BY <2>2 DEF m
  <1> HIDE DEF N
  <1>10. \A k \in Nat : k \in N
    <2>1. N \in SUBSET Nat
      BY DEF N
    <2> QED
      BY <1>8, <1>9, <2>1, Inductive
  <1>11. \A k \in 0..a : EndOf(q, k) = EndOf(p, k)
    BY <1>10 DEF N
  <1>12. c \in Nat /\ EndOf(q, a) = c
    <2>1. a \in 0..a
      BY <1>1
    <2> QED
      BY <1>3, <1>11, <2>1, Zenon
  <1> HIDE DEF c
  <1>13. 0 \in M
    <2>1. a + 0 = a /\ c + 0 = c
      BY <1>1, <1>12
    <2>2. EndOf(q, a + 0) = c + EndOf(t, 0)
      BY <1>4, <1>12, <2>1, Zenon
    <2> QED
      BY <2>2
  <1>14. ASSUME NEW k \in M
         PROVE  k + 1 \in M
    <2> SUFFICES ASSUME k + 1 <= b
                 PROVE  EndOf(q, a + (k + 1)) = c + EndOf(t, k + 1)
      OBVIOUS
    <2> DEFINE m == k + 1
               d == a + m
    <2>1. /\ m \in 1..b /\ d \in 1..Len(q) /\ m - 1 = k /\ d - 1 = a + k /\ k \in 0..b
          /\ EndOf(q, a + k) = c + EndOf(t, k)
      BY <1>1
    <2> HIDE DEF M
    <2>2. q[d] = t[m]
      BY <1>6, <2>1, Zenon
    <2> HIDE DEF m, d
    <2>3. EndOf(q, d) = (c + EndOf(t, k)) + Len(t[m])
      BY <1>2, <2>1, <2>2, Zenon
    <2>4. EndOf(t, m) = EndOf(t, k) + Len(t[m])
      BY <1>4, <2>1, Zenon
    <2>5. EndOf(q, d) = c + EndOf(t, m)
      <3> DEFINE u == EndOf(t, k)
                 l == Len(t[m])
      <3>1. u \in Nat /\ l \in Nat
        BY <1>4, <1>5, <2>1, Zenon
      <3>2. EndOf(q, d) = (c + u) + l /\ EndOf(t, m) = u + l
        BY <2>3, <2>4
      <3> HIDE DEF u, l
      <3> QED
        BY <1>12, <3>1, <3>2
    <2> QED
      BY <2>5 DEF d, m
  <1> HIDE DEF M
  <1>15. \A k \in Nat : k \in M
    <2>1. M \in SUBSET Nat
      BY DEF M
    <2> QED
      BY <1>13, <1>14, <2>1, Inductive
  <1>16. \A k \in 0..b : EndOf(q, a + k) = c + EndOf(t, k)
    BY <1>15 DEF M
  <1> QED
    BY <1>11, <1>16, Zenon DEF a, b, c

(* What has been written is at the start of the buffer, in order, and the   *)
(* free space behind it; the reader has the bytes that follow what it got.  *)
Reading(m, k) ==
    /\ reader.got = [i \in 1..k |-> written[i].value]
    /\ EndOf(Pieces(written), k) <= m
    /\ reader.bytes = After(SubSeq(buf, 1, m), EndOf(Pieces(written), k))
    /\ m < Len(buf) => reader.less
    /\ reader.state = "threw" => reader.less

Written ==
    /\ buf \in Seq(Byte) /\ free \in 0..Len(buf) /\ ~overrun /\ written \in Seq(Things)
    /\ Len(buf) - free = EndOf(Pieces(written), Len(written))
    /\ Placed(buf, Pieces(written), Len(written))

ReaderInv ==
    /\ DOMAIN reader = {"bytes", "got", "state", "less"}
    /\ reader.state = "none" => reader.got = <<>>
    /\ reader.state # "none" => \E m \in 0..Len(buf) : \E k \in 0..Len(written) : Reading(m, k)

CodecInv == Written /\ ReaderInv

(* The bytes s, copied to the start of the free space. *)
LEMMA CopiedFacts ==
    ASSUME NEW b \in Seq(Byte), NEW room \in 0..Len(b), NEW s \in Seq(Byte), Len(s) <= room
    PROVE  /\ Copied(b, room, s) \in Seq(Byte) /\ Len(Copied(b, room, s)) = Len(b)
           /\ \A i \in 1..(Len(b) - room) : Copied(b, room, s)[i] = b[i]
           /\ \A i \in 1..Len(s) : Copied(b, room, s)[(Len(b) - room) + i] = s[i]
  <1> DEFINE l == Len(b)
             a == l - room
             n == Len(s)
             c == [i \in 1..l |-> IF i - a \in 1..n THEN s[i - a] ELSE b[i]]
  <1>1. /\ l \in Nat /\ n \in Nat /\ room \in Nat /\ room <= l /\ n <= room
        /\ \A i \in 1..l : b[i] \in Byte /\ \A j \in 1..n : s[j] \in Byte
    OBVIOUS
  <1>2. Copied(b, room, s) = c
    BY DEF Copied
  <1>3. \A i \in 1..n : s[i] \in Byte
    OBVIOUS
  <1>4. \A i \in 1..l : b[i] \in Byte
    OBVIOUS
  <1> HIDE DEF l, n
  <1>5. \A i \in 1..l : c[i] = IF i - a \in 1..n THEN s[i - a] ELSE b[i]
    OBVIOUS
  <1>6. c \in [1..l -> Byte]
    <2>1. \A i \in 1..l : (IF i - a \in 1..n THEN s[i - a] ELSE b[i]) \in Byte
      <3> HIDE DEF a
      <3> QED
        BY <1>3, <1>4, Zenon
    <2> QED
      BY <2>1
  <1> HIDE DEF c
  <1>7. c \in Seq(Byte) /\ Len(c) = l
    BY <1>1, <1>6
  <1>8. ASSUME NEW i \in 1..a
        PROVE  c[i] = b[i]
    <2>1. i \in 1..l /\ ~ (i - a \in 1..n)
      BY <1>1
    <2> HIDE DEF a
    <2> QED
      BY <1>5, <2>1, Zenon
  <1>9. ASSUME NEW i \in 1..n
        PROVE  c[a + i] = s[i]
    <2> DEFINE k == a + i
    <2>1. k \in 1..l /\ k - a = i
      BY <1>1
    <2> HIDE DEF k, a
    <2>2. c[k] = s[i]
      BY <1>5, <2>1, Zenon
    <2> QED
      BY <2>2 DEF k
  <1> QED
    BY <1>2, <1>7, <1>8, <1>9, Zenon DEF l, a, n

(* realloc(): there is room for n bytes more, and nothing else moves.       *)
LEMMA ReallocFacts ==
    ASSUME buf \in Seq(Byte), free \in 0..Len(buf), NEW n \in Nat
    PROVE  /\ Realloc(n).buf \in Seq(Byte) /\ Realloc(n).free \in 0..Len(Realloc(n).buf)
           /\ n <= Realloc(n).free
           /\ Len(Realloc(n).buf) - Realloc(n).free = Len(buf) - free
           /\ \A i \in 1..(Len(buf) - free) : Realloc(n).buf[i] = buf[i]
  <1> DEFINE r == Realloc(n)
             l == Len(buf)
  <1>1. l \in Nat /\ free \in Nat /\ free <= l
    OBVIOUS
  <1>2. CASE ~ (free < n)
    <2>1. r = [buf |-> buf, free |-> free]
      BY <1>2, Zenon DEF Realloc
    <2> HIDE DEF r
    <2>2. r.buf = buf /\ r.free = free
      BY <2>1
    <2>3. n <= free
      BY <1>1, <1>2
    <2> QED
      BY <2>2, <2>3, Zenon DEF r
  <1>3. CASE free < n
    <2> DEFINE m == n - free
               z == [i \in 1..m |-> 0]
               g == buf \o z
    <2>1. r = [buf |-> g, free |-> n]
      BY <1>3 DEF Realloc, Grown
    <2>2. m \in Nat
      BY <1>1, <1>3
    <2>3. z \in Seq(Byte) /\ Len(z) = m
      <3> HIDE DEF m
      <3>1. 0 \in Byte
        BY DEF Byte
      <3> DEFINE B == Byte
      <3>2. 0 \in B
        BY <3>1
      <3> HIDE DEF B
      <3>3. z \in Seq(B) /\ Len(z) = m
        BY <2>2, <3>2
      <3> QED
        BY <3>3 DEF B
    <2> HIDE DEF r, z
    <2>4. /\ g \in Seq(Byte) /\ Len(g) = l + Len(z)
          /\ \A i \in 1..(l + Len(z)) : g[i] = IF i <= l THEN buf[i] ELSE z[i - l]
      BY <2>3, ConcatProperties
    <2> HIDE DEF g, l, m
    <2>5. r.buf = g /\ r.free = n
      BY <2>1
    <2>6. Len(g) = l + (n - free)
      BY <2>3, <2>4, Zenon DEF m
    <2>7. n \in 0..Len(g) /\ n <= n /\ Len(g) - n = l - free
      BY <1>1, <2>6
    <2>8. ASSUME NEW i \in 1..(l - free)
          PROVE  g[i] = buf[i]
      <3>1. i \in 1..(l + Len(z)) /\ i <= l
        BY <1>1, <2>2, <2>3
      <3> QED
        BY <2>4, <3>1, Zenon
    <2> QED
      BY <2>4, <2>5, <2>7, <2>8, Zenon DEF r, l
  <1> QED
    BY <1>2, <1>3

(* The pieces of what is there and of what comes behind it, in a buffer.    *)
Behind(b, c, p, t, q, s) ==
    /\ Len(q) = Len(p) + Len(t)
    /\ \A i \in 1..Len(p) : q[i] = p[i]
    /\ \A i \in 1..Len(t) : q[Len(p) + i] = t[i]
    /\ Placed(b, p, Len(p)) /\ Placed(s, t, Len(t))
    /\ \A i \in 1..EndOf(p, Len(p)) : c[i] = b[i]
    /\ \A i \in 1..EndOf(t, Len(t)) : c[EndOf(p, Len(p)) + i] = s[i]

LEMMA PlacedBehind ==
    ASSUME NEW p \in Seq(Seq(Byte)), NEW t \in Seq(Seq(Byte)), NEW q \in Seq(Seq(Byte)),
           NEW b, NEW c, NEW s, Behind(b, c, p, t, q, s)
    PROVE  Placed(c, q, Len(q))
  <1> DEFINE m == Len(p)
             n == Len(t)
             e == EndOf(p, m)
  <1>0. /\ Len(q) = m + n
        /\ (\A i \in 1..m : q[i] = p[i]) /\ (\A i \in 1..n : q[m + i] = t[i])
        /\ Placed(b, p, m) /\ Placed(s, t, n)
        /\ (\A i \in 1..e : c[i] = b[i]) /\ (\A i \in 1..EndOf(t, n) : c[e + i] = s[i])
    BY Zenon DEF Behind
  <1>1. m \in Nat /\ n \in Nat /\ Len(q) = m + n
    BY <1>0
  <1>2. /\ \A k \in 0..m : EndOf(q, k) = EndOf(p, k)
        /\ \A k \in 0..n : EndOf(q, m + k) = e + EndOf(t, k)
    BY <1>0, EndsBehind, Zenon
  <1>3. /\ \A k \in 0..m : EndOf(p, k) \in Nat
        /\ \A k \in 1..m : EndOf(p, k) = EndOf(p, k - 1) + Len(p[k])
        /\ \A k \in 0..m : \A j \in 0..k : EndOf(p, j) <= EndOf(p, k)
    BY EndsAdd, Zenon
  <1>4. /\ \A k \in 0..n : EndOf(t, k) \in Nat
        /\ \A k \in 1..n : EndOf(t, k) = EndOf(t, k - 1) + Len(t[k])
        /\ \A k \in 0..n : \A j \in 0..k : EndOf(t, j) <= EndOf(t, k)
    BY EndsAdd, Zenon
  <1>5. (\A i \in 1..m : q[i] = p[i]) /\ (\A i \in 1..n : q[m + i] = t[i])
    BY <1>0
  <1>6. (\A i \in 1..m : Len(p[i]) \in Nat) /\ (\A i \in 1..n : Len(t[i]) \in Nat)
    OBVIOUS
  <1>7. e = EndOf(p, m)
    OBVIOUS
  <1>7a. e \in Nat
    <2>1. m \in 0..m
      BY <1>1
    <2> QED
      BY <1>3, <2>1, Zenon
  <1>8. \A i \in 1..m : \A j \in 1..Len(p[i]) : b[EndOf(p, i - 1) + j] = p[i][j]
    BY <1>0, Zenon DEF Placed
  <1>9. \A i \in 1..n : \A j \in 1..Len(t[i]) : s[EndOf(t, i - 1) + j] = t[i][j]
    BY <1>0, Zenon DEF Placed
  <1>10. (\A i \in 1..e : c[i] = b[i]) /\ (\A i \in 1..EndOf(t, n) : c[e + i] = s[i])
    BY <1>0
  <1> HIDE DEF m, n, e
  <1>11. ASSUME NEW i \in 1..m, NEW j \in 1..Len(q[i])
         PROVE  c[EndOf(q, i - 1) + j] = q[i][j]
    <2> DEFINE a == EndOf(p, i - 1)
               d == EndOf(p, i)
               l == Len(p[i])
    <2>1. i - 1 \in 0..m /\ i \in 0..m /\ m \in 0..m /\ i \in 0..m
      BY <1>1
    <2>2. q[i] = p[i] /\ j \in 1..l /\ EndOf(q, i - 1) = a
      BY <1>2, <1>5, <2>1, Zenon
    <2>3. a \in Nat /\ d = a + l /\ d <= e /\ l \in Nat
      BY <1>3, <1>6, <1>7, <2>1, Zenon
    <2> HIDE DEF a, d, l
    <2>4. a + j \in 1..e
      BY <1>7a, <2>2, <2>3
    <2>5. c[a + j] = b[a + j]
      BY <1>10, <2>4, Zenon
    <2>6. b[a + j] = p[i][j]
      BY <1>8, <2>2, Zenon DEF a, l
    <2> QED
      BY <2>2, <2>5, <2>6, Zenon
  <1>12. ASSUME NEW h \in 1..n, NEW j \in 1..Len(q[m + h])
         PROVE  c[EndOf(q, (m + h) - 1) + j] = q[m + h][j]
    <2> DEFINE a == EndOf(t, h - 1)
               d == EndOf(t, h)
               l == Len(t[h])
               z == EndOf(t, n)
    <2>1. h - 1 \in 0..n /\ h \in 0..n /\ n \in 0..n /\ (m + h) - 1 = m + (h - 1)
      BY <1>1
    <2>2. q[m + h] = t[h] /\ j \in 1..l /\ EndOf(q, (m + h) - 1) = e + a
      BY <1>2, <1>5, <2>1, Zenon
    <2>3. a \in Nat /\ d = a + l /\ d <= z /\ l \in Nat /\ z \in Nat
      BY <1>4, <1>6, <2>1, Zenon
    <2>4. c[e + (a + j)] = s[a + j]
      <3> HIDE DEF a, d, l
      <3>1. a + j \in 1..z
        <4> HIDE DEF z
        <4> QED
          BY <2>2, <2>3
      <3> QED
        BY <1>10, <3>1, Zenon
    <2>5. s[a + j] = t[h][j]
      BY <1>9, <2>2, Zenon
    <2>6. (e + a) + j = e + (a + j)
      <3> HIDE DEF a, l
      <3> QED
        BY <1>7a, <2>2, <2>3
    <2> QED
      BY <2>2, <2>4, <2>5, <2>6, Zenon
  <1>13. ASSUME NEW i \in 1..Len(q), NEW j \in 1..Len(q[i])
         PROVE  c[EndOf(q, i - 1) + j] = q[i][j]
    <2>1. CASE i \in 1..m
      BY <1>11, <2>1
    <2>2. CASE i \notin 1..m
      <3> DEFINE h == i - m
      <3>1. h \in 1..n /\ m + h = i
        BY <1>1, <2>2
      <3> HIDE DEF h
      <3>2. j \in 1..Len(q[m + h])
        BY <3>1, Zenon
      <3>3. c[EndOf(q, (m + h) - 1) + j] = q[m + h][j]
        BY <1>12, <3>1, <3>2
      <3> QED
        BY <3>1, <3>3, Zenon
    <2> QED
      BY <2>1, <2>2
  <1> QED
    BY <1>13, Zenon DEF Placed

LEMMA SerializeKeeps ==
    ASSUME Written, NEW things \in Seq(Things), Serialize(things)
    PROVE  Written'
  <1> DEFINE n == Len(things)
             w == Len(written)
             p == Pieces(written)
             t == Pieces(things)
             q == Pieces(written \o things)
             need == SumOf([i \in 1..n |-> SizeOf[things[i]]])
             s == FlattenSeq(t)
             b == Realloc(need).buf
             room == Realloc(need).free
             e == EndOf(p, w)
             c == Copied(b, room, s)
  <1>1. /\ buf \in Seq(Byte) /\ free \in 0..Len(buf) /\ ~overrun /\ written \in Seq(Things)
        /\ Len(buf) - free = e /\ Placed(buf, p, w)
    BY Zenon DEF Written
  <1>2. /\ buf' = c
        /\ free' = IF Len(s) > room THEN 0 ELSE room - Len(s)
        /\ overrun' = (overrun \/ Len(s) > room)
        /\ written' = written \o things
    BY DEF Serialize, Pieces
  <1>3. /\ p \in Seq(Seq(Byte)) /\ Len(p) = w /\ \A i \in 1..w : p[i] = Bytes[written[i]]
    BY <1>1, PiecesFacts, Zenon
  <1>4. /\ t \in Seq(Seq(Byte)) /\ Len(t) = n /\ (\A i \in 1..n : t[i] = Bytes[things[i]])
        /\ need = EndOf(t, n)
    BY PiecesFacts, Zenon
  <1>5. /\ written \o things \in Seq(Things) /\ Len(written \o things) = w + n
        /\ \A i \in 1..(w + n) : (written \o things)[i] = IF i <= w THEN written[i] ELSE things[i - w]
    BY <1>1, ConcatProperties
  <1>6. w \in Nat /\ n \in Nat
    BY <1>1
  <1>7. /\ q \in Seq(Seq(Byte)) /\ Len(q) = w + n
        /\ \A i \in 1..(w + n) : q[i] = Bytes[(written \o things)[i]]
    BY <1>5, PiecesFacts, Zenon
  <1>8. /\ s \in Seq(Byte) /\ Len(s) = EndOf(t, n) /\ Placed(s, t, n)
    BY <1>4, FlattenPlaces, Zenon
  <1>9. \A k \in 0..n : EndOf(t, k) \in Nat
    BY <1>4, EndsAdd, Zenon
  <1>10. need \in Nat /\ need = Len(s) /\ Len(s) \in Nat
    <2>1. n \in 0..n
      BY <1>6
    <2> QED
      BY <1>4, <1>8, <1>9, <2>1, Zenon
  <1> HIDE DEF w, n, p, t, q, s, need
  <1>11. /\ \A i \in 1..Len(p) : q[i] = p[i]
         /\ \A i \in 1..Len(t) : q[Len(p) + i] = t[i]
    <2>1. ASSUME NEW i \in 1..w
          PROVE  q[i] = p[i]
      <3>1. i \in 1..(w + n) /\ i <= w
        BY <1>6
      <3>2. (written \o things)[i] = written[i]
        BY <1>5, <3>1, Zenon
      <3>3. q[i] = Bytes[(written \o things)[i]]
        BY <1>7, <3>1, Zenon
      <3>4. p[i] = Bytes[written[i]]
        BY <1>3, Zenon
      <3> QED
        BY <3>2, <3>3, <3>4, Zenon
    <2>2. ASSUME NEW i \in 1..n
          PROVE  q[w + i] = t[i]
      <3>1. w + i \in 1..(w + n) /\ ~ (w + i <= w) /\ (w + i) - w = i
        BY <1>6
      <3>2. (written \o things)[w + i] = things[i]
        BY <1>5, <3>1, Zenon
      <3> QED
        BY <1>4, <1>7, <3>1, <3>2, Zenon
    <2> QED
      BY <1>3, <1>4, <2>1, <2>2, Zenon
  <1>12. /\ b \in Seq(Byte) /\ room \in 0..Len(b) /\ need <= room
         /\ Len(b) - room = Len(buf) - free
         /\ \A i \in 1..(Len(buf) - free) : b[i] = buf[i]
    BY <1>1, <1>10, ReallocFacts, Zenon
  <1> HIDE DEF b, room
  <1>13. Len(s) <= room /\ Len(b) - room = e
    BY <1>1, <1>10, <1>12, Zenon
  <1>14. /\ c \in Seq(Byte) /\ Len(c) = Len(b)
         /\ \A i \in 1..(Len(b) - room) : c[i] = b[i]
         /\ \A i \in 1..Len(s) : c[(Len(b) - room) + i] = s[i]
    BY <1>8, <1>12, <1>13, CopiedFacts, Zenon
  <1> HIDE DEF c, e
  <1>15. /\ \A i \in 1..e : c[i] = buf[i]
         /\ \A i \in 1..EndOf(t, Len(t)) : c[e + i] = s[i]
    BY <1>1, <1>4, <1>8, <1>12, <1>13, <1>14, Zenon
  <1>16. e \in Nat /\ e = EndOf(p, Len(p))
    <2>1. e = EndOf(p, Len(p))
      BY <1>3, Zenon DEF e
    <2>2. Len(buf) - free \in Nat
      BY <1>1
    <2> QED
      BY <1>1, <2>1, <2>2, Zenon
  <1>17. Placed(c, q, Len(q))
    <2>1. Len(q) = Len(p) + Len(t)
      BY <1>3, <1>4, <1>7, Zenon
    <2>2. Placed(buf, p, Len(p)) /\ Placed(s, t, Len(t))
      BY <1>1, <1>3, <1>4, <1>8, Zenon
    <2>3. Behind(buf, c, p, t, q, s)
      BY <1>11, <1>15, <1>16, <2>1, <2>2, Zenon DEF Behind
    <2> QED
      BY <1>3, <1>4, <1>7, <2>3, PlacedBehind, Zenon
  <1>18. EndOf(q, Len(q)) = e + Len(s)
    <2>1. Len(q) = Len(p) + Len(t) /\ Len(t) \in 0..Len(t)
      BY <1>3, <1>4, <1>6, <1>7
    <2>2. \A k \in 0..Len(t) : EndOf(q, Len(p) + k) = EndOf(p, Len(p)) + EndOf(t, k)
      BY <1>3, <1>4, <1>7, <1>11, <2>1, EndsBehind, Zenon
    <2> QED
      BY <1>4, <1>8, <1>16, <2>1, <2>2, Zenon
  <1>19. free' = room - Len(s) /\ ~overrun' /\ free' \in 0..Len(c)
         /\ Len(c) - free' = e + Len(s)
    <2>1. ~ (Len(s) > room) /\ room \in Nat /\ Len(b) \in Nat
      BY <1>10, <1>12, <1>13
    <2>2. free' = room - Len(s)
      BY <1>2, <2>1, Zenon
    <2>3. ~overrun'
      BY <1>1, <1>2, <2>1, Zenon
    <2>4. free' \in 0..Len(c) /\ Len(c) - free' = e + Len(s)
      BY <1>10, <1>12, <1>13, <1>14, <1>16, <2>1, <2>2
    <2> QED
      BY <2>2, <2>3, <2>4, Zenon
  <1>20. Pieces(written') = q /\ Len(written') = Len(q)
    BY <1>2, <1>5, <1>7, Zenon DEF q, n, w
  <1> QED
    BY <1>1, <1>2, <1>5, <1>14, <1>17, <1>18, <1>19, <1>20, Zenon DEF Written

LEMMA StartReadingKeeps ==
    ASSUME CodecInv, StartReading
    PROVE  CodecInv'
  <1>1. PICK n \in 0..Len(buf) :
          reader' = [bytes |-> SubSeq(buf, 1, n), got |-> <<>>, state |-> "reading",
                     less |-> n < Len(buf)]
    BY DEF StartReading
  <1>2. UNCHANGED <<buf, free, overrun, written>>
    BY DEF StartReading
  <1>3. Written /\ Written'
    <2>1. Written
      BY DEF CodecInv
    <2> QED
      BY <1>2, <2>1 DEF Written
  <1>4. buf \in Seq(Byte) /\ written \in Seq(Things)
    BY <1>3, Zenon DEF Written
  <1> DEFINE p == SubSeq(buf, 1, n)
             P == Pieces(written)
  <1>5. P \in Seq(Seq(Byte))
    BY <1>4, PiecesFacts, Zenon
  <1>6. EndOf(P, 0) = 0
    <2> HIDE DEF P
    <2> QED
      BY <1>5, EndsAdd, Zenon
  <1>7. p \in Seq(Byte)
    BY <1>4
  <1>8. After(p, 0) = p
    <2> HIDE DEF p
    <2> QED
      BY <1>7, AfterNothing
  <1>9. n \in 0..Len(buf) /\ 0 \in 0..Len(written) /\ 0 <= n /\ [i \in 1..0 |-> written[i].value] = <<>>
    BY <1>4
  <1>10. /\ reader'.bytes = p /\ reader'.got = <<>> /\ reader'.state = "reading"
         /\ (n < Len(buf) => reader'.less)
    BY <1>1
  <1> HIDE DEF p
  <1>11. /\ buf' = buf /\ written' = written
    BY <1>2
  <1>12. Reading(n, 0)'
    <2>1. /\ reader'.got = [i \in 1..0 |-> written'[i].value]
          /\ EndOf(Pieces(written'), 0) <= n
          /\ reader'.bytes = After(SubSeq(buf', 1, n), EndOf(Pieces(written'), 0))
          /\ n < Len(buf') => reader'.less
          /\ reader'.state = "threw" => reader'.less
      <3>1. reader'.state # "threw"
        BY <1>10
      <3> QED
        BY <1>6, <1>8, <1>9, <1>10, <1>11, <3>1, Zenon DEF p
    <2> QED
      BY <2>1 DEF Reading
  <1>13. ReaderInv'
    <2>1. reader'.state # "none"
      BY <1>10
    <2>2. \E m \in 0..Len(buf') : \E k \in 0..Len(written') : Reading(m, k)'
      BY <1>9, <1>11, <1>12, Zenon
    <2>3. DOMAIN reader' = {"bytes", "got", "state", "less"}
      BY <1>1
    <2> QED
      BY <2>1, <2>2, <2>3, Zenon DEF ReaderInv
  <1> QED
    BY <1>3, <1>13, Zenon DEF CodecInv

(* What follows the things the reader has got is the next one, as far as    *)
(* the bytes go.                                                            *)
LEMMA NextAgrees ==
    ASSUME Written, NEW m \in 0..Len(buf), NEW k \in 1..Len(written),
           EndOf(Pieces(written), k - 1) <= m
    PROVE  /\ Agrees(After(SubSeq(buf, 1, m), EndOf(Pieces(written), k - 1)), Bytes[written[k]])
           /\ After(SubSeq(buf, 1, m), EndOf(Pieces(written), k - 1)) \in Seq(Byte)
           /\ Len(After(SubSeq(buf, 1, m), EndOf(Pieces(written), k - 1))) =
                m - EndOf(Pieces(written), k - 1)
           /\ SubSeq(buf, 1, m) \in Seq(Byte) /\ Len(SubSeq(buf, 1, m)) = m
           /\ Len(Bytes[written[k]]) \in Nat /\ EndOf(Pieces(written), k - 1) \in Nat
           /\ EndOf(Pieces(written), k) = EndOf(Pieces(written), k - 1) + Len(Bytes[written[k]])
           /\ EndOf(Pieces(written), k) <= Len(buf)
  <1> DEFINE p == SubSeq(buf, 1, m)
             P == Pieces(written)
             w == Len(written)
             a == EndOf(P, k - 1)
             d == EndOf(P, k)
             z == EndOf(P, w)
             q == After(p, a)
             piece == P[k]
  <1>1. /\ buf \in Seq(Byte) /\ free \in 0..Len(buf) /\ written \in Seq(Things)
        /\ Len(buf) - free = z /\ Placed(buf, P, w)
    BY Zenon DEF Written
  <1>2. w \in Nat /\ k \in 1..w /\ k - 1 \in 0..w /\ k \in 0..w /\ w \in 0..w
    BY <1>1
  <1>2a. k \in 0..w /\ w \in 0..w /\ \A i \in 0..w : i \in 0..w
    BY <1>2
  <1>3. P \in Seq(Seq(Byte)) /\ Len(P) = w /\ piece = Bytes[written[k]] /\ piece \in Seq(Byte)
    <2>1. P \in Seq(Seq(Byte)) /\ Len(P) = w /\ \A i \in 1..w : P[i] = Bytes[written[i]]
      BY <1>1, PiecesFacts, Zenon
    <2> HIDE DEF P
    <2>2. piece \in Seq(Byte)
      BY <1>2, <2>1
    <2> QED
      BY <1>2, <2>1, <2>2, Zenon
  <1> HIDE DEF P
  <1>4. /\ \A i \in 0..w : EndOf(P, i) \in Nat
        /\ \A i \in 1..w : EndOf(P, i) = EndOf(P, i - 1) + Len(P[i])
        /\ \A i \in 0..w : \A j \in 0..i : EndOf(P, j) <= EndOf(P, i)
    BY <1>3, EndsAdd, Zenon
  <1>5. a \in Nat /\ d = a + Len(piece) /\ d <= z /\ Len(piece) \in Nat /\ a <= m
    <2>1. Len(piece) \in Nat
      BY <1>3
    <2>2. a <= m
      BY DEF P
    <2> QED
      BY <1>2, <1>4, <2>1, <2>2, Zenon
  <1>6. m \in Nat /\ Len(buf) \in Nat /\ m <= Len(buf) /\ z <= Len(buf) /\ z \in Nat
    <2>1. z \in Nat
      BY <1>2, <1>4, Zenon
    <2> HIDE DEF z
    <2> QED
      BY <1>1, <2>1
  <1>7. p \in Seq(Byte) /\ Len(p) = m /\ \A i \in 1..m : p[i] = buf[i]
    <2>1. \A i \in 1..m : i \in 1..Len(buf)
      BY <1>6
    <2>2. \A i \in 1..Len(buf) : buf[i] \in Byte
      BY <1>1
    <2>3. \A i \in 1..m : buf[i] \in Byte
      BY <2>1, <2>2, Zenon
    <2>4. 1 \in Int /\ m \in Int
      BY <1>6
    <2>5. /\ p \in Seq(Byte)
          /\ Len(p) = IF 1 <= m THEN m - 1 + 1 ELSE 0
          /\ \A i \in 1..(m - 1 + 1) : p[i] = buf[1 + i - 1]
      BY <2>3, <2>4, SubSeqProperties
    <2> HIDE DEF p
    <2> QED
      BY <1>6, <2>5
  <1> HIDE DEF p
  <1>8. a \in 0..Len(p)
    <2> HIDE DEF a
    <2> QED
      BY <1>5, <1>6, <1>7
  <1>9. q \in Seq(Byte) /\ Len(q) = Len(p) - a /\ \A i \in 1..(Len(p) - a) : q[i] = p[a + i]
    BY <1>7, <1>8, AfterFacts, Zenon
  <1>10. \A j \in 1..Len(piece) : buf[a + j] = piece[j]
    BY <1>1, <1>2, Zenon DEF Placed
  <1> HIDE DEF q, a, piece
  <1>11. ASSUME NEW j \in 1..Len(piece), j <= Len(q)
         PROVE  q[j] = piece[j]
    <2>1. j \in 1..(Len(p) - a) /\ a + j \in 1..m
      BY <1>5, <1>6, <1>7, <1>9, <1>11
    <2> QED
      BY <1>7, <1>9, <1>10, <2>1, Zenon
  <1>12. Agrees(q, piece)
    BY <1>11, Zenon DEF Agrees
  <1>13. d <= Len(buf) /\ Len(q) = m - a
    <2>1. d \in Nat
      BY <1>2, <1>4, Zenon
    <2> HIDE DEF d, z
    <2> QED
      BY <1>5, <1>6, <1>7, <1>9, <2>1
  <1> QED
    BY <1>3, <1>5, <1>7, <1>9, <1>12, <1>13, Zenon DEF q, a, d, p, P, piece

LEMMA DeserializeKeeps ==
    ASSUME CodecInv, Deserialize
    PROVE  CodecInv'
  <1>1. /\ reader.state = "reading" /\ Len(reader.got) < Len(written)
        /\ UNCHANGED <<buf, free, overrun, written>>
    BY DEF Deserialize
  <1>2. Written /\ Written'
    <2>1. Written
      BY DEF CodecInv
    <2> QED
      BY <1>1, <2>1 DEF Written
  <1>3. PICK m \in 0..Len(buf), h \in 0..Len(written) : Reading(m, h)
    <2>1. reader.state # "none"
      BY <1>1
    <2> QED
      BY <2>1, Zenon DEF CodecInv, ReaderInv
  <1> DEFINE P == Pieces(written)
             k == h + 1
             x == written[k]
             p == SubSeq(buf, 1, m)
             a == EndOf(P, h)
             d == EndOf(P, k)
             s == reader.bytes
             l == Len(Bytes[x])
             vals == [i \in 1..h |-> written[i].value]
  <1>4. /\ reader.got = vals /\ a <= m /\ s = After(p, a)
        /\ (m < Len(buf) => reader.less)
    BY <1>3, Zenon DEF Reading
  <1>5. buf \in Seq(Byte) /\ written \in Seq(Things)
    BY <1>2, Zenon DEF Written
  <1>6. h \in Nat /\ Len(reader.got) = h
    <2>1. h \in Nat
      BY <1>5
    <2>2. vals = [i \in 1..h |-> vals[i]]
      OBVIOUS
    <2> HIDE DEF vals
    <2>3. Len(vals) = h
      BY <2>1, <2>2, LengthOf, Zenon
    <2> QED
      BY <1>4, <2>1, <2>3, Zenon
  <1>7. k \in 1..Len(written) /\ k \in 0..Len(written) /\ k - 1 = h /\ m \in 0..Len(buf)
    <2>1. h < Len(written) /\ Len(written) \in Nat
      BY <1>1, <1>5, <1>6
    <2> QED
      BY <1>6, <2>1
  <1>8. x \in Things
    BY <1>5, <1>7
  <1> HIDE DEF k
  <1>9. /\ Agrees(s, Bytes[x]) /\ s \in Seq(Byte) /\ Len(s) = m - a
        /\ p \in Seq(Byte) /\ Len(p) = m
        /\ l \in Nat /\ a \in Nat /\ d = a + l /\ d <= Len(buf)
    <2>1. EndOf(Pieces(written), k - 1) <= m
      BY <1>4, <1>7, Zenon
    <2>2. /\ Agrees(After(SubSeq(buf, 1, m), EndOf(Pieces(written), k - 1)), Bytes[written[k]])
          /\ After(SubSeq(buf, 1, m), EndOf(Pieces(written), k - 1)) \in Seq(Byte)
          /\ Len(After(SubSeq(buf, 1, m), EndOf(Pieces(written), k - 1))) =
               m - EndOf(Pieces(written), k - 1)
          /\ SubSeq(buf, 1, m) \in Seq(Byte) /\ Len(SubSeq(buf, 1, m)) = m
          /\ Len(Bytes[written[k]]) \in Nat /\ EndOf(Pieces(written), k - 1) \in Nat
          /\ EndOf(Pieces(written), k) = EndOf(Pieces(written), k - 1) + Len(Bytes[written[k]])
          /\ EndOf(Pieces(written), k) <= Len(buf)
      BY <1>2, <1>7, <2>1, NextAgrees, Zenon
    <2> QED
      BY <1>4, <1>7, <2>2, Zenon
  <1>10. x.type = written[Len(reader.got) + 1].type
    BY <1>6, Zenon DEF k
  <1>11. PICK t \in Readers(x.type) :
           reader' = IF Read[t][s].ok
                     THEN [reader EXCEPT !.bytes = Read[t][s].rest, !.got = Append(@, Read[t][s].value)]
                     ELSE [reader EXCEPT !.state = "threw", !.less = @ \/ t # x.type]
    <2> DEFINE u == written[Len(reader.got) + 1].type
    <2>1. \E t \in Readers(u) :
             reader' = IF Read[t][reader.bytes].ok
                       THEN [reader EXCEPT !.bytes = Read[t][reader.bytes].rest,
                                           !.got = Append(@, Read[t][reader.bytes].value)]
                       ELSE [reader EXCEPT !.state = "threw", !.less = @ \/ t # u]
      BY DEF Deserialize
    <2>2. u = x.type
      BY <1>10
    <2> HIDE DEF u, x
    <2> QED
      BY <2>1, <2>2, Zenon
  <1>12. buf' = buf /\ written' = written
    BY <1>1
  <1> DEFINE r == Read[t][s]
  <1>13. \/ l <= Len(s) /\ r = Got(x.value, After(s, l))
         \/ (t # x.type \/ ~ (l <= Len(s))) /\ r = Threw
    BY <1>8, <1>9, ThingIsRead, Zenon
  <1> SUFFICES ReaderInv'
    BY <1>2, Zenon DEF CodecInv
  <1> HIDE DEF P, x, p, a, d, s, l, vals, r
  <1>14. reader'.state # "none" /\ \E i \in 0..Len(buf) : \E j \in 0..Len(written) : Reading(i, j)'
    <2>1. CASE l <= Len(s) /\ r = Got(x.value, After(s, l))
      <3> DEFINE v == x.value
                 q == After(s, l)
      <3>1. r = Got(v, q)
        BY <2>1
      <3> HIDE DEF v, q
      <3>2. r.ok /\ r.value = v /\ r.rest = q
        BY <3>1 DEF Got
      <3>3. reader' = [reader EXCEPT !.bytes = q, !.got = Append(@, v)]
        BY <1>11, <3>2, Zenon DEF r
      <3>4. d <= m
        BY <1>4, <1>7, <1>9, <2>1
      <3>5. q = After(p, d)
        <4>1. a + l <= Len(p)
          BY <1>9, <3>4, Zenon
        <4>2. After(After(p, a), l) = After(p, a + l)
          BY <1>9, <4>1, AfterAfter, Zenon
        <4> QED
          BY <1>4, <1>9, <4>2, Zenon DEF q
      <3>6. Append(vals, v) = [i \in 1..k |-> written[i].value]
        <4>1. vals = [i \in 1..h |-> vals[i]] /\ \A i \in 1..h : vals[i] = written[i].value
          BY DEF vals
        <4>2. Append(vals, v) = [i \in 1..(h + 1) |-> IF i = h + 1 THEN v ELSE vals[i]]
          BY <1>6, <4>1, Longer
        <4>3. \A i \in 1..k : (IF i = k THEN v ELSE vals[i]) = written[i].value
          <5>1. \A i \in 1..k : i # k => i \in 1..h
            BY <1>6 DEF k
          <5> QED
            BY <4>1, <5>1, Zenon DEF v, x
        <4> QED
          BY <4>2, <4>3, Zenon DEF k
      <3> DEFINE got == Append(reader.got, v)
      <3>7. got = [i \in 1..k |-> written[i].value]
        BY <1>4, <3>6, Zenon
      <3>8. reader'.got = got /\ reader'.bytes = q /\ reader'.state = "reading"
            /\ reader'.less = reader.less
        <4>1. reader' = [reader EXCEPT !.bytes = q, !.got = got]
          BY <3>3
        <4> HIDE DEF got
        <4>2. DOMAIN reader = {"bytes", "got", "state", "less"}
          BY DEF CodecInv, ReaderInv
        <4> QED
          BY <1>1, <4>1, <4>2
      <3> HIDE DEF got
      <3>9. Reading(m, k)'
        <4>1. /\ reader'.got = [i \in 1..k |-> written'[i].value]
              /\ EndOf(Pieces(written'), k) <= m
              /\ reader'.bytes = After(SubSeq(buf', 1, m), EndOf(Pieces(written'), k))
              /\ m < Len(buf') => reader'.less
          BY <1>4, <1>12, <3>4, <3>5, <3>7, <3>8, Zenon DEF p, d, P
        <4>2. reader'.state # "threw"
          BY <3>8
        <4> QED
          BY <4>1, <4>2 DEF Reading
      <3>10. reader'.state # "none"
        BY <3>8
      <3> QED
        BY <1>7, <3>9, <3>10, Zenon
    <2>2. CASE (t # x.type \/ ~ (l <= Len(s))) /\ r = Threw
      <3>1. ~ r.ok
        BY <2>2 DEF Threw
      <3> DEFINE less == reader.less \/ t # x.type
      <3>2. reader' = [reader EXCEPT !.state = "threw", !.less = less]
        BY <1>11, <3>1, Zenon DEF r
      <3>3. less
        <4>1. CASE ~ (l <= Len(s))
          <5>1. m < Len(buf)
            <6>1. Len(buf) \in Nat /\ m \in Nat
              BY <1>5
            <6> QED
              BY <1>4, <1>9, <4>1, <6>1
          <5> QED
            BY <1>4, <5>1, Zenon
        <4> QED
          BY <2>2, <4>1, Zenon
      <3>4. reader'.got = reader.got /\ reader'.bytes = s /\ reader'.state = "threw"
            /\ reader'.less = less
        <4> HIDE DEF less
        <4>1. DOMAIN reader = {"bytes", "got", "state", "less"}
          BY DEF CodecInv, ReaderInv
        <4> QED
          BY <3>2, <4>1 DEF s
      <3> HIDE DEF less
      <3>5. Reading(m, h)'
        <4>1. /\ reader'.got = [i \in 1..h |-> written'[i].value]
              /\ EndOf(Pieces(written'), h) <= m
              /\ reader'.bytes = After(SubSeq(buf', 1, m), EndOf(Pieces(written'), h))
              /\ reader'.less
          BY <1>4, <1>12, <3>3, <3>4, Zenon DEF p, a, P, vals
        <4> QED
          BY <4>1 DEF Reading
      <3>6. reader'.state # "none"
        BY <3>4
      <3> QED
        BY <3>5, <3>6, Zenon
    <2> QED
      BY <1>13, <2>1, <2>2, Zenon
  <1>15. \E i \in 0..Len(buf') : \E j \in 0..Len(written') : Reading(i, j)'
    BY <1>12, <1>14, Zenon
  <1>16. DOMAIN reader' = {"bytes", "got", "state", "less"}
    <2>1. DOMAIN reader = {"bytes", "got", "state", "less"}
      BY DEF CodecInv, ReaderInv
    <2>2. \/ reader' = [reader EXCEPT !.bytes = r.rest, !.got = Append(@, r.value)]
          \/ reader' = [reader EXCEPT !.state = "threw", !.less = @ \/ t # x.type]
      BY <1>11, Zenon DEF r
    <2> QED
      BY <2>1, <2>2
  <1> QED
    BY <1>14, <1>15, <1>16, Zenon DEF ReaderInv

LEMMA CodecStarts ==
    CodecInit => CodecInv
  <1> SUFFICES ASSUME CodecInit
               PROVE  CodecInv
    OBVIOUS
  <1>1. PICK n \in OldBytes : buf = [i \in 1..n |-> 255] /\ free = n
    BY DEF CodecInit
  <1>2. ~overrun /\ written = <<>> /\ reader.state = "none" /\ reader.got = <<>>
        /\ DOMAIN reader = {"bytes", "got", "state", "less"}
    BY DEF CodecInit
  <1>3. n \in Nat
    BY CodecAssumption
  <1>4. buf \in Seq(Byte) /\ Len(buf) = n
    <2> DEFINE B == Byte
               top == 255
    <2>1. top \in B
      BY DEF Byte
    <2>2. buf = [i \in 1..n |-> top]
      BY <1>1
    <2> HIDE DEF B, top
    <2>3. buf \in Seq(B) /\ Len(buf) = n
      BY <1>3, <2>1, <2>2
    <2> QED
      BY <2>3 DEF B
  <1>5. free \in 0..Len(buf) /\ Len(buf) - free = 0
    BY <1>1, <1>3, <1>4
  <1>6. written \in Seq(Things) /\ Len(written) = 0
    BY <1>2
  <1>7. EndOf(Pieces(written), 0) = 0
    <2> DEFINE P == Pieces(written)
    <2>1. P \in Seq(Seq(Byte))
      BY <1>6, PiecesFacts, Zenon
    <2> HIDE DEF P
    <2>2. EndOf(P, 0) = 0
      BY <2>1, EndsAdd, Zenon
    <2> QED
      BY <2>2 DEF P
  <1>8. Placed(buf, Pieces(written), 0)
    BY DEF Placed
  <1>9. Written
    BY <1>2, <1>4, <1>5, <1>6, <1>7, <1>8, Zenon DEF Written
  <1>10. ReaderInv
    BY <1>2, Zenon DEF ReaderInv
  <1> QED
    BY <1>9, <1>10 DEF CodecInv

LEMMA CodecStays ==
    CodecInv /\ [CodecNext]_codecVars => CodecInv'
  <1> SUFFICES ASSUME CodecInv, [CodecNext]_codecVars
               PROVE  CodecInv'
    OBVIOUS
  <1>1. CASE StartReading
    BY <1>1, StartReadingKeeps
  <1>2. CASE Deserialize
    BY <1>2, DeserializeKeeps
  <1>3. ASSUME NEW things \in Calls, Serialize(things)
        PROVE  CodecInv'
    <2>1. things \in Seq(Things)
      BY CodecAssumption
    <2>2. Written'
      BY <1>3, <2>1, SerializeKeeps DEF CodecInv
    <2>3. reader' = reader /\ reader.state = "none"
      BY <1>3 DEF Serialize
    <2>4. ReaderInv'
      BY <2>3 DEF CodecInv, ReaderInv
    <2> QED
      BY <2>2, <2>4 DEF CodecInv
  <1>4. CASE UNCHANGED codecVars
    BY <1>4 DEF CodecInv, Written, ReaderInv, Reading, codecVars
  <1> QED
    BY <1>1, <1>2, <1>3, <1>4 DEF CodecNext

LEMMA RoundTripHeld ==
    CodecInv => RoundTrip
  <1> SUFFICES ASSUME CodecInv
               PROVE  RoundTrip
    OBVIOUS
  <1>1. ~overrun
    BY DEF CodecInv, Written
  <1>2. CASE reader.state = "none"
    <2>1. reader.got = <<>> /\ reader.state # "threw"
      BY <1>2 DEF CodecInv, ReaderInv
    <2>2. Len(reader.got) = 0
      BY <2>1
    <2>3. reader.got = [i \in 1..0 |-> written[i].value]
      BY <2>1
    <2> QED
      BY <1>1, <2>1, <2>2, <2>3, Zenon DEF RoundTrip
  <1>3. CASE reader.state # "none"
    <2>1. PICK m \in 0..Len(buf), k \in 0..Len(written) : Reading(m, k)
      BY <1>3 DEF CodecInv, ReaderInv
    <2> DEFINE vals == [i \in 1..k |-> written[i].value]
    <2>2. reader.got = vals /\ (reader.state = "threw" => reader.less)
      BY <2>1 DEF Reading
    <2>3. k \in Nat
      <3>1. written \in Seq(Things)
        BY DEF CodecInv, Written
      <3> QED
        BY <3>1
    <2>4. vals = [i \in 1..k |-> vals[i]]
      OBVIOUS
    <2>5. Len(vals) = k
      <3> HIDE DEF vals
      <3> QED
        BY <2>3, <2>4, LengthOf, Zenon
    <2>6. Len(reader.got) = k
      BY <2>2, <2>5, Zenon
    <2> QED
      BY <1>1, <2>2, <2>6, Zenon DEF RoundTrip
  <1> QED
    BY <1>2, <1>3

(* The deserializer gives back what has been serialized, in order, and no   *)
(* byte is written behind the buffer: for all types and values, whatever    *)
(* was in the buffer before and however much of it has arrived.             *)
THEOREM ValuesRoundTrip ==
    CodecSpec => []RoundTrip
  <1>1. CodecInit => CodecInv
    BY CodecStarts
  <1>2. CodecInv /\ [CodecNext]_codecVars => CodecInv'
    BY CodecStays
  <1>3. CodecInv => RoundTrip
    BY RoundTripHeld
  <1> QED
    BY <1>1, <1>2, <1>3, PTL DEF CodecSpec
=============================================================================
