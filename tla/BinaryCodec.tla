---------------------------- MODULE BinaryCodec ----------------------------
(***************************************************************************)
(* util::serialized_size, util::binary_serializer and                      *)
(* util::binary_deserializer.  A type is flat (a number, an enumeration, a *)
(* pointer, a float), a tuple (a pair, a tuple, a type with visit()) or a  *)
(* list (a container, a string), whose count precedes the elements.  A     *)
(* flat value is the sequence of its bytes, another one that of its parts. *)
(***************************************************************************)
EXTENDS Integers, Sequences, SequencesExt

CONSTANTS
    Types,       \* the types there are: kind, depth, and size, of, room
    Things,      \* what there is to serialize, each a type and a value
    Calls,       \* the lists of things that are serialized by one call
    SizeWidth,   \* bytes of a count, 8 in the code
    OldBytes,    \* the lengths the buffer may have from before
    MaxDepth,    \* how deep types are nested
    MaxWritten   \* bound: the things that are written

Byte == 0..255

(* n without its lowest bytes: one less each time. *)
Shifted(n) ==
    LET high[i \in 0..SizeWidth] == IF i = 0 THEN n ELSE high[i - 1] \div 256
    IN  high

(* The members of a thing: things of their own. *)
PartType(t, i) == IF t.kind = "tuple" THEN t.of[i] ELSE t.of
Members(x) ==
    [i \in 1..Len(x.value) |-> [type |-> PartType(x.type, i), value |-> x.value[i]]]

(* Types end somewhere; a container that grows has room -1, another one     *)
(* room for as many elements.                                               *)
IsType(t) ==
    /\ t.depth \in 0..MaxDepth
    /\ \/ t.kind = "flat" /\ t.size \in Nat
       \/ t.kind = "tuple" /\ t.of \in Seq({u \in Types : u.depth < t.depth})
       \/ t.kind = "list" /\ t.of \in {u \in Types : u.depth < t.depth} /\ t.room \in Int

IsThing(x) ==
    /\ x.type \in Types /\ Len(x.value) \in Nat
    /\ x.value = [i \in 1..Len(x.value) |-> x.value[i]]
    /\ x.type.kind = "flat" =>
         Len(x.value) = x.type.size /\ \A i \in 1..Len(x.value) : x.value[i] \in Byte
    /\ x.type.kind = "tuple" => Len(x.value) = Len(x.type.of)
    /\ x.type.kind = "list" =>
         x.type.room \notin 0..(Len(x.value) - 1) /\ Shifted(Len(x.value))[SizeWidth] = 0
    /\ x.type.kind # "flat" => \A i \in 1..Len(x.value) : Members(x)[i] \in Things

ASSUME CodecAssumption ==
    /\ SizeWidth \in Nat \ {0} /\ OldBytes \subseteq Nat
    /\ MaxDepth \in Nat /\ MaxWritten \in Nat
    /\ \A t \in Types : IsType(t)
    /\ \A x \in Things : IsThing(x)
    /\ \A things \in Calls : things \in Seq(Things)

VARIABLES
    buf,       \* the buffer of the serializer
    free,      \* the length of free_space_, which ends where the buffer ends
    overrun,   \* bytes have been written behind the buffer
    written,   \* the things serialized so far
    reader     \* the deserializer: its bytes_, what it got, its state, and
               \* whether it has been given less than there is

codecVars == <<buf, free, overrun, written, reader>>

CodecInit ==
    /\ \E n \in OldBytes : buf = [i \in 1..n |-> 255] /\ free = n
    /\ overrun = FALSE /\ written = <<>>
    /\ reader = [bytes |-> <<>>, got |-> <<>>, state |-> "none", less |-> FALSE]

-----------------------------------------------------------------------------
(* calculate_size(): the sizes of the members are added. *)
SumOf(sizes) == MapThenSumSet(LAMBDA i : sizes[i], DOMAIN sizes)

SizeOf[x \in Things] ==
    IF x.type.kind = "flat" THEN x.type.size
    ELSE (IF x.type.kind = "list" THEN SizeWidth ELSE 0) +
           SumOf([i \in 1..Len(x.value) |-> SizeOf[Members(x)[i]]])

(* A count as a std::size_t, the lowest byte first. *)
Count(n) == [i \in 1..SizeWidth |-> Shifted(n)[i - 1] % 256]
CountOf(s) ==
    LET high[k \in 0..SizeWidth] ==
          IF k = 0 THEN 0 ELSE s[SizeWidth - k + 1] + 256 * high[k - 1]
    IN  high[SizeWidth]

(* serialize(): the bytes of the members, one after the other. *)
Bytes[x \in Things] ==
    IF x.type.kind = "flat" THEN x.value
    ELSE (IF x.type.kind = "list" THEN Count(Len(x.value)) ELSE <<>>) \o
           FlattenSeq([i \in 1..Len(x.value) |-> Bytes[Members(x)[i]]])

Grown(n) == buf \o [i \in 1..(n - free) |-> 0]

(* Mutant: free_space_ becomes the bytes that have been added. *)
ReallocAdded(n) ==
    IF free < n THEN [buf |-> Grown(n), free |-> n - free] ELSE [buf |-> buf, free |-> free]

(* realloc(): adds the bytes that are missing; the last n are then free.    *)
Realloc(n) ==
    IF free < n THEN [buf |-> Grown(n), free |-> n] ELSE [buf |-> buf, free |-> free]

(* memcpy() to the start of free_space_, as far as the buffer goes. *)
Copied(b, room, s) ==
    LET at == Len(b) - room
    IN  [i \in 1..Len(b) |-> IF i - at \in 1..Len(s) THEN s[i - at] ELSE b[i]]

(* operator(): the size of all the things first, then one by one.           *)
Serialize(things) ==
    LET r == Realloc(SumOf([i \in 1..Len(things) |-> SizeOf[things[i]]]))
        s == FlattenSeq([i \in 1..Len(things) |-> Bytes[things[i]]])
    IN  /\ reader.state = "none" /\ Len(written) + Len(things) <= MaxWritten
        /\ buf' = Copied(r.buf, r.free, s)
        /\ free' = IF Len(s) > r.free THEN 0 ELSE r.free - Len(s)
        /\ overrun' = (overrun \/ Len(s) > r.free)
        /\ written' = written \o things
        /\ UNCHANGED reader

-----------------------------------------------------------------------------
(* deserialize(): a type and the bytes there are make a value and the bytes *)
(* that follow it, or an exception.                                         *)
After(s, n) == SubSeq(s, n + 1, Len(s))

Threw == [ok |-> FALSE, value |-> <<>>, rest |-> <<>>]
Got(v, s) == [ok |-> TRUE, value |-> v, rest |-> s]

ReadAll(reads, s) ==
    LET upto[i \in 0..Len(reads)] ==
          IF i = 0 THEN Got(<<>>, s)
          ELSE LET acc == upto[i - 1]
                   r == reads[i][acc.rest]
               IN  IF acc.ok /\ r.ok THEN Got(Append(acc.value, r.value), r.rest) ELSE Threw
    IN  upto[Len(reads)]

(* A value of type t, by the readers of the types inside it.  A container   *)
(* that grows is resized to the count; another one must have enough         *)
(* elements.                                                                *)
ReadBy(read, t, s) ==
    CASE t.kind = "flat" ->
           IF Len(s) < t.size THEN Threw ELSE Got(SubSeq(s, 1, t.size), After(s, t.size))
      [] t.kind = "tuple" -> ReadAll([i \in 1..Len(t.of) |-> read[t.of[i]]], s)
      [] t.kind = "list" ->
           IF Len(s) < SizeWidth \/ t.room \in 0..(CountOf(s) - 1) THEN Threw
           ELSE ReadAll([i \in 1..CountOf(s) |-> read[t.of]], After(s, SizeWidth))

Read[t \in Types] == [s \in Seq(Byte) |-> ReadBy(Read, t, s)]

(* A deserializer for the buffer, or for the part of it that has arrived.   *)
StartReading ==
    /\ reader.state = "none"
    /\ \E n \in 0..Len(buf) :
         reader' = [bytes |-> SubSeq(buf, 1, n), got |-> <<>>, state |-> "reading",
                    less |-> n < Len(buf)]
    /\ UNCHANGED <<buf, free, overrun, written>>

(* What may be read into: a container may have another room. *)
Readers(type) ==
    {t \in Types : \/ t = type
                   \/ t.kind = "list" /\ type.kind = "list" /\ t.of = type.of}

(* The reader asks for what was written, except that a container of its own *)
(* may be too small.                                                        *)
Deserialize ==
    LET next == written[Len(reader.got) + 1].type
    IN  /\ reader.state = "reading" /\ Len(reader.got) < Len(written)
        /\ \E t \in Readers(next) :
             LET r == Read[t][reader.bytes]
             IN  reader' = IF r.ok
                           THEN [reader EXCEPT !.bytes = r.rest, !.got = Append(@, r.value)]
                           ELSE [reader EXCEPT !.state = "threw", !.less = @ \/ t # next]
        /\ UNCHANGED <<buf, free, overrun, written>>

CodecNext == StartReading \/ Deserialize \/ \E things \in Calls : Serialize(things)

CodecSpec == CodecInit /\ [][CodecNext]_codecVars

-----------------------------------------------------------------------------
(* Properties.                                                              *)

(* Whatever the buffer held before, and however the values were spread over *)
(* calls, no byte is written behind the buffer, and the reader gets the     *)
(* values that were written, in order; it fails only when part of the bytes *)
(* is missing or its container is too small.                                *)
RoundTrip ==
    /\ ~overrun
    /\ reader.got = [i \in 1..Len(reader.got) |-> written[i].value]
    /\ reader.state = "threw" => reader.less
=============================================================================
