----------------------------- MODULE ByteStream -----------------------------
(***************************************************************************)
(* What a stream transport promises in each direction: the bytes that one  *)
(* side offers are delivered to the other side, each of them once, in the  *)
(* order in which they were offered.  A byte is its position in the stream.*)
(***************************************************************************)
EXTENDS Integers, Sequences

VARIABLES
    offered,    \* the number of bytes that were offered so far
    delivered   \* the bytes that were delivered so far

streamVars == <<offered, delivered>>

Init == offered = 0 /\ delivered = <<>>

Offer == offered' > offered /\ UNCHANGED delivered

Deliver ==
    /\ \E n \in 1..(offered - Len(delivered)) :
         delivered' = delivered \o [i \in 1..n |-> Len(delivered) + i]
    /\ UNCHANGED offered

Next == Offer \/ Deliver

Spec == Init /\ [][Next]_streamVars
=============================================================================
