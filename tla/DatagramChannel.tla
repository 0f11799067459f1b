-------------------------- MODULE DatagramChannel --------------------------
(***************************************************************************)
(* What a datagram transport promises in each direction: a datagram that   *)
(* one side offers is delivered to the other side whole, under the         *)
(* endpoint it was offered for, and at most once.  Nothing is said of the  *)
(* order, and a datagram may never be delivered.                           *)
(***************************************************************************)
EXTENDS Integers, Sequences

VARIABLES
    offered,    \* the datagrams that were offered so far, all different
    delivered   \* the datagrams that were delivered so far

channelVars == <<offered, delivered>>

Elements(s) == {s[k] : k \in DOMAIN s}

Init == offered = <<>> /\ delivered = <<>>

(* Something new is offered. *)
Offer ==
    /\ Len(offered') > Len(offered)
    /\ SubSeq(offered', 1, Len(offered)) = offered
    /\ UNCHANGED delivered

Deliver ==
    /\ \E d \in Elements(offered) \ Elements(delivered) :
         delivered' = Append(delivered, d)
    /\ UNCHANGED offered

Next == Offer \/ Deliver

Spec == Init /\ [][Next]_channelVars
=============================================================================
