------------------------ MODULE MCDatagramTransport ------------------------
(* Instances of DatagramTransport for TLC.                                  *)
EXTENDS DatagramTransport

Between(n, m) == [min |-> n, max |-> m]

Both == {"event", "uring"}
Ring == {"uring"}

(* Every datagram is large enough to be consumed, and fits into the buffer, *)
(* which never has to grow.                                                 *)
Fitting == {Between(2, 2), Between(2, 3)}
Largest == {Between(2, 3)}
Growing == {Between(2, 2)}
Unconfigured == {Between(0, 0)}

OneSize == {2}
TwoSizes == {1, 2}
=============================================================================
