-------------------------- MODULE MCStreamTransport --------------------------
(* Instances of StreamTransport for TLC.                                    *)
EXTENDS StreamTransport

Exactly(n) == [min |-> n, max |-> n]
Between(n, m) == [min |-> n, max |-> m]

MCPolicies == {Exactly(1), Exactly(2), Between(1, 3), Between(2, 3)}
OnePolicy == {Between(1, 2)}

OneSize == {2}
TwoSizes == {1, 2}

(* The kqueue loop; epoll's handles the result of a write as that of a read. *)
EachItsOwn == [op \in {"read", "write"} |-> op]
=============================================================================
