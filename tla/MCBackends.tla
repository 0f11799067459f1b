----------------------------- MODULE MCBackends -----------------------------
(* Instances of Backends for TLC: two descriptors for connections, one of   *)
(* which another thread may hand over.                                      *)
EXTENDS Backends

CONSTANTS c1, c2

MCConn == {c1, c2}
OneConn == {c1}
OneTalker == {c2}
BothBackends == {"kqueue", "uring"}
OnlyUring == {"uring"}
OnlyKqueue == {"kqueue"}
Failures == {"accept", "read", "write"}
NoFailure == {}
=============================================================================
