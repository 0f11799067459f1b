------------------------- MODULE MCEpollMultiplexer -------------------------
(* Instances of EpollMultiplexer for TLC: two descriptors for connections   *)
(* and up to two threads that call shutdown().                              *)
EXTENDS EpollMultiplexer

CONSTANTS c1, c2, t1, t2

MCConn == {c1, c2}
OneCaller == {t1}
TwoCallers == {t1, t2}
NoCaller == {}
AllEcho == {c1, c2}
OneEcho == {c2}
NoEcho == {}
NoFailure == {}
AcceptFailure == {"accept"}
PollFailure == {"poll"}
AnyFailure == {"accept", "init", "poll"}
=============================================================================
