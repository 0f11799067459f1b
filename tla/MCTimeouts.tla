----------------------------- MODULE MCTimeouts -----------------------------
(* Instances of Timeouts for TLC. *)
EXTENDS Timeouts

CONSTANTS h1, h2

MCHandle == {h1, h2}
OneHandle == {h1}
NoHandle == {}
=============================================================================
