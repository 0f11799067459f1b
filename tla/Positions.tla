----------------------------- MODULE Positions -----------------------------
(***************************************************************************)
(* Places in a text or in a file, in their order.                          *)
(***************************************************************************)
EXTENDS Integers, FiniteSets

(* How many of S come no later than x. *)
Rank(S, x) == Cardinality({y \in S : y <= x})

(* The n-th of S. *)
Nth(S, n) == CHOOSE x \in S : Rank(S, x) = n
=============================================================================
