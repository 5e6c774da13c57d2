----------------------------- MODULE MCStrategy -----------------------------
(* Instances of Strategy for TLC. *)
EXTENDS Strategy

CONSTANTS p1, p2, c1, c2, h1, h2, b1, b2, o1, o2
=============================================================================
