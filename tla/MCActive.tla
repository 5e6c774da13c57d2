------------------------------- MODULE MCActive -------------------------------
(* Instances of ActiveRows for TLC. *)
EXTENDS ActiveRows, TLC

CONSTANTS t1, t2
=============================================================================
