------------------------------- MODULE MCGate -------------------------------
(* Instances of RiskGate for TLC. *)
EXTENDS RiskGate, TLC
CONSTANTS p1, p2
PipeSymmetry == Permutations({p1, p2})
=============================================================================
