------------------------------ MODULE MCMonitor ------------------------------
(* Instances of StrategyMonitor for TLC. *)
EXTENDS StrategyMonitor, TLC

CONSTANTS s1, s2, g1, g2, k1, k2, h1
=============================================================================
