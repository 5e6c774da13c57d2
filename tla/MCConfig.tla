------------------------------- MODULE MCConfig -------------------------------
(* Instances of TradingConfig for TLC. *)
EXTENDS TradingConfig, TLC

CONSTANTS p1, p2, q1, q2, n1, n2, w1, w2

\* Requests, runs and processes are alike.
Symmetry == Permutations(Requests) \cup Permutations(Runs)
                \cup Permutations(Processes)
=============================================================================
