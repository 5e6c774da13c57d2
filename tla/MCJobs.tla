------------------------------- MODULE MCJobs -------------------------------
(* The instance of BackgroundJobs for TLC: its constants are values. *)
EXTENDS BackgroundJobs, TLC
=============================================================================
