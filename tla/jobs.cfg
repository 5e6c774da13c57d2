SPECIFICATION FairSpec
CONSTANTS
  None = None
  Faults = {"enqueue_fails", "commit_fails", "run_fails", "worker_lost", "time_limit"}
  MaxFaults = 4
INVARIANTS
  OneExecutionPerSide
  CompletedHasResults
  NoStrandedJob
PROPERTIES
  OnlyStartedOverrules
  JobEnds
CHECK_DEADLOCK FALSE
