SPECIFICATION FairSpec
CONSTANTS
  t1 = t1
  b1 = b1
  b2 = b2
  f1 = f1
  h1 = h1
  h2 = h2
  w1 = w1
  w2 = w2
  Tickets = {t1}
  MaxRuns = 1
  BeatLoops = {b1}
  ForcedLoops = {}
  Handlers = {h1}
  Workers = {w1}
  Decisions = {"HOLD", "CLOSE"}
  Faults = {"redis_down", "lost_dispatch", "failed_commit", "ambiguous",
            "misread", "cut_off", "loop_killed", "worker_lost"}
  MaxApprovals = 2
  MaxCrashes = 1
INVARIANTS
  ExecutedCloseIsClosed
PROPERTIES
  ApprovedSettles
CHECK_DEADLOCK FALSE
