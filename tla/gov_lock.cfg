SPECIFICATION FairSpec
CONSTANTS
  t1 = t1
  b1 = b1
  b2 = b2
  f1 = f1
  h1 = h1
  h2 = h2
  w1 = w1
  w2 = w2
  Tickets = {t1}
  MaxRuns = 2
  BeatLoops = {b1, b2}
  ForcedLoops = {}
  Handlers = {}
  Workers = {}
  Decisions = {"HOLD", "CLOSE"}
  Faults = {"lost_dispatch", "loop_killed"}
  MaxApprovals = 0
  MaxCrashes = 1
INVARIANTS
  OneFreshRunPerTicket
PROPERTIES
  StaleRunsWereKilled
  NoRunLingers
CHECK_DEADLOCK FALSE
