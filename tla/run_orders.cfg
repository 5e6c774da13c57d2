SPECIFICATION FairSpec
CONSTANTS
  r1 = r1
  t1 = t1
  t2 = t2
  w1 = w1
  w2 = w2
  h1 = h1
  k1 = k1
  Runs = {r1}
  Trades = {t1, t2}
  Invalid = {t2}
  Callers = {w1, h1}
  Workers = {w1}
  Handlers = {h1}
  Cancels = {k1}
  Configs <- TwoConfigs
  Candidates = 2
  Faults = {"ambiguous", "failed_commit", "worker_lost", "cut_off",
            "enqueue_fails"}
  MaxCrashes = 1
INVARIANTS
  FillsAreAccounted
  ToldRunHasOrder
  OneFillPerStart
PROPERTIES
  ImplementsLedger
  
CHECK_DEADLOCK FALSE
