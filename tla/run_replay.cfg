SPECIFICATION Spec
CONSTANTS
  r1 = r1
  t1 = t1
  t2 = t2
  w1 = w1
  w2 = w2
  h1 = h1
  k1 = k1
  Runs = {r1}
  Trades = {t1}
  Invalid = {}
  Callers = {w1, h1}
  Workers = {w1}
  Handlers = {h1}
  Cancels = {}
  Configs <- TwoConfigs
  Candidates = 1
  Faults = {"worker_lost"}
  MaxCrashes = 1
PROPERTIES
  NoDoubleSubmission
CHECK_DEADLOCK FALSE
