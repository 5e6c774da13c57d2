SPECIFICATION FairSpec
CONSTANTS
  s1 = s1
  s2 = s2
  g1 = g1
  g2 = g2
  k1 = k1
  k2 = k2
  h1 = h1
  None = None
  Expired = Expired
  Strategies = {s1}
  Signals = {g1, g2}
  Ticks = {k1, k2}
  Requests = {h1}
  Faults = {"fetch_fails", "commit_fails", "enqueue_fails", "killed"}
  MaxEvents = 3
INVARIANTS
  KeyHasRun
  NoTickTriggersTwice
  LateRunsAreBounded
PROPERTIES
  SignalIsServed
CHECK_DEADLOCK FALSE
