SPECIFICATION Spec
CONSTANTS
  t1 = t1
  b1 = b1
  b2 = b2
  f1 = f1
  h1 = h1
  h2 = h2
  w1 = w1
  w2 = w2
  Tickets = {t1}
  MaxRuns = 1
  BeatLoops = {}
  ForcedLoops = {f1}
  Handlers = {h1, h2}
  Workers = {w1, w2}
  Decisions = {"ADJUST_SL"}
  Faults = {"lost_dispatch", "failed_commit", "ambiguous",
            "cut_off", "worker_lost"}
  MaxApprovals = 2
  MaxCrashes = 1
SYMMETRY Symmetry
VIEW WithoutDropped
INVARIANTS
  ApprovalGate
  ActsAreDecided
  NoPhantomAction
  ExecutedIsAccounted
PROPERTIES
  ImplementsPermits
CHECK_DEADLOCK FALSE
