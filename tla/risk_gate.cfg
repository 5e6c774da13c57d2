SPECIFICATION Spec
CONSTANTS
  None = None
  p1 = p1
  p2 = p2
  Pipes = {p1, p2}
  MaxPositions = 2
  AtStart = {0, 1, 2}
  MaxFills = 3
  Faults = {"read_fails", "redis_down", "lock_expiry", "state_error", "worker_lost"}
SYMMETRY PipeSymmetry
INVARIANTS
  ReadingsCount
PROPERTIES
  BreachIsExplained
