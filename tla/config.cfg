SPECIFICATION Spec
CONSTANTS
  p1 = p1
  p2 = p2
  q1 = q1
  q2 = q2
  n1 = n1
  n2 = n2
  w1 = w1
  w2 = w2
  None = None
  Flat = Flat
  Profiles = {p1}
  Values = {0, 1}
  Unset = 0
  Requests = {q1, q2}
  Runs = {n1, n2}
  Processes = {w1, w2}
  MaxSaves = 3
SYMMETRY Symmetry
INVARIANTS
  TypeOK
  SoloSaveStands
  SettingsAreInHistory
  RunVersionIsTheOneUsed
PROPERTIES
  ScopedSaveKeepsOthers
CHECK_DEADLOCK FALSE
