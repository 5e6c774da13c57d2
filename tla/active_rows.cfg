SPECIFICATION FairSpec
CONSTANTS
  t1 = t1
  t2 = t2
  None = None
  Kinds = {"prompt", "skill", "account"}
  MaxRow = 3
  Txs = {t1, t2}
  MaxTxs = 4
INVARIANTS
  SoloActivationStands
PROPERTIES
  PromptStaysInUse
  RequestsEnd
CHECK_DEADLOCK FALSE
