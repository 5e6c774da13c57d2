SPECIFICATION FairSpec
CONSTANTS
  p1 = p1
  p2 = p2
  c1 = c1
  c2 = c2
  h1 = h1
  h2 = h2
  b1 = b1
  b2 = b2
  o1 = o1
  o2 = o2
  Params = {p1, p2}
  Campaigns = {c1}
  Requests = {h1, h2}
  Backtesters = {b1}
  Optimizers = {o1, o2}
  Evolvers = {o1}
  Faults = {"enqueue_fails", "worker_lost", "time_limit", "search_fails", "failed_commit"}
  MaxRequests = 3
  MaxCrashes = 1
  None = None
INVARIANTS
  NoStrandedBacktest
  ActiveCampaignHasTask
  PromotedAfterValidation
PROPERTIES
  OnlyStaleCommitsUnback
  BacktestSettles
  CampaignEnds
CHECK_DEADLOCK FALSE
