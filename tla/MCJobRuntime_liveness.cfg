SPECIFICATION FairSpec
CONSTANTS
  j1 = j1
  j2 = j2
  h1 = h1
  p1 = p1
  p2 = p2
  Nobody = Nobody
  NoHandle = NoHandle
  Jobs = {j1}
  Handles = {h1}
  HandleOf <- SameHandle
  Plugins = {p1, p2}
  Routes <- TwoRoutes
  MaxAttempts = 2
  MaxConcurrency = 1
  RunResults <- AllResults
  RejectCodes = {"QUOTA_EXHAUSTED"}
  Interactive = FALSE
  MaxCrashes = 0
INVARIANTS ExecutorSettles
PROPERTIES JobSettles LockReturned
CHECK_DEADLOCK FALSE
