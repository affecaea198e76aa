SPECIFICATION Spec
CONSTANTS
  j1 = j1
  j2 = j2
  h1 = h1
  p1 = p1
  p2 = p2
  Nobody = Nobody
  NoHandle = NoHandle
  Jobs = {j1}
  Handles = {h1}
  HandleOf <- FreshOnly
  Plugins = {p1, p2}
  Routes <- ShortRoutes
  MaxAttempts = 1
  MaxConcurrency = 1
  RunResults <- AllResults
  RejectCodes = {"QUOTA_EXHAUSTED"}
  Interactive = TRUE
  MaxCrashes = 0
INVARIANT ExecutorSettles
CHECK_DEADLOCK FALSE
