SPECIFICATION Spec
CONSTANTS
  j1 = j1
  j2 = j2
  h1 = h1
  p1 = p1
  p2 = p2
  Nobody = Nobody
  NoHandle = NoHandle
  Jobs = {j1}
  Handles = {h1}
  HandleOf <- SameHandle
  Plugins = {p1, p2}
  Routes <- LoopRoutes
  MaxAttempts = 3
  MaxConcurrency = 1
  RunResults <- LoopResults
  RejectCodes = {}
  Interactive = TRUE
  MaxCrashes = 0
INVARIANTS TypeOK NoRelaunchAfterEffects SuccessIsHonest
PROPERTIES PromiseKept
CHECK_DEADLOCK FALSE
