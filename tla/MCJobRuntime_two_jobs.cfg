SPECIFICATION Spec
CONSTANTS
  j1 = j1
  j2 = j2
  h1 = h1
  p1 = p1
  p2 = p2
  Nobody = Nobody
  NoHandle = NoHandle
  Jobs = {j1, j2}
  Handles = {h1}
  HandleOf <- SameHandle
  Plugins = {p1, p2}
  Routes <- ShortRoutes
  MaxAttempts = 1
  MaxConcurrency = 2
  RunResults <- FewResults
  RejectCodes = {}
  Interactive = FALSE
  MaxCrashes = 1
INVARIANTS CapacityBound HeldWhileBusy WorkspaceExclusive LockHeld RowsOwned
PROPERTIES SettledStays
SYMMETRY JobSymmetry
CHECK_DEADLOCK FALSE
