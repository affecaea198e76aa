SPECIFICATION Spec
CONSTANTS
  c1 = c1
  c2 = c2
  c3 = c3
  c4 = c4
  alice = alice
  bob = bob
  k1 = k1
  b1 = b1
  b2 = b2
  b3 = b3
  h1 = h1
  h2 = h2
  d1 = d1
  d2 = d2
  NoKey = NoKey
  Fresh = Fresh
  None = None
  Daemons = {d1, d2}
  Clients = {c1, c2, c3, c4}
  Principal <- PrincipalOf
  Key <- KeyOf
  Body <- BodyOf
  Handle <- HandleOf
  WorkspaceOwner <- Owned
  Unadmitted = {}
  MaxPerPrincipal = 1
  MaxGlobal = 2
  MaxSends <- Sends
  MaxEnds = 1
  JobEnds = {"failed", "needs_recovery"}
SYMMETRY AlikeDaemons
CHECK_DEADLOCK FALSE
INVARIANTS TypeOK SingleOwner OneJobPerKey CapsRespected ReplayHonoured LockExplained
PROPERTIES OrphanNeverRun
