SPECIFICATION FairSpec
CONSTANTS
  r1 = r1
  r2 = r2
  yes = yes
  no = no
  ok = ok
  opaque = opaque
  Requests = {r1}
  Options = {yes, opaque}
  Kind <- OptionKind
  Looks <- OptionLooks
  Offered <- OpaqueIds
  Cancelled = Cancelled
  Undecided = Undecided
  JobEnds = {"succeeded"}
  MaxCrashes = 0
CHECK_DEADLOCK FALSE
INVARIANTS DenialReported
