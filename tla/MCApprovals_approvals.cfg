SPECIFICATION FairSpec
CONSTANTS
  r1 = r1
  r2 = r2
  yes = yes
  no = no
  ok = ok
  opaque = opaque
  Requests = {r1, r2}
  Options = {yes, no, ok}
  Kind <- OptionKind
  Looks <- OptionLooks
  Offered <- TellingIds
  Cancelled = Cancelled
  Undecided = Undecided
  JobEnds = {"succeeded"}
  MaxCrashes = 1
CHECK_DEADLOCK FALSE
INVARIANTS TypeOK AllowedByOperator AnswersAgree DenialReported AwaitingHasWaiter
PROPERTIES FirstDecisionStands AgentUnblocked
