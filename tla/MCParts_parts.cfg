SPECIFICATION PartsSpec
CONSTANTS
  j1 = j1
  j2 = j2
  j3 = j3
  pA = pA
  pB = pB
  m1 = m1
  m2 = m2
  r1 = r1
  NoQuota = NoQuota
  AnyModel = AnyModel
  Unknown = Unknown
  Unasked = Unasked
  Planners = {j1, j2}
  Registry <- TwoPlugins
  Models = {m1, m2}
  Catalog <- Catalog2
  Request <- Requests
  Setups <- AllSetups
  ProbeResults <- Answers
  Fits = {90}
  ProbeTtl = 1
  JudgeLimit = 1
  ModelMemory = 0
  EvalMemory = 1
  MaxTime = 1
  Kinds = {"devin-acp", "agy-stream"}
  MaxFrames = 2
  Units = {"d", "t", "b", "k1", "k2", "x1", "x2", "x3"}
  Delimiters = {"d", "x2"}
  Markers <- MarkerPairs
  Exact <- SecretText
  Chars <- UnitChars
  Shaped <- BearerShaped
  MaxHold = 6
  MaxText = 4
  MaxDelta = 2
  Readers = {r1}
  PageSize = 2
  Buffer = 1
  MaxAttempts = 2
  MaxRows = 3
  MaxDrops = 1
  Numbers = {2}
CHECK_DEADLOCK FALSE
INVARIANTS TypeOK PlanSound NoGap EndComplete NoSecretShown TextKept HonestCompletion CancelHonest AgentGone
PROPERTIES  PlanEnds StreamServed AttemptEnds
