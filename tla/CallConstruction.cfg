\* Each part small by itself: see the constants of its module.
SPECIFICATION CallSpec
CONSTANTS
  a = a
  b = b
  c = c
  d = d
  e = e
  Object = {a, b, c, d, e}
  Dependents <- MCDependents
  f1 = f1
  f2 = f2
  f3 = f3
  Field = {f1, f2, f3}
  DependsOn <- MCDependsOn
  WaveOf <- MCWaveOf
  Position <- MCPosition
  LastWave = 2
  Constructible = {f1}
  NeedsEvidence = {f2}
  Workers = 2
  Rounds = 2
  MaxCalls = 3
  Schema = {"declared", "other"}
  Declared = "declared"
  MaxRevision = 2
  t1 = t1
  t2 = t2
  Token = {t1, t2}
  Eos = Eos
  Complete <- MCComplete
  Valid <- MCValid
  Endable <- MCComplete
  HasEnd = TRUE
  AllowEos = TRUE
  MinOutput = 1
  InitialK = 1
  MaxK = 3
  ChoiceCap = 9
  MaxTokens = 5
  MaxBacktracks = 2
  MaxChoiceCalls = 6
  MaxHelperCalls = 6
  Address = {0, 1, 2, 3, 4, 5}
  MaxCached = 2
  MaxFields = 1
  Region = {"pinned", "working"}
  Pinned = "pinned"
  Limit <- MCLimit
  Slice <- MCSlice
  MaxSlices = 3
  MaxPlans = 3
  MaxEvents = 5
INVARIANTS ReturnsAffected CallsWithinBudget WavesSound FieldSound OffersFit LogitsFollowPrefix PackSound ApprovesLatestPlan
PROPERTIES CallsEnd
