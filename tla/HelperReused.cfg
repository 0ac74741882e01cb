\* One helper for two fields, as an agent uses it that keeps its builder.
SPECIFICATION ReuseSpec
CONSTANTS
  t1 = t1
  t2 = t2
  Token = {t1, t2}
  Eos = Eos
  Complete <- MCComplete
  Valid <- MCValid
  Endable <- MCComplete
  HasEnd = TRUE
  AllowEos = TRUE
  MinOutput = 1
  InitialK = 1
  MaxK = 3
  ChoiceCap = 9
  MaxTokens = 5
  MaxBacktracks = 2
  MaxChoiceCalls = 6
  MaxHelperCalls = 6
  Address = {0, 1, 2, 3, 4, 5}
  MaxCached = 2
  MaxFields = 2
INVARIANTS LogitsFollowPrefix
\* Both fields are constructed.
CHECK_DEADLOCK FALSE
