\* Each part small by itself: see the constants of its module.
SPECIFICATION BackgroundSpec
CONSTANTS
  a = a
  b = b
  c = c
  d = d
  OptionId = {a, b, c, d}
  PageId = {p, q}
  Body = {"v1", "v2"}
  Contents <- MCContents
  MaxRevision = 2
  MaxResident = 2
  MaxPages = 2
  NoParent = NoParent
  MaxShadows = 1
  MaxShadowOptions = 2
  MaxBase = 2
  Caller = {c1, c2}
  NoTask = NoTask
  MaxTasks = 2
  MaxStates = 2
  Records <- MCRecords
  MinObservations = 2
  RateNum = 1
  RateDen = 2
  Failure = "execution_failed"
  MaxWorkers = 2
  MaxRuns = 4
  r1 = r1
  r2 = r2
  r3 = r3
  w1 = w1
  p1 = p1
  p2 = p2
  Replacer = {r1, r2, r3}
  Writer = {w1}
  Process = {p1, p2}
  ProcessOf <- MCProcessOf
  Torn = Torn
  NoWorker = NoWorker
  MaxRequests = 4
  MaxCrashes = 1
  Descendant = {d1, d2}
  Command = Command
  Pipe = {"stdout", "stderr"}
  First = "stdout"
  PipeSize = 1
INVARIANTS ShadowsBounded HandedOutOnce SummariesCounted RulesSound TempsCleaned LeavesNothing
PROPERTIES PromotesWhatWasPrepared ReplacesWhatWasSeen WaitsEnd
