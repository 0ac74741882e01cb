\* One task, one memory page.
SPECIFICATION Spec
CONSTANTS
  m1 = m1
  m2 = m2
  m3 = m3
  x = x
  k = k
  plain = plain
  marked = marked
  secret = secret
  TaskId = {t1}
  Object = {x}
  Dependents <- Alone
  Record = {}
  RecordDeps <- RecordDepsX
  MaxTaskRevision = 2
  MemoryId = {m1}
  Payload = {plain}
  Size <- Sizes
  Sensitive = {}
  MaxMemoryPages = 2
  MaxMemoryRevision = 2
  MaxCandidates = 2
  CountOptions = {1, 2}
  ReadLimits <- TwoPages
  Marker = {"marker"}
  Marks <- MarksOnly
  RecoveryLimits <- OnePage
  MaxDrafts = 1
  Block = {k}
  Pinned = {}
  BlockDeps <- BlockDepsX
  MaxWorking = 1
  MaxBlockRevision = 1
  EvidenceLimits <- TwoPages
PROPERTY PinnedCallsUndisturbed
