\* One task over one object, room for two of three memory pages, one context block.
SPECIFICATION Spec
CONSTANTS
  m1 = m1
  m2 = m2
  m3 = m3
  x = x
  k = k
  plain = plain
  marked = marked
  secret = secret
  TaskId = {t1}
  Object = {x}
  Dependents <- Alone
  Record = {r1}
  RecordDeps <- RecordDepsX
  MaxTaskRevision = 2
  MemoryId = {m1, m2, m3}
  Payload = {plain, marked, secret}
  Size <- Sizes
  Sensitive = {secret}
  MaxMemoryPages = 2
  MaxMemoryRevision = 2
  MaxCandidates = 2
  CountOptions = {1, 2}
  ReadLimits <- TwoPages
  Marker = {"marker"}
  Marks <- MarksOnly
  RecoveryLimits <- OnePage
  MaxDrafts = 1
  Block = {k}
  Pinned = {}
  BlockDeps <- BlockDepsX
  MaxWorking = 1
  MaxBlockRevision = 1
  EvidenceLimits <- TwoPages
SYMMETRY PageSymmetry
INVARIANT GroundedTypeOK
PROPERTIES MemoryHistory CallsOnDeclaredVersions CallsOnWhatWasShown
