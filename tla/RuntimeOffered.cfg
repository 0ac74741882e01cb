\* One option of one page in two versions.
SPECIFICATION Spec
CONSTANTS
  a = a
  b = b
  c = c
  d = d
  p1 = p1
  p2 = p2
  x = x
  y = y
  r1 = r1
  r2 = r2
  k1 = k1
  k2 = k2
  OptionId = {a}
  PageId = {p1}
  Body = {"v1", "v2"}
  Contents <- TwoVersions
  MaxRevision = 2
  MaxResident = 1
  MaxPages = 1
  NoParent = NoParent
  TaskId = {t1}
  Object = {x}
  Dependents <- Alone
  Record = {}
  RecordDeps <- NoRecords
  MaxTaskRevision = 1
  Block = {}
  Pinned = {}
  BlockDeps <- NoBlocks
  MaxWorking = 1
  MaxBlockRevision = 1
  Refinement <- NoRefinement
  ChildPage <- ChildQ
  Key = {}
  NoKey = NoKey
  PageRequests <- NoneOrP
  MaxOptions = 5
  MaxPageAttempts = 1
PROPERTIES ExecutesWhatWasOffered
