\* One task over two pages of options, one of which refines the other.
SPECIFICATION Spec
CONSTANTS
  a = a
  b = b
  c = c
  d = d
  p1 = p1
  p2 = p2
  x = x
  y = y
  r1 = r1
  r2 = r2
  k1 = k1
  k2 = k2
  OptionId = {a, b, c, d}
  PageId = {p1, p2}
  Body = {"v1", "v2"}
  Contents <- TwoPages
  MaxRevision = 2
  MaxResident = 1
  MaxPages = 2
  NoParent = NoParent
  TaskId = {t1}
  Object = {x}
  Dependents <- Alone
  Record = {}
  RecordDeps <- NoRecords
  MaxTaskRevision = 2
  Block = {}
  Pinned = {}
  BlockDeps <- NoBlocks
  MaxWorking = 1
  MaxBlockRevision = 1
  Refinement <- Refinements
  ChildPage <- ChildQ
  Key = {key}
  NoKey = NoKey
  PageRequests <- NoneOrP
  MaxOptions = 5
  MaxPageAttempts = 1
PROPERTIES NeverRetried ExecutesCurrent PagingEnds
