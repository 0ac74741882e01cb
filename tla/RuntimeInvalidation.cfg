\* One task whose object y is derived from x, two facts and two context blocks, one pinned.
SPECIFICATION Spec
CONSTANTS
  a = a
  b = b
  c = c
  d = d
  p1 = p1
  p2 = p2
  x = x
  y = y
  r1 = r1
  r2 = r2
  k1 = k1
  k2 = k2
  OptionId = {a}
  PageId = {p1}
  Body = {"v1", "v2"}
  Contents <- SingleOption
  MaxRevision = 1
  MaxResident = 1
  MaxPages = 1
  NoParent = NoParent
  TaskId = {t1}
  Object = {x, y}
  Dependents <- Derived
  Record = {r2}
  RecordDeps <- RecordDepsY
  MaxTaskRevision = 3
  Block = {k1, k2}
  Pinned = {k1}
  BlockDeps <- BlockDepsXY
  MaxWorking = 1
  MaxBlockRevision = 2
  Refinement <- NoRefinement
  ChildPage <- ChildQ
  Key = {}
  NoKey = NoKey
  PageRequests <- NoneOrP
  MaxOptions = 4
  MaxPageAttempts = 1
INVARIANTS WorkingSound
PROPERTIES VerdictInvalidatesFacts BlockStaleUntilRevised
