\* Four options on two pages for a resident set of two; three blocks and a
\* pinned one in two revisions, for a working set of two.
SPECIFICATION VisibleSpec
CONSTANTS
  a = a
  b = b
  c = c
  d = d
  OptionId = {a, b, c, d}
  PageId = {p, q}
  Body = {"v1", "v2"}
  Contents <- MCContents
  MaxRevision = 2
  MaxResident = 2
  MaxPages = 2
  NoParent = NoParent
  k1 = k1
  k2 = k2
  k3 = k3
  k4 = k4
  x = x
  y = y
  Block = {k1, k2, k3, k4}
  Pinned = {k4}
  BlockDeps <- Deps
  MaxWorking = 2
  MaxBlockRevision = 2
  Position <- IdOrder
  Score = {0, 1}
  Hysteresis = 0
  MinResidency = 2
INVARIANTS ResidentCurrent OwnershipExact OvershootBounded WorkingOnce MinimumResidency RebuildTakesBest
PROPERTIES PageHistory PageInKeepsPromise ImplementsContextSpace
