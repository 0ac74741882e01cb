\* The claim "bounded resident set" on four options, two pages, two revisions, a resident set of two.
SPECIFICATION OptionSpec
CONSTANTS
  a = a
  b = b
  c = c
  d = d
  OptionId = {a, b, c, d}
  PageId = {p, q}
  Body = {"v1", "v2"}
  Contents <- MCContents
  MaxRevision = 2
  MaxResident = 2
  MaxPages = 2
  NoParent = NoParent
INVARIANT ResidentBounded
