\* Two blocks in two revisions, two phases, cooldown of one decision.
SPECIFICATION FairHistorySpec
CONSTANTS
  k1 = k1
  k2 = k2
  x = x
  y = y
  Block = {k1, k2}
  Pinned = {}
  BlockDeps <- Deps
  MaxWorking = 2
  MaxBlockRevision = 2
  Phase = {"deploy", "rollback"}
  MaxVerifiers = 2
  MaxRefreshes = 2
  Cooldown = 1
  MaxEpoch = 2
PROPERTIES CommitsUndisturbed StormSuppressed RefreshEnds
