\* Connection accounting and draining, discovery free to drop and return.
CONSTANTS
  t1 = t1  t2 = t2  c1 = c1  c2 = c2  c3 = c3
  Targets = {t1, t2}
  None = None
  InitialLive = TRUE
  Conns = {c1, c2, c3}
  UintMax = 3
  OneAtATime = FALSE
  Listings <- AnyLimits
SPECIFICATION FairQuietSpec
INVARIANTS ActiveExact
PROPERTIES RemovedOnlyWhenIdle UndiscoveredIsBusy PoolSpec DrainedIsForgotten
