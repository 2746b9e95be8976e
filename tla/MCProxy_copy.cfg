CONSTANTS
  WriteBound <- SmallWriteBound
  ReportBound = 2
SPECIFICATION FairProxySpec
INVARIANTS AllReported ReportedOnce
PROPERTIES EndsTogether StopReachesBackend
CHECK_DEADLOCK FALSE
