\* Violated: scheduler, backends counter and a counter wait for each other.
CONSTANTS
  Targets = {t1}
  None = None
  MaxTraffic = 1
SPECIFICATION FairSpec
PROPERTIES Refreshed
CHECK_DEADLOCK FALSE
