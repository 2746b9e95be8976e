\* Traffic and totals while discovery adds and drops targets.
\* The system may really stop: Gridlocked.
CONSTANTS
  Targets = {t1, t2}
  None = None
  MaxTraffic = 2
SPECIFICATION FairSpec
INVARIANTS CountersFollow NoStaleTotals
PROPERTIES RefreshedOrGridlocked TrafficCounted
CHECK_DEADLOCK FALSE
