\* One target that comes and goes, checks overtaking each other.
CONSTANTS
  Targets = {t1}
  Slots = {w1, w2}
  MaxChecks = 2
  Sections <- MCSections
  Behaviours <- MCBehaviours
  None = None
  Watched = w1
  Fails = 2
  Passes = 3
  Results = {"unhealthy", "healthy"}
  InitialLive = TRUE
SPECIFICATION HistorySpec
INVARIANTS OneRunningWorker LiveIsVerdict Responsive
PROPERTIES Converges NoHastyVerdict
