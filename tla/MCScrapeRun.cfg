SPECIFICATION Spec
CONSTANTS
  Callers = {c1, c2}
  Watchdogs = {w1}
  Offers = {o1}
  Kinds = {"heartbeat", "ingest", "callback", "watchdog", "ops"}
  Scheduled = TRUE
  Callbacks <- MCFewCallbacks
SYMMETRY CallerSymmetry
INVARIANTS TypeOK ErrorMatchesOutcome EventProcessedOnce MatchingSettles 
PROPERTIES ReopenedOnlyByBlindWrite ScheduleKeepsOutcome
CHECK_DEADLOCK FALSE
