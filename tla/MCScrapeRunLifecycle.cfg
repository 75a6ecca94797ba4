SPECIFICATION FairSpec
CONSTANTS
  Callers = {c1, c2}
  Watchdogs = {w1}
  Offers = {o1}
  Kinds = {"callback", "watchdog", "crash"}
  Scheduled = FALSE
  Callbacks <- MCCallbacks
PROPERTIES FollowsLifecycle EventuallyFinal
CHECK_DEADLOCK FALSE
