SPECIFICATION Spec
CONSTANTS
  Callers = {c1, c2}
  Watchdogs = {w1}
  Offers = {o1}
  Kinds = {"heartbeat", "callback"}
  Scheduled = FALSE
  Callbacks <- MCCallbacks
PROPERTIES FollowsLifecycle
CHECK_DEADLOCK FALSE
