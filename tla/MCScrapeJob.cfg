SPECIFICATION FairSpec
CONSTANTS
  o1 = o1
  MaxTargets = 3
  Concurrency = 2
  MaxFallbacks = 2
  MaxTimeouts = 1
  MaxFailures = 2
  Offers = {o1}
  Limit = 2
  Relaxations = 1
INVARIANTS TypeOK FallbacksAreSerial CompletedMeansAll BrowserIsClosed
PROPERTIES JobComesToRest
CHECK_DEADLOCK FALSE
