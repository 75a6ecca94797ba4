SPECIFICATION FairSpec
CONSTANTS
  i1 = i1
  i2 = i2
  c1 = c1
  c2 = c2
  N = 2
  Instances = {i1, i2}
  Calls = {c1, c2}
  At <- MCAt
  Kinds <- MCKinds
  MayCrash = {i1}
INVARIANTS TypeOK OneUsable UsableIsKept OneProfilePerRequest
PROPERTIES OneOutcomePerProfile ProfileIsSettled
CHECK_DEADLOCK FALSE
