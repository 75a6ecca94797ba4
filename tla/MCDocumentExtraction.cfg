SPECIFICATION FairSpec
CONSTANTS
  i1 = i1
  i2 = i2
  c1 = c1
  c2 = c2
  c3 = c3
  Instances = {i1, i2}
  Calls = {c1, c2, c3}
  At <- MCAt
  Kinds <- MCKinds
  MayCrash = {i1}
INVARIANTS TypeOK RequestIsServed UploadedHasObject
PROPERTIES OneOutcomePerRequest RequestIsSettled
CHECK_DEADLOCK FALSE
