SPECIFICATION FairSpec
CONSTANTS
  c1 = c1
  c2 = c2
  N = 2
  Slots = 1
  Calls = {c1, c2}
  Kinds <- MCKinds
  MayCrash = {c2}
  MaxActive = 1
  MaxDaily = 2
  Depth = 1
INVARIANTS TypeOK ActiveWithinLimit OneRunPerSlot RetryChainBounded
PROPERTIES DueIsHandled
CHECK_DEADLOCK FALSE
