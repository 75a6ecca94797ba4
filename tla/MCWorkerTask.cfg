SPECIFICATION FairSpec
CONSTANTS
  r1 = r1
  r2 = r2
  r3 = r3
  d1 = d1
  d2 = d2
  d3 = d3
  d4 = d4
  Runs = {r1, r2}
  Deliveries = {d1, d2, d3}
  RunOf <- MCRunOf
  Workers = {w1}
  MaxConcurrent = 1
  MaxQueue = 1
  Faults = {"claim", "persist", "restart"}
INVARIANTS TypeOK OneExecutionPerLease
PROPERTIES EveryRequestAnswered
CHECK_DEADLOCK FALSE
