SPECIFICATION Spec
CONSTANTS
  e1 = e1
  Executions = {e1}
  MaxAttempts = 2
  ScrapeAttempts <- MCScrapeAttempts
  Faults <- MCFaults
  NetFaults = {"crash"}
  HostFaults = {}
INVARIANTS AcknowledgedIsDecided
CHECK_DEADLOCK FALSE
