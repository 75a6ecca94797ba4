SPECIFICATION FairSpec
CONSTANTS
  e1 = e1
  Executions = {e1, e2}
  MaxAttempts = 2
  ScrapeAttempts <- MCScrapeAttempts
  Faults <- MCFaults
  NetFaults = {"lost", "crash", "abort"}
  HostFaults = {"audit", "disk", "restart"}
INVARIANTS TypeOK AcknowledgedTookEffect UndeliveredIsKept
PROPERTIES EveryReportDecides
CHECK_DEADLOCK FALSE
