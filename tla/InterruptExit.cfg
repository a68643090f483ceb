SPECIFICATION Spec
CONSTANTS
  Flushers = {f1}
  Free = Free
  InterruptHolding = {"summary", "state"}
  MaxJobs = 1
  MaxFaults = 1
PROPERTIES
  ExitEnds
