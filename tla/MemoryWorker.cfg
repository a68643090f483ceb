SPECIFICATION Spec
CONSTANTS
  Flushers = {f1}
  Free = Free
  InterruptHolding = {"summary", "state"}
  MaxJobs = 2
  MaxFaults = 1
INVARIANTS
  StaleSummaryIsMarked
PROPERTIES
  ExitTriesWhatWasPending
