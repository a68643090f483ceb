SPECIFICATION Spec
CONSTANTS
  Flushers = {f1}
  Free = Free
  InterruptHolding = {}
  MaxJobs = 1
  MaxFaults = 1
PROPERTIES
  MainReturns
  SummaryCatchesUp
