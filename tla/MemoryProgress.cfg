SPECIFICATION FairSpec
CONSTANTS
  Processes = {p}
  NoOwner = NoOwner
  JobLease = 1
  RetryDelay = 1
  ExtractionMaxWait = 1
  Threshold = 2
  BatchSize = 2
  MaxAttempts = 2
  MaxCalls = 3
  MaxTurns = 2
  MaxThreads = 1
  MaxEvents = 1
PROPERTIES
  EveryJobEnds
