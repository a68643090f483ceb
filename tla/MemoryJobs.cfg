SPECIFICATION Spec
CONSTANTS
  Processes = {p, q}
  NoOwner = NoOwner
  JobLease = 1
  RetryDelay = 0
  ExtractionMaxWait = 0
  Threshold = 1
  BatchSize = 2
  MaxAttempts = 2
  MaxCalls = 3
  MaxTurns = 2
  MaxThreads = 2
  MaxEvents = 0
SYMMETRY Symmetry
INVARIANTS
  WaitingJobsHaveBudget
  BatchIsTheClaim
  CandidatesFollowTheirJob
  HeadOfLine
  ExtractedOnce
  CheckpointIsNewest
PROPERTIES
  FinishedIsFinal
  KeepsTheLedger
