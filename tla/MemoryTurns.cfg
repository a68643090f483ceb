SPECIFICATION Spec
CONSTANTS
  Procs = {p, q}
  Nobody = Nobody
  Lease = 2
  CallTicks = 2
  HistoryTurns = 1
  MaxTurns = 2
  MaxThreads = 2
  MaxFaults = 1
SYMMETRY Symmetric
INVARIANTS
  LiveTurnIsKept
  AnswerKeptOrTold
  ArchivedThreadsWereFlushed
  RequestStaysInItsThread
