SPECIFICATION Spec
CONSTANTS
  Capacity = 40
  Kibi = 1
  SystemTokens = 2
  Histories <- Talk
  UserTokens = {2, 38}
  AnswerTokens = 1
  MapTokens = 2
  ThreadTokens = {0, 1}
  WrapperTokens = 2
  Results <- ToolResults
  MaxCalls = 2
  MaxSteps = 3
INVARIANTS
  RequestFits
  RequestIsWhole
  NoProgressIsStopped
PROPERTIES
  RunEnds
