SPECIFICATION Spec
CONSTANTS
  NoFinding = NoFinding
  NoDraft = NoDraft
  MaxFindings = 3
  Files = 2
  BatchLimit = 2
  MaxCalls = 2
INVARIANTS
  QueueIsTheReadyFindings
  DraftIsOfThisAttempt
PROPERTIES
  DecisionsAreFinal
  RequestEnds
