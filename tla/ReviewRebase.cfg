SPECIFICATION Spec
CONSTANTS
  Byte = {a, b, c, CR, LF}
  CR = CR
  LF = LF
  a = a
  b = b
  c = c
  f = f
  g = g
  Unreadable = Unreadable
  NoTarget = NoTarget
  NoDraft = NoDraft
  NoApply = NoApply
  Path = {f}
  InitialFile <- RebaseFiles
  EditedFile = {}
  OldString <- RebaseOlds
  NewString <- RebaseNews
  FindingSpan = {1}
  MaxItems = 3
  MaxAudits = 1
  MaxFaults = 0
  MaxRevised = 0
INVARIANTS
  TargetTracksEvidence
  OneByOneIsAllAtOnce
PROPERTIES
  ReplacesOnlyTheReviewedText
