SPECIFICATION Spec
CONSTANTS
  Byte = {a, b, c, CR, LF}
  CR = CR
  LF = LF
  a = a
  b = b
  c = c
  f = f
  g = g
  Unreadable = Unreadable
  NoTarget = NoTarget
  NoDraft = NoDraft
  NoApply = NoApply
  Path = {f, g}
  InitialFile <- FaultFiles
  EditedFile <- FaultEdits
  OldString <- FaultOlds
  NewString <- FaultNews
  FindingSpan = {1}
  MaxItems = 2
  MaxAudits = 1
  MaxFaults = 1
  MaxRevised = 1
INVARIANTS
  TypeOK
  CursorSplitsQueue
  PendingDraftsApply
  AppliedIffWritten
  StaleNeverWritten
PROPERTIES
  SeenEditSurvives
