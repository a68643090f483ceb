SPECIFICATION VerificationSpec
CHECK_DEADLOCK FALSE
CONSTANTS
  Byte = {a, b, c, CR, LF}
  CR = CR
  LF = LF
  a = a
  b = b
  c = c
  Unreadable = Unreadable
  NoTarget = NoTarget
  ScanFailed = ScanFailed
  Nothing = Nothing
  InitialFile <- Files
  OldString <- Olds
  NewString <- News
INVARIANTS
  VerdictIsAboutTheTarget
  AppliedPatchIsJudged
