SPECIFICATION Spec
CONSTANTS
  Threads = {u}
  Project = Project
  Subjects = {a, b}
  f = f
  a = a
  t4 = t4
  g = g
  t1 = t1
  t2 = t2
  t3 = t3
  k1 = k1
  k2 = k2
  k3 = k3
  Files = {f, g}
  Paths <- ItemPaths
  Words <- RequestWords
  RequestPaths <- RequestFiles
  Origins = {"inferred", "explicit"}
  Modes = {"soft", "always"}
  Turns = {t1, t2, t3, t4}
  Citations <- Cited
  EvidenceKeys <- Evidence
  ScopePaths <- EvidencePaths
  RelatedItems = 1
  MaxCandidates = 2
  MaxItems = 2
  DurableTokens = 7
  MapBudget = 3
  HeaderTokens = 1
  EntryTokens <- Tokens
  ReadTokens = 1
  FullTokens = 2
  MaxSearchCalls = 1
  MaxHits = 1
  MaxReadIds = 1
INVARIANTS
  OneActiveItem
  InferredIsRepeated
  RequestStaysInItsPool
PROPERTY ForgottenIsFinal
