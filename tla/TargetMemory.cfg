SPECIFICATION Spec
CONSTANTS
  f1 = f1
  f2 = f2
  f3 = f3
  f4 = f4
  q1 = q1
  q2 = q2
  g = g
  Tests = {q1, q2}
  NoTest = NoTest
  NoGist = NoGist
  Gist <- MCGist
  Weight <- MCWeight
  Time <- MCTime
  Size <- MCSize
  Relevance <- MCRelevance
  Batches <- MCBatches
  Settings <- MCSettings
  Category = 3
  Chars = 8
  Wrap = 1
  Request = 2
  MaxExecutions = 2
INVARIANTS
  CapacityHeld
  ConflictsAreKept
  NewestIsKept
  OneHistory
  ConflictsAreWhole
