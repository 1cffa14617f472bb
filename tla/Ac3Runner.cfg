SPECIFICATION RunSpec
CONSTANTS
  Scopes = {s1}
  Keys = {k1, k2}
  Tests = {t1, t2}
  Answers = {a1, a2}
  Costs = {1, 3}
  Limit = 3
  Reservation = 2
  Workers = {w1, w2}
  NoScope = NoScope
  NoTest = NoTest
  NoAnswer = NoAnswer
  NoCost = NoCost
  NoWorker = NoWorker
  NoKey = NoKey
SYMMETRY Symmetry
INVARIANTS
  SavedIsProviderAnswer
  ScoredOnceIfSettled
PROPERTIES
  ImplementsPaidOnce
