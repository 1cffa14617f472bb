SPECIFICATION Spec
CONSTANTS
  Scopes = {s1, s2}
  Keys = {k1, k2, k3}
  Tests = {t1, t2}
  Answers = {a1, a2}
  Costs = {0, 2, 3}
  Limit = 3
  Reservation = 2
  NoScope = NoScope
  NoTest = NoTest
  NoAnswer = NoAnswer
  NoCost = NoCost
SYMMETRY Symmetry
INVARIANTS
  OneUnresolvedAttempt
  ReservationsFitLimit
  SavedMatchesReceipt
  SpentIsSettledCost
PROPERTIES
  EvidenceIsFinal
CHECK_DEADLOCK FALSE
