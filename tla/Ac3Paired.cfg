SPECIFICATION Spec
CONSTANTS
  Tests = {t1, t2}
  Answers = {a1, a2}
  Costs = {1, 2, 3}
  Modes = {"capped", "tracking_only"}
  Prior = 1
  MaxUsd = 7
  TargetReserve = 2
  ScorerReserve = 1
  Workers = {w1, w2}
  NoAnswer = NoAnswer
  NoCost = NoCost
  NoWorker = NoWorker
  NoRequest = NoRequest
SYMMETRY Symmetry
INVARIANTS
  RecordsAgree
  ReservesCoverTheRest
PROPERTIES
  ImplementsPaidOnce
