SPECIFICATION FairSpec
CONSTANTS
  Runs = {r1, r2}
  Tests = {t1}
  Workers = {w1, w2}
  Grouped = TRUE
  MaxEdition = 2
  NoRun = NoRun
  NoWorker = NoWorker
PROPERTIES
  StageLocksReturn
