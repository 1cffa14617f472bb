SPECIFICATION Spec
CONSTANTS
  Runs = {r1, r2}
  Tests = {t1, t2}
  Workers = {w1, w2}
  Grouped = TRUE
  MaxEdition = 2
  NoRun = NoRun
  NoWorker = NoWorker
SYMMETRY Symmetry
INVARIANTS
  AnswersMatchQuestions
  SameQuestions
  CompletedHasEverything
  NotAskedAgain
  FailedRunHasWork
  AdvancesWhatItRead
PROPERTIES
  ArtifactsAreKept
  AnswersReachDatabase
