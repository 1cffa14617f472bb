SPECIFICATION FairSpec
CONSTANTS
  Tests = {t1, t2, t3}
  WithCancelled = FALSE
INVARIANTS
  NothingRepeated
  CompleteHasEverything
PROPERTIES
  ResumeReturns
CHECK_DEADLOCK FALSE
