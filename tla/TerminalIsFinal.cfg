SPECIFICATION Spec
CONSTANTS
  Runs = {r1}
  Tests = {t1}
  Workers = {w1, w2}
  Grouped = TRUE
  MaxEdition = 2
  NoRun = NoRun
  NoWorker = NoWorker
PROPERTIES
  TerminalIsFinal
