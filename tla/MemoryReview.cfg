SPECIFICATION Spec
CONSTANTS
  m1 = m1
  m2 = m2
  m3 = m3
  Ids <- MCIds
  Extractors = {e1, e2}
  Editors = {w1, w2}
  NoOne = NoOne
  Kept = Kept
  Outputs <- MCOutputs
  Patches <- MCPatches
  MaxEdits = 4
SYMMETRY Symmetry
CHECK_DEADLOCK FALSE
INVARIANTS
  ExtractedOnce
  CyclesHaveCauses
PROPERTIES
  FrozenButForOpen
