SPECIFICATION Spec
CONSTANTS
  Workers = {w1, w2, w3}
  Keys = {k1, k2}
  Roots = {k1}
  Settings = {s1, s2}
  Ids = {i1, i2, i3}
  NoKey = NoKey
  NoSettings = NoSettings
  NoId = NoId
SYMMETRY Symmetry
INVARIANTS
  AnswerIsOwn
  ReplayIsAnswered
  ErrorsAreDeletions
