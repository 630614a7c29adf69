SPECIFICATION Spec
CONSTANTS
  Servers = {s1, s2}
  Operations = {o1, o2, o3}
  Creates = {o2}
  Makes = {o3}
  Editor = editor
  Depth = 2
  MaxOperations = 2
  MaxAttempts = 3
  MaxFault = 1
  MaxCrash = 1
  MaxEdit = 1
  MaxPolicy = 2
CHECK_DEADLOCK FALSE
SYMMETRY WriterSymmetry
INVARIANTS AnswersHold
PROPERTIES WrittenOnce
