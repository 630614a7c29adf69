CONSTANTS
  Requests = {r1, r2}
  N = 2
  Keys = {k1, k2}
  MaxApply = 3
  MaxPrepare = 2
  MaxStop = 1
  MaxStall = 1
  MaxError = 1
  MaxGone = 1
SPECIFICATION Spec
SYMMETRY Symmetry
INVARIANTS AppliedOnce StateTellsTheOutcome FinishedIsWhole
