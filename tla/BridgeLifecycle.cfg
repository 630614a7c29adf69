SPECIFICATION Spec
CONSTANTS
  Calls = {q1, q2}
  Turns = {q1}
  MaxChildren = 2
  NoChild = 0
  Requests = {1, 2}
  NoRequest = 0
  Stop = Stop
  Operator = Operator
  Crowds = {{q1, 1, Operator}, {q1, q2, Operator}, {1, 2}}
  MaxPid = 2
  MaxFaults = 1
INVARIANTS ApprovedIsFenced AppServerIsKnown
PROPERTIES ExecutedOnce FenceIsReleased
CHECK_DEADLOCK FALSE
