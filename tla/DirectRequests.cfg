SPECIFICATION DirectSpec
CONSTANTS
  AppSends = {m1}
  Sends = {m2}
  Steers = {m3}
  Cancels = {c1}
  Compacts = {c2}
  Reviews = {c3}
  AppCancels = 1
  MaxLost = 1
  MaxFault = 1
  MaxExit = 1
  MaxRestart = 1
  MaxTotal = 4
  MaxWaiting = 1
  Crowds = {{m1, m2, c2}, {m1, c1, c2}, {m1, m2}, {m1, c2}, {m2, c1}, {m3, c3}}
INVARIANTS DeliveriesAreTrue
PROPERTIES ControlKeepsItsJob JobSettles
CHECK_DEADLOCK FALSE
