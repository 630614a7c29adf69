CONSTANTS
  Requests = {r1}
  MaxText = 1
  MaxSend = 1
  MaxCancel = 1
  MaxDecide = 2
  MaxRead = 1
  MaxExit = 1
  MaxFault = 1
  MaxTotal = 2
SPECIFICATION Spec
INVARIANTS DecisionsHold NothingIsForgotten
PROPERTIES RecoveryNeverRegresses
