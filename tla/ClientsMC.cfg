SPECIFICATION ClientsSpec
CONSTANTS
  MaxRecord = 2
  MaxToken = 1
  MaxManual = 1
  MaxStop = 1
  MaxAccount = 2
  MaxLost = 1
  Groups = {1, 2}
  MaxMarket = 2
  MaxHides = 1
CHECK_DEADLOCK FALSE
INVARIANTS RecordedOnce PollGoesOn
PROPERTIES AdoptedIsTheChoice EveryClientIsServed
