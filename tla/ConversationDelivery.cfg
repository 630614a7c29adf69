SPECIFICATION Spec
CONSTANTS
  UserItem = user
  AgentItems = {agent}
  LiveItems = {diff}
  MaxText = 1
  HotEntries = 2
  HotSize = 4
  MaxDeltas = 1
  MaxDeltaSize = 3
  MaxReplayLag = 2
  MaxPages = 1
  MaxRevision = 4
  MaxLost = 1
  MaxFault = 1
  MaxRestart = 1
  MaxActs = 1
INVARIANTS ConsoleIsRight
PROPERTIES ConsoleCatchesUp
