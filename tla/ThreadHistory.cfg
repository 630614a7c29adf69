SPECIFICATION HistorySpec
CONSTANTS
  RegistryCalls = {r1}
  JobCalls = {j1, j2}
  Crowds = {{r1}, {j1, j2}}
  MaxPages = 2
  MaxTurns = 4
  PageSize = 2
  FirstTurns = 3
  MaxClock = 1
  MaxChanges = 2
  MaxFailures = 1
  MaxRestart = 1
  None = None
PROPERTIES HistoryIsOfOneMoment HistoryIsShown
