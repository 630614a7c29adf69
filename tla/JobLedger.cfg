CONSTANTS
  Keys = {k1}
  Threads = {t1}
  Messages = {m1}
  Results = {"completed"}
  MaxJobs = 2
  MaxEvents = 4
  MaxTurn = 1
  MaxCrash = 1
  MaxFault = 1
  Page = 1
  Window = 9
SPECIFICATION Spec
INVARIANTS RetriesAreHarmless AnsweredSurvives
PROPERTIES CursorMissesNothing
