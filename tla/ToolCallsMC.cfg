SPECIFICATION CallsSpec
CONSTANTS
  Size = 3
  MaxEntries = 2
  Visits = {2}
  MaxOdd = 1
  MaxChanges = 1
  MaxUnits = 2
  MaxPieces = 3
  Sizes = {0, 1, 2}
  Widths = {1, 2}
  MaxCount = 2
  MaxBudget = 4
  MaxEdits = 1
  Files = 2
  MaxLines = 3
  MaxHits = 2
  MaxAround = 1
  Returned = {5}
  MaxRewrites = 1
  MaxPatch = 2
  MaxFiles = 2
  LineLimits = {3}
  ByteLimits = {5, 12}
  OutputLimit = 3
  MaxMoves = 1
  MaxTags = 8
  MaxNested = 9
  CellLimits = {1, 4}
  TextBoxes = FALSE
  Bytes = {0, 1}
  MaxFetch = 2
  MaxWrites = 2
  Dimensions = {1, 2, 3, 4, 8}
  Floor = 2
  ImageBytes = 6
  EntryLimit = 2
  ExpandedLimit = 4
  PartLimit = 2
  CaptureLimit = 3
  EntrySizes = {1, 2, 3}
  Jobs = 3
  MaxWorkers = 2
  MaxBreaks = 1
  MaxAsks = 3
  MaxOthers = 1
  Transfers = {t1}
  Chunks = {1}
  MaxLog = 3
  MaxRefusals = 1
INVARIANTS
  AnswerIsItsOwn
  DoneOnceAsShown
  CompanyIsConfirmed
  SearchesAreComplete
  WindowsAreWhole
  DiffIsComplete
  TextSurvives
  AssetsAreWhole
CHECK_DEADLOCK FALSE
