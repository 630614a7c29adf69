SPECIFICATION FairSpec
CONSTANTS
  MaxInput = 3
  MaxCrash = 2
  MaxFault = 2
  MaxDamage = 1
CHECK_DEADLOCK FALSE
INVARIANTS ClientsViewSurvives
PROPERTIES EvidenceRecovers PendingIsFlushed
