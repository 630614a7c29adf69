SPECIFICATION Spec
CONSTANTS
  Reviews = {r1}
  Sessions = {1, 2}
  None = None
  Ttl = 1
  ReviewTtl = 1
  MaxEntries = 5
  MaxTime = 1
  MaxCrash = 1
  MaxFault = 1
  MaxWait = 1
INVARIANTS NoClaimIsLeft
PROPERTIES ExecutedOnce ConsumedIsSettled
CHECK_DEADLOCK FALSE
