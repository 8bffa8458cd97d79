CONSTANTS
  MaxHead = 4
  StartHead = 3
  First = 0
  MaxLag = 1
  MaxSlots = 3
  MaxRetry = 1
  Finds <- OneEach
SPECIFICATION FairSpec
INVARIANTS OneInCharge LossIsBounded
PROPERTY EndsOrHangs
CHECK_DEADLOCK FALSE
