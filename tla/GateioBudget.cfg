CONSTANTS
  Budget = 4
  MaxSlip = 1
  MaxUnbooked = 1
SPECIFICATION TraderSpec
INVARIANT StopsAtBudget
CHECK_DEADLOCK FALSE
