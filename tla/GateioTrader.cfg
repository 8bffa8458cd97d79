CONSTANTS
  Budget = 4
  MaxSlip = 1
  MaxUnbooked = 2
SPECIFICATION TraderFairSpec
INVARIANTS SellerCanPrice OneSlipAtMost
PROPERTY BuyerSettles
CHECK_DEADLOCK FALSE
