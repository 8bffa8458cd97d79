CONSTANTS
  AskPrices = {1, 2}
  BidPrices = {1}
  Amounts = {0, 1}
  Books <- Thin
  MaxId = 3
  QueueSize = 1
  CacheSize = 2
  ResetSize = 1
  MaxBlocked = 1
SPECIFICATION FairSpec
INVARIANTS BookIsTruth CacheIsChain
PROPERTIES NeverGoesBack CatchesUp
CHECK_DEADLOCK FALSE
