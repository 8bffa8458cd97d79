CONSTANTS
  w1 = w1
  w2 = w2
  MaxBlock = 1
  Rpcs = 2
  Workers = {w1, w2}
  Behind = 0
  StartHead = 0
  MaxLag = 1
  MaxAhead = 1
  EpochAhead = 1
  MaxRecursion = 0
SPECIFICATION FairSpec
INVARIANTS Accounted NoGap CleanExit
PROPERTIES KeepsLifecycle EveryBlockEnds KeepsUp
