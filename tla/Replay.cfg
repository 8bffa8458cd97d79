CONSTANTS
  Inputs <- Calls
  MaxBlock = 3
  Contents <- OneOdd
  Workers = {w1, w2}
  Every = 2
  MaxRecursion = 0
SPECIFICATION FairSpec
INVARIANTS Inv SkipsNeedCause TailIsDrained
PROPERTIES WalkEnds
\* The walk ends, or a transaction stops it.
CHECK_DEADLOCK FALSE
