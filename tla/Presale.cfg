CONSTANTS
  near = near
  far = far
  pool = pool
  Procs = {p1, p2}
  Sales = {near, far, pool}
  Modes <- OneMode
  StartOf <- Starts
  Named = {near}
  Listed <- Listing
  None = None
  MaxTime = 1
  Window = 3
  UsualGap = 1
  Modulus = 100
SPECIFICATION FairSpec
INVARIANT OncePerWorker
PROPERTIES EarlyOnlyIfRaced MoneyFitsStart SendsInTheEnd
