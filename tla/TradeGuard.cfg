CONSTANTS
  p1 = p1
  p2 = p2
  Procs = {p1, p2}
  Used = {"sell"}
  Attended = {"buy"}
  Scopes = {{"buy"}}
  Limit <- OneEach
  LockTimes = {0}
  Cap = 1
  MaxOrder = 2
  MaxOver = 1
SPECIFICATION FairSpec
INVARIANTS RunningIsHeld LimitUnlessRaced
PROPERTIES IntervalUnlessRaced KillWorks
