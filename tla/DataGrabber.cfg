CONSTANTS
  Types = {a, b}
  Last = 2
  MaxOngoing = 1
  MaxStarts = 1
SPECIFICATION FairSpec
INVARIANTS NoHole RecordedIsThere EndIsRecorded
PROPERTY EndsUnlessStuck
CHECK_DEADLOCK FALSE
