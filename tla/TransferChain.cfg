CONSTANTS
  a = a
  b = b
  Accounts = {a, b, f}
  Final = f
  Paths <- Ways
  Tokens = {t, u}
  Pool = pool
  MaxNative = 3
  NativeFee = 1
  TokenFee = 1
  Proceeds = 1
  MaxRuns = 2
SPECIFICATION Spec
INVARIANTS Inv AllArrives FewAllowances
\* The job ends.
CHECK_DEADLOCK FALSE
