CONSTANTS
  p1 = p1
  p2 = p2
  n = n
  t = t
  Procs = {p1, p2}
  Native = n
  Currencies = {n, t}
  Answers <- Wallets
SPECIFICATION CacheSpec
SYMMETRY ProcSymmetry
INVARIANTS CacheInv StoredIsAnswer
