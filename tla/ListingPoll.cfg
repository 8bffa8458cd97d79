CONSTANTS
  p1 = p1
  p2 = p2
  MaxArticle = 4
  Old = 2
  Others = {3}
  Odd = {2, 4}
  MinPage = 1
  MaxPage = 2
  DumpPages = 2
  MaxLag = 1
  Pollers = {p1, p2}
SPECIFICATION PollFairSpec
INVARIANTS PollInv OldStaysSilent
PROPERTY Reported
