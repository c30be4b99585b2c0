SPECIFICATION CacheSpec
CONSTANTS
  Issuances = {i1, i2}
  Requests = {r1, r2, r3}
  MaxAttempts = 2
  None = None
  Hits = {h1, h2, h3, h4}
  Times = 2
SYMMETRY OtpSymmetry
INVARIANTS SingleUse GuessBudget KeptUntilSpent EveryWindowEnds WindowBudget
CHECK_DEADLOCK FALSE
