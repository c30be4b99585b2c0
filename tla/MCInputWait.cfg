SPECIFICATION PagesSpec
CONSTANTS
  Day = 4
  Opens = 1
  Closes = 3
  Cap = 4
  None = None
  Pages = {operator, customer}
  MaxTime = 4
  MaxEvents = 6
  Requests = {r1, r2}
  Sections = {s1, s2}
INVARIANTS ClockMatchesStatus DecidedOnLatest LiveIsFinished
PROPERTY KeepsPromise
CHECK_DEADLOCK FALSE
