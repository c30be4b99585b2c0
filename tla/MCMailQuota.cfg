SPECIFICATION Spec
CONSTANTS
  Sends = {p1, c1, c2}
  Protected = {p1}
  Day = 2
  MonthStarts <- TwoMonths
  DayLimit = 2
  DayOther = 1
  MonthLimit = 2
  MonthOther = 1
  MaxTime = 3
SYMMETRY SendSymmetry
INVARIANTS TypeOK WithinCeiling ReserveKept
CHECK_DEADLOCK FALSE
