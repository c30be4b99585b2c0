SPECIFICATION Spec
CONSTANTS
  MaxRelease = 4
  Breaks <- DropsAfterTwo
  Keys = {k1, k2}
  None = None
SYMMETRY KeySymmetry
INVARIANTS RecordedPassed ReturnWorks ReportsAreTrue OpenOnlyReadable
CHECK_DEADLOCK FALSE
