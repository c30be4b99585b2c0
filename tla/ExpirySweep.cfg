SPECIFICATION Spec
CONSTANTS
  OrderIds = {1, 2, 3}
  Limit = 1
  MaxTime = 2
  MaxAborts = 1
PROPERTY EveryOverdueReleased
CHECK_DEADLOCK FALSE
