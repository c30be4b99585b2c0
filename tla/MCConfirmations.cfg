SPECIFICATION Spec
CONSTANTS
  Orders = {1, 2, 3}
  Unreadable = {1}
  Workers = {w1, w2}
  Delays <- OneDelay
  MaxDelay = 2
  QuotaWait = 1
  MaxFaults = 1
  None = None
INVARIANTS ConfirmedOnce LadderKept QuotaPausesAll
PROPERTIES EveryOrderConfirmed KeepsMailPromise
CHECK_DEADLOCK FALSE
