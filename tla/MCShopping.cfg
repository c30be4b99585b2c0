SPECIFICATION Spec
CONSTANTS
  Tabs = {t1, t2}
  Plans = {p}
  Limit <- LimitTwo
  Account = Account
  None = None
  MaxKeys = 2
  MaxCarts = 2
  Pages = {g1}
  Prices = {low, high}
SYMMETRY ShopSymmetry
INVARIANTS GuestCartReachable OneCartEach OrderedAsReviewed RetryAnswered
PROPERTY GuestUnitsKept
CHECK_DEADLOCK FALSE
