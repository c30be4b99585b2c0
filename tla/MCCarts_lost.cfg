SPECIFICATION CartsSpec
CONSTANTS
  Tabs = {t1, t2}
  Plans = {p}
  Limit <- LimitTwo
  Account = Account
  None = None
  MaxKeys = 3
  MaxCarts = 2
SYMMETRY TabSymmetry
INVARIANT SignInMergesCart
CHECK_DEADLOCK FALSE
