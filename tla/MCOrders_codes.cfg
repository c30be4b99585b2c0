SPECIFICATION Spec
CONSTANTS
  None = None
  Users = {u1, u2}
  Staff = {u2}
  OrderIds = {o1, o2}
  CheckoutIds = {f1, f2}
  Plans = {p1}
  TelegramPlans = {p1}
  MaxQty = 1
  MaxStock = 0
  Codes = {c1}
  Names = {n1, n2}
  Limits = {1}
  Refs = {r1}
  Offers <- SmallOffers
  Terms <- SmallTerms
  MaxUnits = 2
  Moments <- SmallMoments
  MaxAmount = 450
SYMMETRY OrderSymmetry
CONSTRAINT NoStockForms
INVARIANTS CodeLedger RowsComplete PricesAreFair
PROPERTIES RedemptionWithinTerms
CHECK_DEADLOCK FALSE
