SPECIFICATION Spec
CONSTANTS
  None = None
  Users = {u1, u2}
  Staff = {u2}
  OrderIds = {o1, o2}
  CheckoutIds = {f1, f2}
  Plans = {p1}
  TelegramPlans = {}
  MaxQty = 2
  MaxStock = 2
  Codes = {}
  Names = {}
  Limits = {}
  Refs = {r1}
  Offers <- SmallOffers
  Terms <- SmallTerms
  MaxUnits = 2
  Moments <- SmallMoments
  MaxAmount = 450
SYMMETRY OrderSymmetry
INVARIANTS TypeOK OneUnpaidOrder StockLedger SettledOnce HistoryExplainsStatus
PROPERTIES ExpiryIsDeserved SettlesOnce
CHECK_DEADLOCK FALSE
