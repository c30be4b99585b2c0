SPECIFICATION Spec
CONSTANTS
  Txns = {t1, t2}
  MaxId = 2
  Programs <- SmallPathsAndBulk
SYMMETRY TxnSymmetry
INVARIANT NoDeadlock
