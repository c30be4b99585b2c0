SPECIFICATION Spec
CONSTANTS
  Txns = {t1, t2}
  MaxId = 2
  Programs <- SmallPaths
SYMMETRY TxnSymmetry
INVARIANTS NoDeadlock OneForEachAccount
