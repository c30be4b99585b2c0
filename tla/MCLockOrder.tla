----------------------------- MODULE MCLockOrder -----------------------------
(* Small instances of LockOrder for TLC: plan i is a plan of product i, item *)
(* i an item of order i, and account 2 is an operator's.                     *)
EXTENDS LockOrder, TLC

TxnSymmetry == Permutations(Txns)

Several == {{1}, {2}, {1, 2}}

SmallCartPaths ==
  {EditGuestCart(1, 1, p) : p \in Ids}
    \cup {EditAccountCart(a, a, p) : a \in Ids, p \in Ids}
    \cup {SignIn(1, a, cs, ps) : a \in Ids, cs \in {{2}, {1, 2}}, ps \in Several}
    \cup {PurgeGuestCarts(1)}

SmallOrderPaths ==
  {Checkout(1, 1, os, ps, ps, codes, os) :
       os \in {{}, {1}, {1, 2}}, ps \in Several, codes \in {{}, {1}}}
    \cup {Cancel(1, o, ps, ps, codes, {o}, authors) :
       o \in Ids, ps \in Several, codes \in {{}, {1}}, authors \in {{}, {2}}}
    \cup {Pay(1, o, {o}, {o}, 2) : o \in Ids}
    \cup {TakeInput(1, o, o, actor) : o \in Ids, actor \in Ids}

SmallPanelPaths ==
  {StockForm(products, p, operator) : products \in Several, p \in Ids, operator \in Ids}
    \cup {ProductPage(ps, ps, 2) : ps \in Several}
    \cup {CodeForm(ps, {1}, 2) : ps \in Several}

SmallPaths == SmallCartPaths \cup SmallOrderPaths \cup SmallPanelPaths

\* The second product's name, and its row, come before the first's.
BulkPaths == {SetStatus(<<2, 1>>, 2), RenameCategory(<<2, 1>>, 2), ConfirmPrices(<<2, 1>>)}

SmallPathsAndBulk == SmallPaths \cup BulkPaths

=============================================================================
