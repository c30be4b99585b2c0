---------------------------- MODULE OrdersProofs ----------------------------
(***************************************************************************)
(* Proofs about Orders for every number of customers, orders, plans, units *)
(* and codes, and about the prices of every purchase.                      *)
(***************************************************************************)
EXTENDS Purchases, FiniteSetTheorems, SequenceTheorems, TLAPS

(* Finite tables and the counts taken over them. *)

LEMMA ItemsFinite == IsFiniteSet(Items)
<1> DEFINE pair == OrderIds \X Plans
           nested == pair \X (1..MaxQty)
           f == [i \in Items |-> <<<<i[1], i[2]>>, i[3]>>]
<1>1. IsFiniteSet(pair)
  BY FS_Product, TablesAreFinite
<1>2. IsFiniteSet(1..MaxQty)
  BY FS_Interval, SizesAreNat
<1>3. IsFiniteSet(nested)
  BY <1>1, <1>2, FS_Product
<1>4. f \in Injection(Items, nested)
  BY DEF Items, Injection, IsInjective
<1>5. QED
  BY <1>3, <1>4, FS_Injection

LEMMA SubsetCount ==
  ASSUME NEW S, IsFiniteSet(S), NEW T, T \subseteq S
  PROVE  IsFiniteSet(T) /\ Cardinality(T) \in Nat
BY FS_Subset, FS_CardinalityType

LEMMA ReturnedNat == \A S, p : Returned(S, p) \in Nat
<1> TAKE S, p
<1> DEFINE T == {i \in Pending(S) : i \in debited /\ i[2] = p}
<1>1. T \subseteq Items
  BY DEF Pending
<1>2. QED
  BY <1>1, ItemsFinite, SubsetCount DEF Returned

LEMMA RedemptionsFinite ==
  \A c, S : /\ IsFiniteSet(Redemptions(c))
            /\ Cardinality(Redemptions(c)) \in Nat
            /\ IsFiniteSet(Redemptions(c) \cap S)
            /\ Cardinality(Redemptions(c) \cap S) \in Nat
<1> TAKE c, S
<1>1. Redemptions(c) \subseteq OrderIds /\ Redemptions(c) \cap S \subseteq OrderIds
  BY DEF Redemptions
<1>2. QED
  BY <1>1, TablesAreFinite, SubsetCount

LEMMA HeldFinite == 
  ASSUME debited \subseteq Items
  PROVE  \A p : IsFiniteSet(Held(p)) /\ Cardinality(Held(p)) \in Nat
<1> TAKE p
<1>1. Held(p) \subseteq Items
  BY DEF Held
<1>2. QED
  BY <1>1, ItemsFinite, SubsetCount

-----------------------------------------------------------------------------
(* Type correctness *)

LEMMA ItemIsTriple ==
  ASSUME NEW i \in Items
  PROVE  i[1] \in OrderIds /\ i[2] \in Plans /\ i[3] \in 1..MaxQty
BY DEF Items

LEMMA StockReleasedType ==
  ASSUME TypeOK, NEW S, CanRelease(S)
  PROVE  /\ StockAfterRelease(S) \in [Plans -> StockValues]
         /\ UsedAfterRelease(S) \in [Codes -> Nat]
<1>1. ASSUME NEW p \in Plans PROVE StockAfterRelease(S)[p] \in StockValues
  BY <1>1, ReturnedNat, SizesAreNat
  DEF TypeOK, CanRelease, StockFits, StockAfterRelease, StockValues
<1>2. ASSUME NEW c \in Codes PROVE UsedAfterRelease(S)[c] \in Nat
  <2>1. used[c] \in Nat /\ Cardinality(Redemptions(c) \cap S) \in Nat
    BY <1>2, RedemptionsFinite DEF TypeOK
  <2>2. UsedAfterRelease(S)[c] = used[c] - Cardinality(Redemptions(c) \cap S)
    BY <1>2 DEF UsedAfterRelease
  <2>3. UsedAfterRelease(S)[c] >= 0
    BY <1>2 DEF CanRelease, CodesCover
  <2>4. QED
    BY <2>1, <2>2, <2>3
<1>3. QED
  BY <1>1, <1>2 DEF StockAfterRelease, UsedAfterRelease

LEMMA LogType ==
  ASSUME TypeOK, NEW i \in Items, NEW from \in Statuses \cup {None},
         NEW to \in Statuses, NEW by \in Actors
  PROVE  Log(i, from, to, by) \in Seq(Events)
<1>1. events[i] \in Seq(Events)
  BY DEF TypeOK
<1>2. [from |-> from, to |-> to, by |-> by] \in Events
  BY DEF Events
<1>3. QED
  BY <1>1, <1>2, AppendProperties DEF Log

LEMMA ReleaseOneType ==
  ASSUME TypeOK, NEW o \in OrderIds, NEW why \in Reasons, NEW by \in Actors,
         ReleaseOne(o, why, by),
         placing' \in [Users -> Requests \cup {None}],
         sweep' \subseteq OrderIds,
         stockForm' = stockForm
  PROVE  TypeOK'
<1> DEFINE units == Pending({o})
<1>1. StockAfterRelease({o}) \in [Plans -> StockValues]
      /\ UsedAfterRelease({o}) \in [Codes -> Nat]
  BY StockReleasedType DEF ReleaseOne
<1>2. cancelled' \subseteq OrderIds /\ released' \subseteq OrderIds
  BY DEF ReleaseOne, ReleaseOrders, TypeOK
<1>3. status' \in [Items -> Statuses \cup {"absent"}]
  BY DEF ReleaseOne, TypeOK, Statuses
<1>4. reason' \in [Items -> Reasons \cup {None}]
  BY DEF ReleaseOne, TypeOK
<1>5. events' \in [Items -> Seq(Events)]
  <2>1. ASSUME NEW i \in Items
        PROVE  Log(i, "PENDING_PAYMENT", "CANCELLED", by) \in Seq(Events)
    BY <2>1, LogType DEF Statuses
  <2>2. QED
    BY <2>1 DEF ReleaseOne, TypeOK
<1>6. QED
  BY <1>1, <1>2, <1>3, <1>4, <1>5 DEF ReleaseOne, TypeOK

LEMMA FinishPlaceType ==
  ASSUME TypeOK, NEW u \in Users, NEW o \in OrderIds, NEW lines \in Carts,
         NEW id \in CheckoutIds, FinishPlace(u, o, lines, id)
  PROVE  TypeOK'
<1> DEFINE S == Existing(u)
           expired == Pending(S)
           new == NewItems(o, lines)
           c == placing[u].code
<1>0. placing[u] \in Requests /\ c \in Codes \cup {None}
  BY DEF TypeOK, FinishPlace, Unlocked, Requests
<1>1. StockAfterRelease(S) \in [Plans -> StockValues]
      /\ UsedAfterRelease(S) \in [Codes -> Nat]
  BY StockReleasedType DEF FinishPlace
<1>2. stock' \in [Plans -> StockValues]
  <2>1. ASSUME NEW p \in Plans, stock[p] # None
        PROVE  StockAfterRelease(S)[p] - lines[p] \in StockValues
    <3>1. StockAfterRelease(S)[p] \in 0..MaxStock
      BY <1>1, <2>1, ReturnedNat, NullIsNoValue DEF StockAfterRelease, StockValues, TypeOK
    <3>2. lines[p] \in 0..MaxQty /\ (lines[p] > 0 => StockAfterRelease(S)[p] >= lines[p])
      BY <2>1 DEF FinishPlace, InStock, Carts
    <3>3. QED
      BY <3>1, <3>2, SizesAreNat DEF StockValues
  <2>2. QED
    BY <2>1 DEF FinishPlace, StockValues
<1>3. used' \in [Codes -> Nat]
  BY <1>1 DEF FinishPlace
<1>4. owner' \in [OrderIds -> Users \cup {None}]
      /\ checkout' \in [OrderIds -> CheckoutIds \cup {None}]
      /\ codeOf' \in [OrderIds -> Codes \cup {None}]
  BY <1>0 DEF FinishPlace, TypeOK
<1>5. cancelled' \subseteq OrderIds /\ released' \subseteq OrderIds
  BY DEF FinishPlace, ReleaseOrders, TypeOK, Existing
<1>6. status' \in [Items -> Statuses \cup {"absent"}]
  BY DEF FinishPlace, TypeOK, Statuses
<1>7. debited' \subseteq Items
  BY DEF FinishPlace, TypeOK, NewItems
<1>8. reason' \in [Items -> Reasons \cup {None}]
  BY DEF FinishPlace, TypeOK, Reasons
<1>9. events' \in [Items -> Seq(Events)]
  <2>1. ASSUME NEW i \in Items
        PROVE  /\ Log(i, "PENDING_PAYMENT", "CANCELLED", "system") \in Seq(Events)
               /\ Log(i, None, "PENDING_PAYMENT", "customer") \in Seq(Events)
    BY <2>1, LogType DEF Statuses, Actors
  <2>2. QED
    BY <2>1 DEF FinishPlace, TypeOK
<1>10. placing' \in [Users -> Requests \cup {None}]
  BY DEF FinishPlace, TypeOK
<1>11. QED
  BY <1>2, <1>3, <1>4, <1>5, <1>6, <1>7, <1>8, <1>9, <1>10 DEF FinishPlace, TypeOK

LEMMA SaveStockFormType ==
  ASSUME TypeOK, NEW p \in Plans, NEW n \in StockValues, SaveStockForm(p, n)
  PROVE  TypeOK'
<1> DEFINE v == stockForm[p][1]
<1>1. v \in StockValues
  BY DEF SaveStockForm, TypeOK
<1>2. stockForm' \in [Plans -> {<<>>} \cup {<<x>> : x \in StockValues}]
  BY DEF SaveStockForm, TypeOK
<1>3. SupplyAfterEdit(p, v, n) \in Int
  <2>1. CASE n = None
    BY <2>1 DEF SupplyAfterEdit
  <2>2. CASE n # None /\ v = None
    BY <2>2, HeldFinite DEF SupplyAfterEdit, StockValues, TypeOK
  <2>3. CASE n # None /\ v # None
    BY <2>3, <1>1, SizesAreNat DEF SupplyAfterEdit, StockValues, TypeOK
  <2>4. QED
    BY <2>1, <2>2, <2>3
<1>4. stock' \in [Plans -> StockValues] /\ supply' \in [Plans -> Int]
  BY <1>3 DEF SaveStockForm, TypeOK
<1>5. QED
  BY <1>2, <1>4 DEF SaveStockForm, TypeOK, orderVars, itemVars

LEMMA PaymentType ==
  ASSUME TypeOK, NEW o \in OrderIds, NEW ref \in Refs, RecordManualPayment(o, ref)
  PROVE  TypeOK'
<1>1. payment' \in [OrderIds -> Refs \cup {None}]
  BY DEF RecordManualPayment, TypeOK
<1>2. status' \in [Items -> Statuses \cup {"absent"}]
  BY DEF RecordManualPayment, TypeOK, Statuses
<1>3. events' \in [Items -> Seq(Events)]
  <2>1. ASSUME NEW i \in Items
        PROVE  Log(i, "PENDING_PAYMENT", "QUEUED", "operator") \in Seq(Events)
    BY <2>1, LogType DEF Statuses, Actors
  <2>2. [from |-> "QUEUED", to |-> "AWAITING_INPUT", by |-> "operator"] \in Events
    BY DEF Events, Statuses, Actors
  <2>3. ASSUME NEW i \in Items
        PROVE  Append(Log(i, "PENDING_PAYMENT", "QUEUED", "operator"),
                 [from |-> "QUEUED", to |-> "AWAITING_INPUT", by |-> "operator"]) \in Seq(Events)
    BY <2>1, <2>2, <2>3, AppendProperties
  <2>4. QED
    BY <2>1, <2>3 DEF RecordManualPayment, TypeOK
<1>4. QED
  BY <1>1, <1>2, <1>3 DEF RecordManualPayment, TypeOK, catalogueVars, processVars

LEMMA TypeInit == Init => TypeOK
<1> SUFFICES ASSUME Init PROVE TypeOK
  OBVIOUS
<1>1. supply \in [Plans -> Int]
  BY SizesAreNat DEF Init, StockValues
<1>2. QED
  BY <1>1, EmptySeq DEF Init, TypeOK

LEMMA TypeStep == TypeOK /\ [Next]_vars => TypeOK'
<1> SUFFICES ASSUME TypeOK, [Next]_vars PROVE TypeOK'
  OBVIOUS
<1> USE DEF catalogueVars, orderVars, itemVars, processVars
<1>1. ASSUME NEW u \in Users, NEW name \in Names \cup {None}, BeginPlace(u, name)
      PROVE  TypeOK'
  BY <1>1 DEF BeginPlace, TypeOK, Requests
<1>2. ASSUME NEW u \in Users, RollbackPlace(u) PROVE TypeOK'
  BY <1>2 DEF RollbackPlace, TypeOK
<1>3. ASSUME NEW u \in Users, NEW o \in OrderIds, NEW lines \in Carts,
             NEW id \in CheckoutIds, FinishPlace(u, o, lines, id)
      PROVE  TypeOK'
  BY <1>3, FinishPlaceType
<1>4. ASSUME NEW a \in Users, NEW o \in OrderIds, NEW note \in BOOLEAN, Cancel(a, o, note)
      PROVE  TypeOK'
  <2> DEFINE operator == a \in Staff /\ (a # owner[o] \/ note)
             why == IF operator THEN "operator" ELSE "customer_before_payment"
             by == IF operator THEN "operator" ELSE "customer"
  <2>1. ReleaseOne(o, why, by) /\ UNCHANGED processVars
    BY <1>4 DEF Cancel
  <2>2. why \in Reasons /\ by \in Actors
    BY DEF Reasons, Actors
  <2>3. placing' \in [Users -> Requests \cup {None}] /\ sweep' \subseteq OrderIds
    BY <2>1 DEF TypeOK
  <2> HIDE DEF operator, why, by
  <2>4. QED
    BY <2>1, <2>2, <2>3, ReleaseOneType
<1>5. ASSUME NEW S \in SUBSET OrderIds, SweepBegin(S) PROVE TypeOK'
  BY <1>5 DEF SweepBegin, TypeOK
<1>6. ASSUME NEW o \in OrderIds, SweepVisit(o) PROVE TypeOK'
  <2>1. CASE Unpaid(o) /\ CanRelease({o})
    <3>1. ReleaseOne(o, "expired_unpaid", "system")
      BY <1>6, <2>1 DEF SweepVisit
    <3>2. placing' \in [Users -> Requests \cup {None}] /\ sweep' \subseteq OrderIds
          /\ stockForm' = stockForm
      BY <1>6 DEF SweepVisit, TypeOK
    <3>3. QED
      BY <3>1, <3>2, ReleaseOneType DEF Reasons, Actors
  <2>2. CASE ~(Unpaid(o) /\ CanRelease({o}))
    BY <1>6, <2>2 DEF SweepVisit, TypeOK
  <2>3. QED
    BY <2>1, <2>2
<1>7. ASSUME SweepAbort PROVE TypeOK'
  BY <1>7 DEF SweepAbort, TypeOK
<1>8. ASSUME NEW o \in OrderIds, NEW ref \in Refs, RecordManualPayment(o, ref) PROVE TypeOK'
  BY <1>8, PaymentType
<1>9. ASSUME NEW p \in Plans, OpenStockForm(p) PROVE TypeOK'
  BY <1>9 DEF OpenStockForm, TypeOK
<1>10. ASSUME NEW p \in Plans, NEW n \in StockValues, SaveStockForm(p, n) PROVE TypeOK'
  BY <1>10, SaveStockFormType
<1>11. ASSUME NEW p \in Plans, DropStockForm(p) PROVE TypeOK'
  BY <1>11 DEF DropStockForm, TypeOK
<1>12. ASSUME NEW c \in Codes, NEW row \in CodeRows, EditCode(c, row) PROVE TypeOK'
  BY <1>12 DEF EditCode, TypeOK
<1>13. ASSUME NEW o \in OrderIds, PassDeadline(o) PROVE TypeOK'
  BY <1>13 DEF PassDeadline, TypeOK
<1>14. CASE UNCHANGED vars
  BY <1>14 DEF vars, TypeOK
<1>15. QED
  BY <1>1, <1>2, <1>3, <1>4, <1>5, <1>6, <1>7, <1>8, <1>9, <1>10, <1>11, <1>12, <1>13, <1>14
  DEF Next, Customer, Worker, Operator, Clock

\* Every row keeps its type: stock stays in its column's range and used_count
\* never goes below zero.
THEOREM TypeCorrect == Spec => []TypeOK
BY TypeInit, TypeStep, PTL DEF Spec

-----------------------------------------------------------------------------
(* Orders are settled once *)

RowsInv == TypeOK /\ RowsComplete /\ SettledOnce

\* Under the invariant an order is unpaid exactly when nothing settled it.
LEMMA UnpaidMeansOpen ==
  ASSUME RowsInv, NEW o \in OrderIds
  PROVE  /\ HasPending(o) <=> owner[o] # None /\ payment[o] = None /\ o \notin cancelled
         /\ HasPending(o) => \A i \in ItemsOf(o) : status[i] = "PENDING_PAYMENT"
<1>1. \A i \in Items : i[1] = o /\ status[i] # "absent" <=> i \in ItemsOf(o)
  BY DEF ItemsOf
<1>2. HasPending(o) <=> \E i \in ItemsOf(o) : status[i] = "PENDING_PAYMENT"
  BY DEF HasPending, Pending, ItemsOf
<1>3. Settled(o)
  BY DEF RowsInv, SettledOnce
<1>4. owner[o] = None <=> ItemsOf(o) = {}
  BY DEF RowsInv, RowsComplete
<1>5. QED
  BY <1>2, <1>3, <1>4 DEF Settled

LEMMA ReleaseOneRows ==
  ASSUME RowsInv, NEW o \in OrderIds, NEW why, NEW by, HasPending(o),
         ReleaseOne(o, why, by), sweep' \subseteq sweep
  PROVE  RowsComplete' /\ SettledOnce'
<1>1. owner[o] # None /\ payment[o] = None /\ o \notin cancelled
      /\ \A i \in ItemsOf(o) : status[i] = "PENDING_PAYMENT"
  BY UnpaidMeansOpen
<1>2. \A i \in Items :
        status'[i] = IF i[1] = o /\ status[i] = "PENDING_PAYMENT" THEN "CANCELLED" ELSE status[i]
  BY DEF ReleaseOne, Pending
<1>3. \A x \in OrderIds : ItemsOf(x)' = ItemsOf(x)
  BY <1>2 DEF ItemsOf
<1>4. UNCHANGED <<owner, codeOf, overdue, payment, debited>>
      /\ cancelled' = cancelled \cup {o}
      /\ released' = released \cup {x \in {o} : codeOf[x] # None}
  BY DEF ReleaseOne, ReleaseOrders
<1>5. RowsComplete'
  <2>1. ASSUME NEW x \in OrderIds
        PROVE  IF owner'[x] = None
               THEN /\ x \notin overdue' \cup cancelled' \cup released' \cup sweep'
                    /\ codeOf'[x] = None /\ payment'[x] = None
                    /\ ItemsOf(x)' = {}
               ELSE ItemsOf(x)' # {}
    BY <1>1, <1>3, <1>4 DEF RowsInv, RowsComplete
  <2>2. ASSUME NEW i \in debited PROVE status'[i] # "absent"
    BY <1>2 DEF RowsInv, RowsComplete, TypeOK
  <2>3. QED
    BY <2>1, <2>2, <1>4 DEF RowsComplete
<1>6. ASSUME NEW x \in OrderIds PROVE Settled(x)'
  <2>0. Settled(x)
    BY DEF RowsInv, SettledOnce
  <2>1. CASE x = o
    <3>1. \A i \in ItemsOf(x) : status'[i] = "CANCELLED"
      BY <1>1, <1>2, <2>1 DEF ItemsOf
    <3>2. QED
      BY <1>1, <1>3, <1>4, <2>1, <3>1 DEF Settled
  <2>2. CASE x # o
    <3>1. \A i \in ItemsOf(x) : status'[i] = status[i]
      BY <1>2, <2>2 DEF ItemsOf
    <3>2. QED
      BY <1>3, <1>4, <2>0, <2>2, <3>1 DEF Settled
  <2>3. QED
    BY <2>1, <2>2
<1>7. QED
  BY <1>5, <1>6 DEF SettledOnce

LEMMA NewItemsOfCart ==
  ASSUME NEW o \in OrderIds, NEW lines \in Carts
  PROVE  /\ NewItems(o, lines) # {}
         /\ NewItems(o, lines) \subseteq Items
         /\ \A i \in NewItems(o, lines) : i[1] = o
<1>1. PICK p \in Plans : lines[p] > 0 /\ lines[p] \in 0..MaxQty
  BY DEF Carts
<1>2. <<o, p, 1>> \in Items
  BY <1>1, SizesAreNat DEF Items
<1>3. <<o, p, 1>> \in NewItems(o, lines)
  BY <1>1, <1>2 DEF NewItems
<1>4. QED
  BY <1>3 DEF NewItems

LEMMA FinishPlaceRows ==
  ASSUME RowsInv, NEW u \in Users, NEW o \in OrderIds, NEW lines \in Carts,
         NEW id \in CheckoutIds, FinishPlace(u, o, lines, id)
  PROVE  RowsComplete' /\ SettledOnce'
<1> DEFINE S == Existing(u)
           new == NewItems(o, lines)
<1>0. u # None
  BY NullIsNoValue
<1>1. /\ owner[o] = None /\ o \notin S
      /\ o \notin overdue \cup cancelled \cup released \cup sweep
      /\ payment[o] = None /\ ItemsOf(o) = {}
  BY <1>0 DEF FinishPlace, RowsInv, RowsComplete, Existing
<1>2. \A x \in S : /\ x \in OrderIds /\ owner[x] # None /\ payment[x] = None
                    /\ x \notin cancelled
                    /\ \A i \in ItemsOf(x) : status[i] = "PENDING_PAYMENT"
  BY UnpaidMeansOpen DEF Existing
<1>3. /\ owner' = [owner EXCEPT ![o] = u]
      /\ codeOf' = [codeOf EXCEPT ![o] = placing[u].code]
      /\ cancelled' = cancelled \cup S
      /\ released' = released \cup {x \in S : codeOf[x] # None}
      /\ UNCHANGED <<overdue, payment, sweep>>
      /\ debited' \subseteq debited \cup new
  BY DEF FinishPlace, ReleaseOrders
<1>4. new # {} /\ new \subseteq Items /\ \A i \in new : i[1] = o
  BY NewItemsOfCart
<1> HIDE DEF new
<1>5. \A i \in Items :
        status'[i] = IF i[1] \in S /\ status[i] = "PENDING_PAYMENT" THEN "CANCELLED"
                     ELSE IF i \in new THEN "PENDING_PAYMENT" ELSE status[i]
  BY DEF FinishPlace, Pending, new
<1>6. ItemsOf(o)' = new /\ \A i \in new : status'[i] = "PENDING_PAYMENT"
  <2>1. \A i \in Items : i[1] = o => status[i] = "absent"
    BY <1>1 DEF ItemsOf
  <2>2. \A i \in Items : i[1] = o => status'[i] = IF i \in new THEN "PENDING_PAYMENT" ELSE "absent"
    BY <1>1, <1>5, <2>1
  <2>3. QED
    BY <1>4, <2>2 DEF ItemsOf
<1>7. ASSUME NEW x \in OrderIds, x # o
      PROVE  /\ ItemsOf(x)' = ItemsOf(x)
             /\ x \notin S => \A i \in ItemsOf(x) : status'[i] = status[i]
             /\ x \in S => \A i \in ItemsOf(x) : status'[i] = "CANCELLED"
  <2>1. \A i \in Items : i[1] = x => i \notin new
    BY <1>4, <1>7
  <2>2. \A i \in Items : i[1] = x =>
          status'[i] = IF x \in S /\ status[i] = "PENDING_PAYMENT" THEN "CANCELLED" ELSE status[i]
    BY <1>5, <2>1
  <2>3. QED
    BY <1>2, <2>2 DEF ItemsOf
<1>8. RowsComplete'
  <2>1. ASSUME NEW x \in OrderIds
        PROVE  IF owner'[x] = None
               THEN /\ x \notin overdue' \cup cancelled' \cup released' \cup sweep'
                    /\ codeOf'[x] = None /\ payment'[x] = None
                    /\ ItemsOf(x)' = {}
               ELSE ItemsOf(x)' # {}
    <3>1. CASE x = o
      BY <1>0, <1>3, <1>4, <1>6, <3>1 DEF RowsInv, TypeOK
    <3>2. CASE x # o
      BY <1>2, <1>3, <1>7, <3>2 DEF RowsInv, RowsComplete
    <3>3. QED
      BY <3>1, <3>2
  <2>2. ASSUME NEW i \in debited' PROVE status'[i] # "absent"
    <3>1. CASE i \in new
      BY <1>6, <3>1
    <3>2. CASE i \in debited
      BY <1>5, <3>2 DEF RowsInv, RowsComplete, TypeOK
    <3>3. QED
      BY <1>3, <3>1, <3>2
  <2>3. QED
    BY <2>1, <2>2 DEF RowsComplete
<1>9. ASSUME NEW x \in OrderIds PROVE Settled(x)'
  <2>0. Settled(x)
    BY DEF RowsInv, SettledOnce
  <2>1. CASE x = o
    BY <1>1, <1>2, <1>3, <1>6, <2>1 DEF Settled
  <2>2. CASE x # o /\ x \in S
    BY <1>2, <1>3, <1>7, <2>2 DEF Settled
  <2>3. CASE x # o /\ x \notin S
    BY <1>3, <1>7, <2>0, <2>3 DEF Settled, RowsInv, TypeOK
  <2>4. QED
    BY <2>1, <2>2, <2>3
<1>10. QED
  BY <1>8, <1>9 DEF SettledOnce

LEMMA PaymentRows ==
  ASSUME RowsInv, NEW o \in OrderIds, NEW ref \in Refs, RecordManualPayment(o, ref)
  PROVE  RowsComplete' /\ SettledOnce'
<1>1. ref # None
  BY NullIsNoValue
<1>2. /\ UNCHANGED <<owner, codeOf, overdue, cancelled, released, debited, sweep>>
      /\ payment' = [payment EXCEPT ![o] = ref]
      /\ owner[o] # None /\ o \notin cancelled
      /\ \A i \in ItemsOf(o) : status[i] = "PENDING_PAYMENT"
  BY DEF RecordManualPayment, CanPay, processVars
<1>3. \A i \in Items : status'[i] = IF i \notin ItemsOf(o) THEN status[i]
        ELSE IF i[2] \in TelegramPlans THEN "AWAITING_INPUT" ELSE "QUEUED"
  BY DEF RecordManualPayment
<1>4. \A x \in OrderIds : ItemsOf(x)' = ItemsOf(x)
  BY <1>3 DEF ItemsOf
<1>5. RowsComplete'
  <2>1. ASSUME NEW x \in OrderIds
        PROVE  IF owner'[x] = None
               THEN /\ x \notin overdue' \cup cancelled' \cup released' \cup sweep'
                    /\ codeOf'[x] = None /\ payment'[x] = None
                    /\ ItemsOf(x)' = {}
               ELSE ItemsOf(x)' # {}
    BY <1>2, <1>4 DEF RowsInv, RowsComplete, TypeOK
  <2>2. ASSUME NEW i \in debited PROVE status'[i] # "absent"
    BY <1>3 DEF RowsInv, RowsComplete, TypeOK
  <2>3. QED
    BY <2>1, <2>2, <1>2 DEF RowsComplete
<1>6. ASSUME NEW x \in OrderIds PROVE Settled(x)'
  <2>0. Settled(x)
    BY DEF RowsInv, SettledOnce
  <2>1. CASE x = o
    <3>1. payment'[x] = ref
      BY <1>2, <2>1 DEF RowsInv, TypeOK
    <3>2. \A i \in ItemsOf(x) : status'[i] \in {"QUEUED", "AWAITING_INPUT"}
      BY <1>3, <2>1 DEF ItemsOf
    <3>3. QED
      BY <1>1, <1>2, <1>4, <2>0, <2>1, <3>1, <3>2 DEF Settled
  <2>2. CASE x # o
    <3>1. payment'[x] = payment[x]
      BY <1>2, <2>2 DEF RowsInv, TypeOK
    <3>2. \A i \in ItemsOf(x) : status'[i] = status[i]
      BY <1>3, <2>2 DEF ItemsOf
    <3>3. QED
      BY <1>2, <1>4, <2>0, <3>1, <3>2 DEF Settled
  <2>3. QED
    BY <2>1, <2>2
<1>7. QED
  BY <1>5, <1>6 DEF SettledOnce

\* The steps that move no stock, code use, status or payment: panel pages,
\* lookups, rollbacks, sweep bookkeeping and the clock.
Quiet ==
  /\ UNCHANGED <<stock, used, owner, checkout, codeOf, cancelled, released, payment,
                 itemVars, supply>>
  /\ \A o \in overdue' \cup sweep' : o \in overdue \cup sweep \/ owner[o] # None

\* A cancellation or the visit of a sweep that releases an unpaid order.
Release(o) ==
  /\ HasPending(o)
  /\ \E why \in Reasons, by \in Actors : ReleaseOne(o, why, by)
  /\ sweep' \subseteq sweep

\* Every step is one of five kinds, which the invariants are shown for in turn.
LEMMA StepKinds ==
  ASSUME RowsInv, [Next]_vars
  PROVE  \/ \E u \in Users, o \in OrderIds, lines \in Carts, id \in CheckoutIds :
              FinishPlace(u, o, lines, id)
         \/ \E o \in OrderIds : Release(o)
         \/ \E o \in OrderIds, ref \in Refs : RecordManualPayment(o, ref)
         \/ \E p \in Plans, n \in StockValues : SaveStockForm(p, n)
         \/ Quiet
<1> DEFINE Goal == \/ \E o \in OrderIds : Release(o)
                   \/ Quiet
<1> USE DEF catalogueVars, orderVars, itemVars, processVars
<1>1. ASSUME NEW u \in Users, NEW name \in Names \cup {None}, BeginPlace(u, name)
      PROVE  Quiet
  BY <1>1 DEF BeginPlace, Quiet
<1>2. ASSUME NEW u \in Users, RollbackPlace(u) PROVE Quiet
  BY <1>2 DEF RollbackPlace, Quiet
<1>3. ASSUME NEW a \in Users, NEW o \in OrderIds, NEW note \in BOOLEAN, Cancel(a, o, note)
      PROVE  Release(o)
  <2> DEFINE operator == a \in Staff /\ (a # owner[o] \/ note)
             why == IF operator THEN "operator" ELSE "customer_before_payment"
             by == IF operator THEN "operator" ELSE "customer"
  <2>1. ReleaseOne(o, why, by) /\ sweep' = sweep /\ HasPending(o)
    BY <1>3 DEF Cancel, Unpaid
  <2>2. why \in Reasons /\ by \in Actors
    BY DEF Reasons, Actors
  <2> HIDE DEF operator, why, by
  <2>3. QED
    BY <2>1, <2>2 DEF Release
<1>4. ASSUME NEW S \in SUBSET OrderIds, SweepBegin(S) PROVE Quiet
  BY <1>4 DEF SweepBegin, Quiet
<1>5. ASSUME NEW o \in OrderIds, SweepVisit(o) PROVE Goal
  <2>1. CASE Unpaid(o) /\ CanRelease({o})
    <3>1. ReleaseOne(o, "expired_unpaid", "system") /\ HasPending(o) /\ sweep' \subseteq sweep
      BY <1>5, <2>1 DEF SweepVisit, Unpaid
    <3>2. Release(o)
      BY <3>1 DEF Release, Reasons, Actors
    <3>3. QED
      BY <3>2
  <2>2. CASE ~(Unpaid(o) /\ CanRelease({o}))
    BY <1>5, <2>2 DEF SweepVisit, Quiet
  <2>3. QED
    BY <2>1, <2>2
<1>6. ASSUME SweepAbort PROVE Quiet
  BY <1>6 DEF SweepAbort, Quiet
<1>7. ASSUME NEW p \in Plans, OpenStockForm(p) PROVE Quiet
  BY <1>7 DEF OpenStockForm, Quiet
<1>8. ASSUME NEW p \in Plans, DropStockForm(p) PROVE Quiet
  BY <1>8 DEF DropStockForm, Quiet
<1>9. ASSUME NEW c \in Codes, NEW row \in CodeRows, EditCode(c, row) PROVE Quiet
  BY <1>9 DEF EditCode, Quiet
<1>10. ASSUME NEW o \in OrderIds, PassDeadline(o) PROVE Quiet
  BY <1>10 DEF PassDeadline, Quiet
<1>11. CASE UNCHANGED vars
  BY <1>11 DEF vars, Quiet
<1>12. CASE Next
  <2>1. CASE Customer
    BY <1>1, <1>2, <1>3, <2>1 DEF Customer
  <2>2. CASE Worker
    BY <1>4, <1>5, <1>6, <2>2 DEF Worker
  <2>3. CASE Operator
    BY <1>7, <1>8, <1>9, <2>3 DEF Operator
  <2>4. CASE Clock
    BY <1>10, <2>4 DEF Clock
  <2>5. QED
    BY <1>12, <2>1, <2>2, <2>3, <2>4 DEF Next
<1>13. QED
  BY <1>11, <1>12

LEMMA FrameRows ==
  ASSUME RowsInv,
         UNCHANGED <<owner, codeOf, cancelled, released, payment, status, debited>>,
         \A o \in overdue' \cup sweep' : o \in overdue \cup sweep \/ owner[o] # None
  PROVE  RowsComplete' /\ SettledOnce'
<1>1. \A x \in OrderIds : ItemsOf(x)' = ItemsOf(x)
  BY DEF ItemsOf
<1>2. RowsComplete'
  BY <1>1 DEF RowsInv, RowsComplete
<1>3. SettledOnce'
  BY <1>1 DEF RowsInv, SettledOnce, Settled
<1>4. QED
  BY <1>2, <1>3

LEMMA RowsStep == RowsInv /\ [Next]_vars => RowsInv'
<1> SUFFICES ASSUME RowsInv, [Next]_vars PROVE RowsInv'
  OBVIOUS
<1>1. TypeOK'
  BY TypeStep DEF RowsInv
<1>2. RowsComplete' /\ SettledOnce'
  <2>1. ASSUME NEW o \in OrderIds, Release(o) PROVE RowsComplete' /\ SettledOnce'
    BY <2>1, ReleaseOneRows DEF Release
  <2>2. ASSUME NEW p \in Plans, NEW n \in StockValues, SaveStockForm(p, n)
        PROVE  RowsComplete' /\ SettledOnce'
    BY <2>2, FrameRows DEF SaveStockForm, orderVars, itemVars
  <2>3. ASSUME Quiet PROVE RowsComplete' /\ SettledOnce'
    BY <2>3, FrameRows DEF Quiet, itemVars
  <2>4. QED
    BY StepKinds, FinishPlaceRows, PaymentRows, <2>1, <2>2, <2>3
<1>3. QED
  BY <1>1, <1>2 DEF RowsInv

LEMMA RowsInit == Init => RowsInv
<1> SUFFICES ASSUME Init PROVE RowsInv
  OBVIOUS
<1>1. TypeOK
  BY TypeInit
<1>2. \A o \in OrderIds : ItemsOf(o) = {}
  BY DEF Init, ItemsOf
<1>3. RowsComplete /\ SettledOnce
  BY <1>2 DEF Init, RowsComplete, SettledOnce, Settled
<1>4. QED
  BY <1>1, <1>3 DEF RowsInv

\* An order never loses half of its rows.
THEOREM RowsStayComplete == Spec => []RowsComplete
<1>1. RowsInv => RowsComplete
  BY DEF RowsInv
<1>2. QED
  BY RowsInit, RowsStep, <1>1, PTL DEF Spec

\* No order is ever both paid and cancelled, in any of its tables.
THEOREM PaidOrCancelledNeverBoth == Spec => []SettledOnce
<1>1. RowsInv => SettledOnce
  BY DEF RowsInv
<1>2. QED
  BY RowsInit, RowsStep, <1>1, PTL DEF Spec

-----------------------------------------------------------------------------
(* One unpaid order per customer *)

\* With one unpaid order at most, steps that only end unpaid orders keep it so.
LEMMA FewerUnpaid ==
  ASSUME OneUnpaidOrder, owner' = owner,
         \A o \in OrderIds : HasPending(o)' => HasPending(o)
  PROVE  OneUnpaidOrder'
BY DEF OneUnpaidOrder, Existing

LEMMA OneUnpaidStep == RowsInv /\ OneUnpaidOrder /\ [Next]_vars => OneUnpaidOrder'
<1> SUFFICES ASSUME RowsInv, OneUnpaidOrder, [Next]_vars PROVE OneUnpaidOrder'
  OBVIOUS
<1>0. \A x \in OrderIds : HasPending(x) <=>
        \E i \in Items : i[1] = x /\ status[i] = "PENDING_PAYMENT"
  BY DEF HasPending, Pending
<1>1. \A x \in OrderIds : HasPending(x)' <=>
        \E i \in Items : i[1] = x /\ status'[i] = "PENDING_PAYMENT"
  BY DEF HasPending, Pending
<1>2. ASSUME NEW u \in Users, NEW o \in OrderIds, NEW lines \in Carts,
             NEW id \in CheckoutIds, FinishPlace(u, o, lines, id)
      PROVE  OneUnpaidOrder'
  <2> DEFINE S == Existing(u)
             new == NewItems(o, lines)
  <2>1. owner' = [owner EXCEPT ![o] = u] /\ owner[o] = None
    BY <1>2 DEF FinishPlace
  <2>2. \A i \in Items :
          status'[i] = IF i[1] \in S /\ status[i] = "PENDING_PAYMENT" THEN "CANCELLED"
                       ELSE IF i \in new THEN "PENDING_PAYMENT" ELSE status[i]
    BY <1>2 DEF FinishPlace, Pending
  <2>3. \A i \in new : i[1] = o
    BY NewItemsOfCart
  <2>4. \A x \in OrderIds : x # o /\ HasPending(x)' => HasPending(x) /\ x \notin S
    BY <1>0, <1>1, <2>2, <2>3
  <2>5. \A x \in OrderIds : x # o /\ HasPending(x)' => owner[x] # u /\ owner'[x] = owner[x]
    BY <2>1, <2>4 DEF Existing, RowsInv, TypeOK
  <2>6. owner'[o] = u
    BY <2>1 DEF RowsInv, TypeOK
  <2>7. ASSUME NEW v \in Users, NEW x \in Existing(v)', NEW y \in Existing(v)'
        PROVE  x = y
    <3>0. /\ x \in OrderIds /\ owner'[x] = v /\ HasPending(x)'
          /\ y \in OrderIds /\ owner'[y] = v /\ HasPending(y)'
      BY DEF Existing
    <3>1. CASE v = u
      BY <2>5, <3>0, <3>1
    <3>2. CASE v # u
      <4>1. x # o /\ y # o
        BY <2>6, <3>0, <3>2
      <4>2. x \in Existing(v) /\ y \in Existing(v)
        BY <2>4, <2>5, <3>0, <4>1 DEF Existing
      <4>3. QED
        BY <4>2 DEF OneUnpaidOrder
    <3>3. QED
      BY <3>1, <3>2
  <2>8. QED
    BY <2>7 DEF OneUnpaidOrder
<1>3. ASSUME NEW o \in OrderIds, Release(o) PROVE OneUnpaidOrder'
  <2>1. owner' = owner /\ \A i \in Items : status'[i] = "PENDING_PAYMENT" => status[i] = status'[i]
    BY <1>3 DEF Release, ReleaseOne
  <2>2. QED
    BY <1>0, <1>1, <2>1, FewerUnpaid
<1>4. ASSUME NEW o \in OrderIds, NEW ref \in Refs, RecordManualPayment(o, ref)
      PROVE  OneUnpaidOrder'
  <2>1. owner' = owner /\ \A i \in Items : status'[i] = "PENDING_PAYMENT" => status[i] = status'[i]
    BY <1>4 DEF RecordManualPayment
  <2>2. QED
    BY <1>0, <1>1, <2>1, FewerUnpaid
<1>5. ASSUME NEW p \in Plans, NEW n \in StockValues, SaveStockForm(p, n)
      PROVE  OneUnpaidOrder'
  BY <1>5, <1>0, <1>1, FewerUnpaid DEF SaveStockForm, orderVars, itemVars
<1>6. ASSUME Quiet PROVE OneUnpaidOrder'
  BY <1>6, <1>0, <1>1, FewerUnpaid DEF Quiet, itemVars
<1>7. QED
  BY StepKinds, <1>2, <1>3, <1>4, <1>5, <1>6

\* A customer never has two unpaid orders at once.
THEOREM AtMostOneUnpaidOrder == Spec => []OneUnpaidOrder
<1>1. Init => OneUnpaidOrder
  <2>1. Init => \A u \in Users : Existing(u) = {}
    BY NullIsNoValue DEF Init, Existing
  <2>2. QED
    BY <2>1 DEF OneUnpaidOrder
<1>2. QED
  BY RowsInit, RowsStep, <1>1, OneUnpaidStep, PTL DEF Spec

-----------------------------------------------------------------------------
(* The code ledger *)

LEMMA CodeLedgerStep == RowsInv /\ CodeLedger /\ [Next]_vars => CodeLedger'
<1> SUFFICES ASSUME RowsInv, CodeLedger, [Next]_vars PROVE CodeLedger'
  OBVIOUS
<1>1. ASSUME NEW S, NEW c \in Codes
      PROVE  UsedAfterRelease(S)[c] = Cardinality(Redemptions(c) \ S)
  <2>1. Cardinality(Redemptions(c) \ S)
          = Cardinality(Redemptions(c)) - Cardinality(Redemptions(c) \cap S)
    BY RedemptionsFinite, FS_Difference
  <2>2. QED
    BY <2>1 DEF UsedAfterRelease, CodeLedger
<1>2. ASSUME NEW u \in Users, NEW o \in OrderIds, NEW lines \in Carts,
             NEW id \in CheckoutIds, FinishPlace(u, o, lines, id)
      PROVE  CodeLedger'
  <2> DEFINE S == Existing(u)
             chosen == placing[u].code
  <2>1. /\ owner[o] = None /\ codeOf' = [codeOf EXCEPT ![o] = chosen]
        /\ released' = released \cup {x \in S : codeOf[x] # None}
        /\ \A c \in Codes : used'[c] = UsedAfterRelease(S)[c] + (IF c = chosen THEN 1 ELSE 0)
    BY <1>2 DEF FinishPlace, ReleaseOrders
  <2>2. codeOf[o] = None /\ o \notin released /\ o \notin S
    BY <2>1, NullIsNoValue DEF RowsInv, RowsComplete, Existing
  <2>3. ASSUME NEW c \in Codes PROVE used'[c] = Cardinality(Redemptions(c)')
    <3> DEFINE left == Redemptions(c) \ S
    <3>0. c # None
      BY NullIsNoValue
    <3>1. o \notin left /\ IsFiniteSet(left) /\ Cardinality(left) \in Nat
      BY <2>2, <3>0, RedemptionsFinite, SubsetCount DEF Redemptions
    <3>2. \A x \in OrderIds : x \in Redemptions(c)' <=> codeOf'[x] = c /\ x \notin released'
      BY DEF Redemptions
    <3>3. \A x \in OrderIds \ {o} : codeOf'[x] = codeOf[x]
      BY <2>1 DEF RowsInv, TypeOK
    <3>4. codeOf'[o] = chosen /\ o \notin released'
      BY <2>1, <2>2 DEF RowsInv, TypeOK
    <3>5. Redemptions(c)' \subseteq OrderIds
      BY DEF Redemptions
    <3>6. CASE c = chosen
      <4>1. Redemptions(c)' = left \cup {o}
        BY <2>1, <3>0, <3>2, <3>3, <3>4, <3>5, <3>6 DEF Redemptions
      <4>2. Cardinality(left \cup {o}) = Cardinality(left) + 1
        BY <3>1, FS_AddElement
      <4>3. QED
        BY <1>1, <2>1, <3>6, <4>1, <4>2
    <3>7. CASE c # chosen
      <4>1. Redemptions(c)' = left
        BY <2>1, <2>2, <3>0, <3>2, <3>3, <3>4, <3>5, <3>7 DEF Redemptions
      <4>2. used'[c] = Cardinality(left) + 0
        BY <1>1, <2>1, <3>7
      <4>3. QED
        BY <3>1, <4>1, <4>2
    <3>8. QED
      BY <3>6, <3>7
  <2>4. QED
    BY <2>3 DEF CodeLedger
<1>3. ASSUME NEW o \in OrderIds, Release(o) PROVE CodeLedger'
  <2>1. /\ codeOf' = codeOf /\ used' = UsedAfterRelease({o})
        /\ released' = released \cup {x \in {o} : codeOf[x] # None}
    BY <1>3 DEF Release, ReleaseOne, ReleaseOrders
  <2>2. ASSUME NEW c \in Codes PROVE Redemptions(c)' = Redemptions(c) \ {o}
    BY <2>1, NullIsNoValue DEF Redemptions
  <2>3. QED
    BY <1>1, <2>1, <2>2 DEF CodeLedger
<1>4. ASSUME NEW o \in OrderIds, NEW ref \in Refs, RecordManualPayment(o, ref) PROVE CodeLedger'
  BY <1>4 DEF RecordManualPayment, catalogueVars, CodeLedger, Redemptions
<1>5. ASSUME NEW p \in Plans, NEW n \in StockValues, SaveStockForm(p, n) PROVE CodeLedger'
  BY <1>5 DEF SaveStockForm, orderVars, CodeLedger, Redemptions
<1>6. ASSUME Quiet PROVE CodeLedger'
  BY <1>6 DEF Quiet, CodeLedger, Redemptions
<1>7. QED
  BY StepKinds, <1>2, <1>3, <1>4, <1>5, <1>6

\* used_count is the number of unreleased redemptions, whatever interleaves.
THEOREM CodeLedgerBalances == Spec => []CodeLedger
<1>1. Init => CodeLedger
  <2>1. ASSUME Init, NEW c \in Codes PROVE Redemptions(c) = {}
    BY <2>1, NullIsNoValue DEF Init, Redemptions
  <2>2. ASSUME Init, NEW c \in Codes PROVE used[c] = Cardinality(Redemptions(c))
    <3>1. used[c] = 0
      BY <2>2 DEF Init
    <3>2. QED
      BY <2>1, <2>2, <3>1, FS_EmptySet
  <2>3. QED
    BY <2>2 DEF CodeLedger
<1>2. QED
  BY RowsInit, RowsStep, <1>1, CodeLedgerStep, PTL DEF Spec

-----------------------------------------------------------------------------
(* The stock ledger *)

\* An order takes as many units of a plan as its cart asks for.
LEMMA CartUnits ==
  ASSUME NEW o \in OrderIds, NEW lines \in Carts, NEW p \in Plans
  PROVE  LET units == {i \in NewItems(o, lines) : i[2] = p}
         IN IsFiniteSet(units) /\ Cardinality(units) = lines[p]
<1> DEFINE units == {i \in NewItems(o, lines) : i[2] = p}
           f == [n \in 1..lines[p] |-> <<o, p, n>>]
<1>1. lines[p] \in 0..MaxQty /\ lines[p] \in Nat
  BY SizesAreNat DEF Carts
<1>2. \A n \in 1..lines[p] : <<o, p, n>> \in units
  BY <1>1, SizesAreNat DEF NewItems, Items
<1>3. \A i \in units : i[3] \in 1..lines[p] /\ i = <<o, p, i[3]>>
  BY <1>1, SizesAreNat DEF NewItems, Items
<1>4. f \in Bijection(1..lines[p], units)
  BY <1>2, <1>3 DEF Bijection, Injection, Surjection, IsInjective
<1>5. IsFiniteSet(1..lines[p]) /\ Cardinality(1..lines[p]) = lines[p]
  BY <1>1, FS_Interval
<1>6. ExistsBijection(1..lines[p], units)
  BY <1>4 DEF ExistsBijection
<1> HIDE DEF units
<1>7. IsFiniteSet(units) /\ Cardinality(units) = lines[p]
  BY <1>5, <1>6, FS_Bijection
<1>8. QED
  BY <1>7 DEF units

\* What a release gives back is what the units it ends held.
LEMMA ReleaseUnits ==
  ASSUME TypeOK, NEW S, NEW p
  PROVE  Cardinality({i \in Held(p) : i \notin Pending(S)})
           = Cardinality(Held(p)) - Returned(S, p)
<1> DEFINE back == {i \in Pending(S) : i \in debited /\ i[2] = p}
<1>1. back = Held(p) \cap Pending(S)
  BY DEF Held, Pending
<1>2. {i \in Held(p) : i \notin Pending(S)} = Held(p) \ Pending(S)
  OBVIOUS
<1>3. Cardinality(Held(p) \ Pending(S))
        = Cardinality(Held(p)) - Cardinality(Held(p) \cap Pending(S))
  BY HeldFinite, FS_Difference DEF TypeOK
<1>4. QED
  BY <1>1, <1>2, <1>3 DEF Returned

LEMMA StockLedgerStep == RowsInv /\ StockLedger /\ [Next]_vars => StockLedger'
<1> SUFFICES ASSUME RowsInv, StockLedger, [Next]_vars PROVE StockLedger'
  OBVIOUS
<1>0. TypeOK /\ TypeOK'
  BY RowsStep DEF RowsInv
<1>1. ASSUME NEW p \in Plans PROVE supply[p] \in Int /\ Cardinality(Held(p)) \in Nat
  BY <1>0, HeldFinite DEF TypeOK
<1>2. ASSUME NEW u \in Users, NEW o \in OrderIds, NEW lines \in Carts,
             NEW id \in CheckoutIds, FinishPlace(u, o, lines, id)
      PROVE  StockLedger'
  <2> DEFINE S == Existing(u)
             new == NewItems(o, lines)
  <2>1. /\ supply' = supply
        /\ debited' = debited \cup {i \in new : stock[i[2]] # None}
        /\ \A q \in Plans : stock'[q] = IF stock[q] = None THEN None
                                       ELSE StockAfterRelease(S)[q] - lines[q]
    BY <1>2 DEF FinishPlace
  <2>2. \A i \in Items :
          status'[i] = IF i \in Pending(S) THEN "CANCELLED"
                       ELSE IF i \in new THEN "PENDING_PAYMENT" ELSE status[i]
    BY <1>2 DEF FinishPlace
  <2>3. ItemsOf(o) = {}
    BY <1>2 DEF FinishPlace, RowsInv, RowsComplete
  <2>4. \A i \in new :
          i \in Items /\ status[i] = "absent" /\ i \notin debited /\ i \notin Pending(S)
    BY <2>3, NewItemsOfCart DEF ItemsOf, RowsInv, RowsComplete, Pending
  <2>5. ASSUME NEW p \in Plans, stock'[p] # None
        PROVE  stock'[p] + Cardinality(Held(p)') = supply'[p]
    <3> DEFINE left == {i \in Held(p) : i \notin Pending(S)}
               taken == {i \in new : i[2] = p}
    <3>1. stock[p] # None /\ stock'[p] = stock[p] + Returned(S, p) - lines[p]
      <4> DEFINE rest == StockAfterRelease(S)[p] - lines[p]
      <4>0. stock'[p] = IF stock[p] = None THEN None ELSE rest
        BY <2>1
      <4> HIDE DEF rest
      <4>1. stock[p] # None /\ stock'[p] = rest
        BY <2>5, <4>0
      <4>2. StockAfterRelease(S)[p] = stock[p] + Returned(S, p)
        BY <4>1 DEF StockAfterRelease
      <4>3. stock[p] \in Int /\ Returned(S, p) \in Nat /\ lines[p] \in Nat
        BY <1>0, <4>1, ReturnedNat, SizesAreNat DEF TypeOK, StockValues, Carts
      <4> HIDE DEF S
      <4>4. QED
        BY <4>1, <4>2, <4>3 DEF rest
    <3>2. Held(p)' = left \cup taken
      <4>1. \A i \in debited : i \in Items
        BY <1>0 DEF TypeOK
      <4>2. \A i : i \in Held(p)' <=> i \in debited' /\ i[2] = p /\ status'[i] # "CANCELLED"
        BY DEF Held
      <4>3. \A i : i \in left <=>
              i \in debited /\ i[2] = p /\ status[i] # "CANCELLED" /\ i \notin Pending(S)
        BY DEF Held
      <4>4. ASSUME NEW i, i \in debited PROVE i \in Held(p)' <=> i \in left
        BY <4>1, <4>2, <4>3, <4>4, <2>1, <2>2, <2>4
      <4>5. ASSUME NEW i \in new PROVE i \in Held(p)' <=> i \in taken
        BY <4>2, <2>1, <2>2, <2>4, <3>1
      <4>6. \A i : i \in debited' => i \in debited \/ i \in new
        BY <2>1
      <4>7. \A i \in left : i \in debited
        BY DEF Held
      <4> HIDE DEF left, new
      <4>8. QED
        BY <4>2, <4>4, <4>5, <4>6, <4>7
    <3>3. left \cap taken = {}
      BY <2>4 DEF Held
    <3>4. IsFiniteSet(left) /\ Cardinality(left) = Cardinality(Held(p)) - Returned(S, p)
      <4>1. left \subseteq Held(p) /\ IsFiniteSet(Held(p))
        BY <1>0, HeldFinite DEF TypeOK
      <4>2. QED
        BY <1>0, <4>1, ReleaseUnits, FS_Subset
    <3>5. IsFiniteSet(taken) /\ Cardinality(taken) = lines[p]
      BY CartUnits
    <3>6. Cardinality(Held(p)') = Cardinality(left) + Cardinality(taken)
      <4>1. Cardinality(left \cup taken)
              = Cardinality(left) + Cardinality(taken) - Cardinality(left \cap taken)
        BY <3>4, <3>5, FS_Union
      <4>2. Cardinality(left \cap taken) = 0
        BY <3>3, FS_EmptySet
      <4>3. Cardinality(left) \in Nat /\ Cardinality(taken) \in Nat
        BY <3>4, <3>5, FS_CardinalityType
      <4> HIDE DEF left, taken
      <4>4. QED
        BY <3>2, <4>1, <4>2, <4>3
    <3>7. stock[p] + Cardinality(Held(p)) = supply[p]
      BY <3>1 DEF StockLedger
    <3>8. stock[p] \in Int /\ Returned(S, p) \in Nat /\ lines[p] \in Nat
      BY <1>0, <3>1, ReturnedNat, SizesAreNat DEF TypeOK, StockValues, Carts
    <3> HIDE DEF left, taken
    <3>9. QED
      BY <1>1, <2>1, <3>1, <3>4, <3>5, <3>6, <3>7, <3>8
  <2>6. QED
    BY <2>5 DEF StockLedger
<1>3. ASSUME NEW o \in OrderIds, Release(o) PROVE StockLedger'
  <2>1. /\ stock' = StockAfterRelease({o}) /\ supply' = supply /\ debited' = debited
        /\ \A i \in Items : status'[i] = IF i \in Pending({o}) THEN "CANCELLED" ELSE status[i]
    BY <1>3 DEF Release, ReleaseOne
  <2>2. ASSUME NEW p \in Plans, stock'[p] # None
        PROVE  stock'[p] + Cardinality(Held(p)') = supply'[p]
    <3>1. stock[p] # None /\ stock'[p] = stock[p] + Returned({o}, p)
      BY <2>1, <2>2 DEF StockAfterRelease
    <3>2. Held(p)' = {i \in Held(p) : i \notin Pending({o})}
      BY <1>0, <2>1 DEF Held, TypeOK
    <3>3. Cardinality(Held(p)') = Cardinality(Held(p)) - Returned({o}, p)
      BY <1>0, <3>2, ReleaseUnits
    <3>4. stock[p] + Cardinality(Held(p)) = supply[p]
      BY <3>1 DEF StockLedger
    <3>5. stock[p] \in Int /\ Returned({o}, p) \in Nat
      BY <1>0, <3>1, ReturnedNat, SizesAreNat DEF TypeOK, StockValues
    <3>6. QED
      BY <1>1, <2>1, <3>1, <3>3, <3>4, <3>5
  <2>3. QED
    BY <2>2 DEF StockLedger
<1>4. ASSUME NEW o \in OrderIds, NEW ref \in Refs, RecordManualPayment(o, ref)
      PROVE  StockLedger'
  <2>1. stock' = stock /\ supply' = supply /\ debited' = debited
    BY <1>4 DEF RecordManualPayment, catalogueVars
  <2>2. \A i \in Items : status'[i] = "CANCELLED" <=> status[i] = "CANCELLED"
    BY <1>4 DEF RecordManualPayment, CanPay
  <2>3. \A p : Held(p)' = Held(p)
    BY <1>0, <2>1, <2>2 DEF Held, TypeOK
  <2>4. QED
    BY <2>1, <2>3 DEF StockLedger
<1>5. ASSUME NEW p \in Plans, NEW n \in StockValues, SaveStockForm(p, n) PROVE StockLedger'
  <2> DEFINE v == stockForm[p][1]
  <2>1. \A q : Held(q)' = Held(q)
    BY <1>5 DEF SaveStockForm, itemVars, Held
  <2>2. CASE n = v
    BY <1>5, <2>1, <2>2 DEF SaveStockForm, StockLedger
  <2>3. CASE n # v
    <3>1. /\ stock[p] = v /\ stock' = [stock EXCEPT ![p] = n]
          /\ supply' = [supply EXCEPT ![p] = SupplyAfterEdit(p, v, n)]
      BY <1>5, <2>3 DEF SaveStockForm
    <3>2. ASSUME NEW q \in Plans, q # p, stock'[q] # None
          PROVE  stock'[q] + Cardinality(Held(q)') = supply'[q]
      BY <1>0, <2>1, <3>1, <3>2 DEF StockLedger, TypeOK
    <3>3. ASSUME n # None PROVE n + Cardinality(Held(p)') = SupplyAfterEdit(p, v, n)
      <4>1. CASE v = None
        BY <2>1, <3>3, <4>1 DEF SupplyAfterEdit
      <4>2. CASE v # None
        <5>1. v + Cardinality(Held(p)) = supply[p]
          BY <3>1, <4>2 DEF StockLedger
        <5>2. v \in Int /\ n \in Int
          BY <1>0, <3>1, <3>3, <4>2, SizesAreNat DEF TypeOK, StockValues
        <5>3. SupplyAfterEdit(p, v, n) = supply[p] + (n - v)
          BY <3>3, <4>2 DEF SupplyAfterEdit
        <5> HIDE DEF v
        <5>4. QED
          BY <1>1, <2>1, <5>1, <5>2, <5>3
      <4>3. QED
        BY <4>1, <4>2
    <3>4. stock'[p] = n /\ supply'[p] = SupplyAfterEdit(p, v, n)
      BY <1>0, <3>1 DEF TypeOK
    <3>5. QED
      BY <3>2, <3>3, <3>4 DEF StockLedger
  <2>4. QED
    BY <2>2, <2>3
<1>6. ASSUME Quiet PROVE StockLedger'
  BY <1>6 DEF Quiet, itemVars, StockLedger, Held
<1>7. QED
  BY StepKinds, <1>2, <1>3, <1>4, <1>5, <1>6

\* Counted stock and held units always add up to what is on sale.
THEOREM StockLedgerBalances == Spec => []StockLedger
<1>1. Init => StockLedger
  <2>1. ASSUME Init, NEW p \in Plans, stock[p] # None
        PROVE  stock[p] + Cardinality(Held(p)) = supply[p]
    <3>1. Held(p) = {}
      BY <2>1 DEF Init, Held
    <3>2. Cardinality(Held(p)) = 0
      BY <3>1, FS_EmptySet
    <3>3. supply[p] = stock[p] /\ stock[p] \in Int
      BY <2>1, SizesAreNat DEF Init, StockValues
    <3>4. QED
      BY <3>2, <3>3
  <2>2. QED
    BY <2>1 DEF StockLedger
<1>2. QED
  BY RowsInit, RowsStep, <1>1, StockLedgerStep, PTL DEF Spec

-----------------------------------------------------------------------------
(* Orders implements Settlement *)

LEMMA PhaseOfOrder ==
  ASSUME RowsInv, NEW o \in OrderIds
  PROVE  /\ Phase(o) = "new" <=> owner[o] = None
         /\ Phase(o) = "unpaid" <=> HasPending(o)
<1>1. owner[o] = None => payment[o] = None /\ o \notin cancelled
  BY DEF RowsInv, RowsComplete
<1>2. QED
  BY <1>1, UnpaidMeansOpen DEF Phase

LEMMA PromiseStep ==
  ASSUME RowsInv, RowsInv', [Next]_vars
  PROVE  [Promise!Next]_<<owner, [o \in OrderIds |-> Phase(o)]>>
<1> DEFINE phase == [o \in OrderIds |-> Phase(o)]
           Unmoved == UNCHANGED <<owner, phase>>
<1>1. ASSUME UNCHANGED <<owner, payment, cancelled>> PROVE Unmoved
  BY <1>1 DEF Phase
<1>2. ASSUME NEW u \in Users, NEW o \in OrderIds, NEW lines \in Carts,
             NEW id \in CheckoutIds, FinishPlace(u, o, lines, id)
      PROVE  Promise!Place(u, o)
  <2> DEFINE S == Existing(u)
  <2>1. /\ owner[o] = None /\ owner' = [owner EXCEPT ![o] = u]
        /\ payment' = payment /\ cancelled' = cancelled \cup S
    BY <1>2 DEF FinishPlace, ReleaseOrders
  <2>2. u # None /\ o \notin S /\ o \notin cancelled /\ payment[o] = None
    BY <2>1, NullIsNoValue DEF RowsInv, RowsComplete, Existing
  <2>3. S = Promise!UnpaidOf(u)
    BY PhaseOfOrder DEF Existing, Promise!UnpaidOf
  <2>4. ASSUME NEW x \in OrderIds
        PROVE  phase'[x] = IF x = o THEN "unpaid"
                           ELSE IF x \in S THEN "cancelled" ELSE phase[x]
    <3>1. CASE x = o
      BY <2>1, <2>2, <3>1 DEF Phase, RowsInv, TypeOK
    <3>2. CASE x # o /\ x \in S
      <4>1. owner'[x] = owner[x] /\ owner[x] # None /\ payment[x] = None
        BY <2>1, <2>2, <3>2, UnpaidMeansOpen DEF Existing, RowsInv, TypeOK
      <4>2. QED
        BY <2>1, <3>2, <4>1 DEF Phase
    <3>3. CASE x # o /\ x \notin S
      <4>1. owner'[x] = owner[x]
        BY <2>1, <3>3 DEF RowsInv, TypeOK
      <4>2. QED
        BY <2>1, <3>3, <4>1 DEF Phase
    <3>4. QED
      BY <3>1, <3>2, <3>3
  <2>5. phase[o] = "new"
    BY <2>1 DEF Phase
  <2>6. phase' = [x \in OrderIds |-> IF x = o THEN "unpaid"
                     ELSE IF x \in Promise!UnpaidOf(u) THEN "cancelled" ELSE phase[x]]
    BY <2>3, <2>4
  <2>7. QED
    BY <2>1, <2>5, <2>6 DEF Promise!Place
<1>3. ASSUME NEW o \in OrderIds, Release(o) PROVE Promise!Cancel(o)
  <2>1. owner' = owner /\ payment' = payment /\ cancelled' = cancelled \cup {o} /\ HasPending(o)
    BY <1>3 DEF Release, ReleaseOne, ReleaseOrders
  <2>2. owner[o] # None /\ payment[o] = None /\ phase[o] = "unpaid"
    BY <2>1, UnpaidMeansOpen, PhaseOfOrder
  <2>3. ASSUME NEW x \in OrderIds
        PROVE  phase'[x] = IF x = o THEN "cancelled" ELSE phase[x]
    BY <2>1, <2>2 DEF Phase
  <2>4. phase' = [phase EXCEPT ![o] = "cancelled"]
    BY <2>3
  <2>5. QED
    BY <2>1, <2>2, <2>4 DEF Promise!Cancel
<1>4. ASSUME NEW o \in OrderIds, NEW ref \in Refs, RecordManualPayment(o, ref)
      PROVE  Promise!Pay(o)
  <2>1. /\ owner' = owner /\ cancelled' = cancelled /\ payment' = [payment EXCEPT ![o] = ref]
        /\ owner[o] # None /\ payment[o] = None /\ o \notin cancelled /\ ref # None
    BY <1>4, NullIsNoValue DEF RecordManualPayment, CanPay
  <2>2. phase[o] = "unpaid"
    BY <2>1 DEF Phase
  <2>3. ASSUME NEW x \in OrderIds
        PROVE  phase'[x] = IF x = o THEN "paid" ELSE phase[x]
    BY <2>1 DEF Phase, RowsInv, TypeOK
  <2>4. phase' = [phase EXCEPT ![o] = "paid"]
    BY <2>3
  <2>5. QED
    BY <2>1, <2>2, <2>4 DEF Promise!Pay
<1>5. ASSUME NEW p \in Plans, NEW n \in StockValues, SaveStockForm(p, n) PROVE Unmoved
  BY <1>1, <1>5 DEF SaveStockForm, orderVars
<1>6. ASSUME Quiet PROVE Unmoved
  BY <1>1, <1>6 DEF Quiet
<1>7. QED
  BY StepKinds, <1>2, <1>3, <1>4, <1>5, <1>6 DEF Promise!Next

\* Every behaviour of the services, seen through Phase, is one of Settlement.
THEOREM OrdersImplementSettlement == Spec => SettlesOnce
<1>1. Init => Promise!Init
  BY DEF Init, Promise!Init, Phase
<1>2. QED
  BY <1>1, RowsInit, RowsStep, PromiseStep, PTL DEF Spec, SettlesOnce, Promise!Spec

-----------------------------------------------------------------------------
(* An item's history *)

\* h is an unbroken chain of changes from the item's creation to s.
Explains(h, s) ==
  /\ h # <<>>
  /\ h[1].from = None
  /\ h[Len(h)].to = s
  /\ \A n \in 1..Len(h) - 1 : h[n + 1].from = h[n].to
  /\ \A n \in 1..Len(h) : h[n].from # h[n].to

\* One more change from where the chain ends, or a first one, keeps it a chain.
LEMMA ChainGrows ==
  ASSUME NEW h \in Seq(Events), NEW e \in Events, e.from # e.to,
         \/ h = <<>> /\ e.from = None
         \/ Explains(h, e.from)
  PROVE  Append(h, e) \in Seq(Events) /\ Explains(Append(h, e), e.to)
<1> DEFINE g == Append(h, e)
<1>1. /\ g \in Seq(Events) /\ Len(g) = Len(h) + 1 /\ Len(h) \in Nat
      /\ \A n \in 1..Len(h) : g[n] = h[n]
      /\ g[Len(h) + 1] = e /\ g # <<>>
  BY AppendProperties, LenProperties
<1> HIDE DEF g
<1>2. CASE h = <<>> /\ e.from = None
  <2>1. Len(g) = 1 /\ g[1] = e
    BY <1>1, <1>2
  <2>2. QED
    BY <1>1, <1>2, <2>1 DEF Explains, g
<1>3. CASE Explains(h, e.from)
  <2>1. Len(h) # 0
    BY <1>3, EmptySeq DEF Explains
  <2>2. g[1] = h[1] /\ g[Len(g)] = e
    BY <1>1, <2>1
  <2>3. ASSUME NEW n \in 1..Len(g) - 1 PROVE g[n + 1].from = g[n].to
    BY <1>1, <1>3, <2>3 DEF Explains
  <2>4. ASSUME NEW n \in 1..Len(g) PROVE g[n].from # g[n].to
    BY <1>1, <1>3, <2>4 DEF Explains
  <2>5. QED
    BY <1>1, <1>3, <2>2, <2>3, <2>4 DEF Explains, g
<1>4. QED
  BY <1>2, <1>3

LEMMA LogExplains ==
  ASSUME TypeOK, NEW i \in Items, NEW from \in Statuses \cup {None}, NEW to \in Statuses,
         NEW by \in Actors, from # to,
         \/ events[i] = <<>> /\ from = None
         \/ Explains(events[i], from)
  PROVE  Log(i, from, to, by) \in Seq(Events) /\ Explains(Log(i, from, to, by), to)
<1> DEFINE e == [from |-> from, to |-> to, by |-> by]
<1>1. e \in Events /\ e.from = from /\ e.to = to
  BY DEF Events
<1>2. events[i] \in Seq(Events)
  BY DEF TypeOK
<1> HIDE DEF e
<1>3. Append(events[i], e) \in Seq(Events) /\ Explains(Append(events[i], e), e.to)
  BY <1>1, <1>2, ChainGrows
<1>4. QED
  BY <1>1, <1>3 DEF Log, e

LEMMA HistoryStep == RowsInv /\ HistoryExplainsStatus /\ [Next]_vars => HistoryExplainsStatus'
<1> SUFFICES ASSUME RowsInv, HistoryExplainsStatus, [Next]_vars
             PROVE  HistoryExplainsStatus'
  OBVIOUS
<1>1. /\ \A i \in Items : events[i] \in Seq(Events)
      /\ \A i \in Items : status[i] = "absent" => events[i] = <<>>
      /\ \A i \in Items : status[i] # "absent" => Explains(events[i], status[i])
  BY DEF RowsInv, TypeOK, HistoryExplainsStatus, Explains
<1>2. SUFFICES ASSUME NEW i \in Items
               PROVE  IF status'[i] = "absent" THEN events'[i] = <<>>
                      ELSE Explains(events'[i], status'[i])
  BY DEF HistoryExplainsStatus, Explains
<1>3. ASSUME status'[i] = status[i], events'[i] = events[i]
      PROVE  IF status'[i] = "absent" THEN events'[i] = <<>>
             ELSE Explains(events'[i], status'[i])
  BY <1>1, <1>3
<1>4. ASSUME NEW by \in Actors, status[i] = "PENDING_PAYMENT", status'[i] = "CANCELLED",
             events'[i] = Log(i, "PENDING_PAYMENT", "CANCELLED", by)
      PROVE  Explains(events'[i], status'[i])
  BY <1>1, <1>4, LogExplains DEF RowsInv, Statuses
<1>5. ASSUME NEW u \in Users, NEW o \in OrderIds, NEW lines \in Carts,
             NEW id \in CheckoutIds, FinishPlace(u, o, lines, id)
      PROVE  IF status'[i] = "absent" THEN events'[i] = <<>>
             ELSE Explains(events'[i], status'[i])
  <2> DEFINE expired == Pending(Existing(u))
             new == NewItems(o, lines)
  <2>1. /\ owner[o] = None
        /\ status'[i] = IF i \in expired THEN "CANCELLED"
                        ELSE IF i \in new THEN "PENDING_PAYMENT" ELSE status[i]
        /\ events'[i] = IF i \in expired THEN Log(i, "PENDING_PAYMENT", "CANCELLED", "system")
                        ELSE IF i \in new THEN Log(i, None, "PENDING_PAYMENT", "customer")
                        ELSE events[i]
    BY <1>5 DEF FinishPlace
  <2>2. i \in new => status[i] = "absent"
    <3>1. ItemsOf(o) = {}
      BY <2>1 DEF RowsInv, RowsComplete
    <3>2. QED
      BY <3>1 DEF NewItems, ItemsOf
  <2>3. i \in expired => status[i] = "PENDING_PAYMENT"
    BY DEF Pending
  <2> HIDE DEF expired, new
  <2>4. CASE i \in expired
    BY <1>4, <2>1, <2>3, <2>4 DEF Actors
  <2>5. CASE i \notin expired /\ i \in new
    <3>1. status[i] = "absent" /\ events[i] = <<>>
      BY <1>1, <2>2, <2>5
    <3>2. Explains(Log(i, None, "PENDING_PAYMENT", "customer"), "PENDING_PAYMENT")
      BY <3>1, LogExplains, NullIsNoStatus DEF RowsInv, Statuses, Actors
    <3>3. QED
      BY <2>1, <2>5, <3>2
  <2>6. CASE i \notin expired /\ i \notin new
    BY <1>3, <2>1, <2>6
  <2>7. QED
    BY <2>4, <2>5, <2>6
<1>6. ASSUME NEW o \in OrderIds, Release(o)
      PROVE  IF status'[i] = "absent" THEN events'[i] = <<>>
             ELSE Explains(events'[i], status'[i])
  <2>1. PICK by \in Actors :
          /\ status'[i] = IF i \in Pending({o}) THEN "CANCELLED" ELSE status[i]
          /\ events'[i] = IF i \in Pending({o}) THEN Log(i, "PENDING_PAYMENT", "CANCELLED", by)
                          ELSE events[i]
    BY <1>6 DEF Release, ReleaseOne
  <2>2. CASE i \in Pending({o})
    BY <1>4, <2>1, <2>2 DEF Pending
  <2>3. CASE i \notin Pending({o})
    BY <1>3, <2>1, <2>3
  <2>4. QED
    BY <2>2, <2>3
<1>7. ASSUME NEW o \in OrderIds, NEW ref \in Refs, RecordManualPayment(o, ref)
      PROVE  IF status'[i] = "absent" THEN events'[i] = <<>>
             ELSE Explains(events'[i], status'[i])
  <2> DEFINE paid == Log(i, "PENDING_PAYMENT", "QUEUED", "operator")
             toWait == [from |-> "QUEUED", to |-> "AWAITING_INPUT", by |-> "operator"]
  <2>1. CASE i \notin ItemsOf(o)
    BY <1>3, <1>7, <2>1 DEF RecordManualPayment
  <2>2. CASE i \in ItemsOf(o)
    <3>1. status[i] = "PENDING_PAYMENT"
      BY <1>7, <2>2 DEF RecordManualPayment, CanPay
    <3>2. paid \in Seq(Events) /\ Explains(paid, "QUEUED")
      BY <1>1, <3>1, LogExplains DEF RowsInv, Statuses, Actors
    <3>3. toWait \in Events /\ toWait.from = "QUEUED" /\ toWait.to = "AWAITING_INPUT"
      BY DEF Events, Statuses, Actors
    <3>4. /\ status'[i] = IF i[2] \in TelegramPlans THEN "AWAITING_INPUT" ELSE "QUEUED"
          /\ events'[i] = IF i[2] \in TelegramPlans THEN Append(paid, toWait) ELSE paid
      BY <1>7, <2>2 DEF RecordManualPayment
    <3> HIDE DEF paid, toWait
    <3>5. Explains(Append(paid, toWait), "AWAITING_INPUT")
      BY <3>2, <3>3, ChainGrows
    <3>6. QED
      BY <3>2, <3>4, <3>5
  <2>3. QED
    BY <2>1, <2>2
<1>8. ASSUME NEW p \in Plans, NEW n \in StockValues, SaveStockForm(p, n)
      PROVE  status'[i] = status[i] /\ events'[i] = events[i]
  BY <1>8 DEF SaveStockForm, itemVars
<1>9. ASSUME Quiet
      PROVE  status'[i] = status[i] /\ events'[i] = events[i]
  BY <1>9 DEF Quiet, itemVars
<1>10. QED
  BY StepKinds, <1>3, <1>5, <1>6, <1>7, <1>8, <1>9

\* The history of an item explains its status, through any sequence of handlers.
THEOREM HistoryAlwaysExplains == Spec => []HistoryExplainsStatus
<1>1. Init => HistoryExplainsStatus
  BY DEF Init, HistoryExplainsStatus
<1>2. QED
  BY <1>1, RowsInit, RowsStep, HistoryStep, PTL DEF Spec

-----------------------------------------------------------------------------
(* Redemptions *)

Redeems(o) ==
  LET c == codeOf'[o]
      row == code[c]
      mine == {x \in OrderIds : /\ codeOf'[x] = c /\ x \notin released'
                                /\ owner'[x] = owner'[o]}
  IN /\ row.active
     /\ row.name = placing[owner'[o]].name
     /\ row.maxUses # None => used'[c] <= row.maxUses
     /\ row.perUser # None => Cardinality(mine) <= row.perUser

LEMMA RedemptionKeepsTerms ==
  ASSUME RowsInv, [Next]_vars, NEW o \in OrderIds, codeOf[o] # codeOf'[o]
  PROVE  Redeems(o)
<1>1. PICK u \in Users, x \in OrderIds, lines \in Carts, id \in CheckoutIds :
        FinishPlace(u, x, lines, id)
  <2>1. \A x \in OrderIds : ~Release(x)
    BY DEF Release, ReleaseOne
  <2>2. \A x \in OrderIds, ref \in Refs : ~RecordManualPayment(x, ref)
    BY DEF RecordManualPayment
  <2>3. \A p \in Plans, n \in StockValues : ~SaveStockForm(p, n)
    BY DEF SaveStockForm, orderVars
  <2>4. ~Quiet
    BY DEF Quiet
  <2>5. QED
    BY StepKinds, <2>1, <2>2, <2>3, <2>4
<1> DEFINE S == Existing(u)
           c == placing[u].code
           others == {y \in Redemptions(c) \ S : owner[y] = u}
           mine == {y \in OrderIds : codeOf'[y] = c /\ y \notin released' /\ owner'[y] = u}
<1>2. /\ ~Unlocked(u) /\ owner[x] = None /\ CanRelease(S) /\ CodeAccepted(u, S)
      /\ owner' = [owner EXCEPT ![x] = u] /\ codeOf' = [codeOf EXCEPT ![x] = c]
      /\ used' = [d \in Codes |-> UsedAfterRelease(S)[d] + (IF d = c THEN 1 ELSE 0)]
      /\ released' = released \cup {y \in S : codeOf[y] # None}
  BY <1>1 DEF FinishPlace, ReleaseOrders
<1>3. codeOf \in [OrderIds -> Codes \cup {None}] /\ owner \in [OrderIds -> Users \cup {None}]
      /\ code \in [Codes -> CodeRows] /\ placing \in [Users -> Requests \cup {None}]
  BY DEF RowsInv, TypeOK
<1>4. o = x /\ codeOf'[o] = c /\ owner'[o] = u /\ codeOf[o] = None
  BY <1>2, <1>3 DEF RowsInv, RowsComplete
<1>5. c \in Codes /\ c # None
  BY <1>2, <1>3, <1>4 DEF Unlocked, Requests
<1>6. /\ code[c].name = placing[u].name /\ code[c].active
      /\ code[c].maxUses # None => UsedAfterRelease(S)[c] < code[c].maxUses
      /\ code[c].perUser # None => Cardinality(others) < code[c].perUser
  BY <1>2, <1>5 DEF CodeAccepted, Redeemable
<1>7. /\ code[c].maxUses \in Nat \cup {None} /\ code[c].perUser \in Nat \cup {None}
      /\ UsedAfterRelease(S)[c] \in Nat
  <2>1. UsedAfterRelease(S)[c] \in Nat
    BY <1>2, <1>5, StockReleasedType DEF RowsInv
  <2>2. QED
    BY <1>3, <1>5, <2>1, SizesAreNat DEF CodeRows
<1>8. mine \subseteq others \cup {o}
  BY <1>2, <1>3, <1>4, <1>5 DEF Redemptions
<1>9. Cardinality(mine) <= Cardinality(others) + 1 /\ Cardinality(others) \in Nat
      /\ Cardinality(mine) \in Nat
  <2>1. IsFiniteSet(others) /\ Cardinality(others) \in Nat
    BY RedemptionsFinite, SubsetCount
  <2>2. IsFiniteSet(others \cup {o})
        /\ Cardinality(others \cup {o}) \in {Cardinality(others), Cardinality(others) + 1}
    BY <2>1, FS_AddElement
  <2>3. QED
    BY <1>8, <2>1, <2>2, FS_Subset, FS_CardinalityType
<1>10. used'[c] = UsedAfterRelease(S)[c] + 1
  BY <1>2, <1>5
<1>11. codeOf'[o] = c /\ owner'[o] = u
       /\ mine = {y \in OrderIds : codeOf'[y] = codeOf'[o] /\ y \notin released'
                                     /\ owner'[y] = owner'[o]}
  BY <1>4
<1> HIDE DEF S, others, mine
<1>12. /\ code[c].maxUses # None => used'[c] <= code[c].maxUses
       /\ code[c].perUser # None => Cardinality(mine) <= code[c].perUser
  BY <1>6, <1>7, <1>9, <1>10
<1> HIDE DEF c
<1>13. QED
  BY <1>6, <1>11, <1>12 DEF Redeems

\* A code is redeemed within its limits as they are at that moment (place_order).
THEOREM RedemptionsKeepTerms == Spec => RedemptionWithinTerms
<1>1. RowsInv /\ [Next]_vars =>
        [\A o \in OrderIds : codeOf[o] # codeOf'[o] => Redeems(o)]_vars
  BY RedemptionKeepsTerms
<1>2. QED
  BY <1>1, RowsInit, RowsStep, PTL DEF Spec, RedemptionWithinTerms, Redeems

-----------------------------------------------------------------------------
(* Expiry *)

\* A sweep holds overdue orders only, and a reason is written with the
\* cancellation it is the reason of.
ExpiryInv ==
  /\ RowsInv
  /\ sweep \subseteq overdue
  /\ \A i \in Items : reason[i] # None => status[i] = "CANCELLED"

Deserved(i) ==
  /\ reason[i] = None
  /\ reason'[i] = "expired_unpaid" =>
       /\ i[1] \in overdue
       /\ events'[i][Len(events'[i])].by = "system"

LEMMA LoggedLast ==
  ASSUME TypeOK, NEW i \in Items, NEW from, NEW to, NEW by
  PROVE  Log(i, from, to, by)[Len(Log(i, from, to, by))].by = by
<1> DEFINE e == [from |-> from, to |-> to, by |-> by]
<1>1. events[i] \in Seq(Events)
  BY DEF TypeOK
<1>2. Append(events[i], e)[Len(Append(events[i], e))] = e
  BY <1>1
<1>3. QED
  BY <1>2 DEF Log

\* Cancelling pending items writes reasons where there were none.
LEMMA ReasonsOfCancelled ==
  ASSUME ExpiryInv, NEW S, NEW why \in Reasons, NEW by,
         why = "expired_unpaid" => by = "system" /\ S \subseteq overdue,
         NEW i \in Items,
         reason'[i] = IF i \in Pending(S) THEN why ELSE reason[i],
         i \in Pending(S) => /\ status'[i] = "CANCELLED"
                             /\ events'[i] = Log(i, "PENDING_PAYMENT", "CANCELLED", by)
  PROVE  reason[i] # reason'[i] => Deserved(i) /\ status'[i] = "CANCELLED"
<1>1. CASE i \in Pending(S)
  <2>1. status[i] = "PENDING_PAYMENT" /\ i[1] \in S
    BY <1>1 DEF Pending
  <2>2. reason[i] = None
    BY <2>1 DEF ExpiryInv
  <2>3. events'[i][Len(events'[i])].by = by
    BY <1>1, LoggedLast DEF ExpiryInv, RowsInv
  <2>4. QED
    BY <1>1, <2>1, <2>2, <2>3 DEF Deserved
<1>2. QED
  BY <1>1

\* What a step does to the items, as far as reasons go.
ReasonsDeserved ==
  \A i \in Items :
    /\ reason[i] # reason'[i] => Deserved(i) /\ status'[i] = "CANCELLED"
    /\ status[i] = "CANCELLED" => status'[i] = "CANCELLED"

LEMMA ReleasedWithReason ==
  ASSUME ExpiryInv, NEW o \in OrderIds, NEW why \in Reasons, NEW by,
         ReleaseOne(o, why, by),
         why = "expired_unpaid" => by = "system" /\ o \in overdue
  PROVE  ReasonsDeserved /\ overdue' = overdue
<1>1. /\ overdue' = overdue
      /\ \A i \in Items :
           /\ status'[i] = IF i \in Pending({o}) THEN "CANCELLED" ELSE status[i]
           /\ reason'[i] = IF i \in Pending({o}) THEN why ELSE reason[i]
           /\ i \in Pending({o}) => events'[i] = Log(i, "PENDING_PAYMENT", "CANCELLED", by)
  BY DEF ReleaseOne
<1>2. ASSUME NEW i \in Items PROVE reason[i] # reason'[i] => Deserved(i) /\ status'[i] = "CANCELLED"
  BY <1>1, ReasonsOfCancelled
<1>3. QED
  BY <1>1, <1>2 DEF ReasonsDeserved

LEMMA ExpiryEffects ==
  ASSUME ExpiryInv, [Next]_vars
  PROVE  ReasonsDeserved /\ sweep' \subseteq overdue'
<1> USE DEF catalogueVars, orderVars, itemVars, processVars
<1>0. RowsInv /\ sweep \subseteq overdue
  BY DEF ExpiryInv
<1>1. ASSUME UNCHANGED itemVars PROVE ReasonsDeserved
  BY <1>1 DEF ReasonsDeserved
<1>2. ASSUME NEW u \in Users, NEW o \in OrderIds, NEW lines \in Carts,
             NEW id \in CheckoutIds, FinishPlace(u, o, lines, id)
      PROVE  ReasonsDeserved /\ sweep' \subseteq overdue'
  <2> DEFINE S == Existing(u)
  <2>1. /\ owner[o] = None /\ S \subseteq overdue /\ UNCHANGED <<overdue, sweep>>
        /\ \A i \in Items :
             /\ status'[i] = IF i \in Pending(S) THEN "CANCELLED"
                             ELSE IF i \in NewItems(o, lines) THEN "PENDING_PAYMENT" ELSE status[i]
             /\ reason'[i] = IF i \in Pending(S) THEN "expired_unpaid" ELSE reason[i]
             /\ i \in Pending(S) => events'[i] = Log(i, "PENDING_PAYMENT", "CANCELLED", "system")
    BY <1>2 DEF FinishPlace, NoLiveOrder
  <2>2. \A i \in NewItems(o, lines) : status[i] = "absent"
    BY <1>0, <2>1 DEF RowsInv, RowsComplete, ItemsOf, NewItems
  <2> HIDE DEF S
  <2>3. ASSUME NEW i \in Items
        PROVE  reason[i] # reason'[i] => Deserved(i) /\ status'[i] = "CANCELLED"
    BY <2>1, ReasonsOfCancelled DEF Reasons
  <2>4. QED
    BY <1>0, <2>1, <2>2, <2>3 DEF ReasonsDeserved
<1>3. ASSUME NEW a \in Users, NEW o \in OrderIds, NEW note \in BOOLEAN, Cancel(a, o, note)
      PROVE  ReasonsDeserved /\ sweep' \subseteq overdue'
  <2>1. PICK why \in Reasons \ {"expired_unpaid"}, by \in Actors :
             ReleaseOne(o, why, by) /\ sweep' = sweep
    BY <1>3 DEF Cancel, Reasons, Actors
  <2>2. QED
    BY <1>0, <2>1, ReleasedWithReason
<1>4. ASSUME NEW o \in OrderIds, SweepVisit(o)
      PROVE  ReasonsDeserved /\ sweep' \subseteq overdue'
  <2>1. sweep' \subseteq sweep /\ o \in overdue
    BY <1>0, <1>4 DEF SweepVisit
  <2>2. CASE Unpaid(o) /\ CanRelease({o})
    <3>1. ReleaseOne(o, "expired_unpaid", "system")
      BY <1>4, <2>2 DEF SweepVisit
    <3>2. QED
      BY <1>0, <2>1, <3>1, ReleasedWithReason DEF Reasons
  <2>3. CASE ~(Unpaid(o) /\ CanRelease({o}))
    BY <1>0, <1>1, <1>4, <2>1, <2>3 DEF SweepVisit
  <2>4. QED
    BY <2>2, <2>3
<1>5. ASSUME NEW o \in OrderIds, NEW ref \in Refs, RecordManualPayment(o, ref)
      PROVE  ReasonsDeserved /\ sweep' \subseteq overdue'
  <2>1. /\ UNCHANGED <<reason, sweep, overdue>>
        /\ \A i \in ItemsOf(o) : status[i] = "PENDING_PAYMENT"
        /\ \A i \in Items : i \notin ItemsOf(o) => status'[i] = status[i]
    BY <1>5 DEF RecordManualPayment, CanPay
  <2>2. QED
    BY <1>0, <2>1 DEF ReasonsDeserved
<1>6. ASSUME \/ \E S \in SUBSET OrderIds : SweepBegin(S)
             \/ SweepAbort
             \/ \E o \in OrderIds : PassDeadline(o)
      PROVE  ReasonsDeserved /\ sweep' \subseteq overdue'
  BY <1>0, <1>1, <1>6 DEF SweepBegin, SweepAbort, PassDeadline
<1>7. ASSUME \/ \E u \in Users, name \in Names \cup {None} : BeginPlace(u, name)
             \/ \E u \in Users : RollbackPlace(u)
             \/ \E p \in Plans : OpenStockForm(p)
             \/ \E p \in Plans, n \in StockValues : SaveStockForm(p, n)
             \/ \E p \in Plans : DropStockForm(p)
             \/ \E c \in Codes, row \in CodeRows : EditCode(c, row)
             \/ UNCHANGED vars
      PROVE  ReasonsDeserved /\ sweep' \subseteq overdue'
  BY <1>0, <1>1, <1>7
  DEF BeginPlace, RollbackPlace, OpenStockForm, SaveStockForm, DropStockForm, EditCode, vars
<1>8. QED
  BY <1>2, <1>3, <1>4, <1>5, <1>6, <1>7 DEF Next, Customer, Worker, Operator, Clock

LEMMA ExpiryStep ==
  ExpiryInv /\ [Next]_vars =>
    ExpiryInv' /\ [\A i \in Items : reason[i] # reason'[i] => Deserved(i)]_vars
<1> SUFFICES ASSUME ExpiryInv, [Next]_vars
             PROVE  ExpiryInv' /\ \A i \in Items : reason[i] # reason'[i] => Deserved(i)
  OBVIOUS
<1>1. ReasonsDeserved /\ sweep' \subseteq overdue'
  BY ExpiryEffects
<1>2. RowsInv'
  BY RowsStep DEF ExpiryInv
<1>3. QED
  BY <1>1, <1>2 DEF ExpiryInv, ReasonsDeserved

\* No item ends as expired before its deadline, and no reason is overwritten
\* (_release, expire_unpaid_orders, place_order).
THEOREM ExpiryAlwaysDeserved == Spec => ExpiryIsDeserved
<1>1. Init => ExpiryInv
  BY RowsInit DEF Init, ExpiryInv
<1>2. QED
  BY <1>1, ExpiryStep, PTL DEF Spec, ExpiryIsDeserved, Deserved

-----------------------------------------------------------------------------
(* Sums over finite sets *)

\* Of some finite sets, one is smallest.
LEMMA SmallestSet ==
  ASSUME NEW C, C # {}, \A S \in C : IsFiniteSet(S)
  PROVE  \E S \in C : \A T \in C : Cardinality(S) <= Cardinality(T)
<1> DEFINE sizes == {Cardinality(S) : S \in C}
<1>1. sizes \subseteq Nat /\ sizes # {}
  BY FS_CardinalityType
<1> HIDE DEF sizes
<1>2. PICK n \in sizes : \A k \in sizes : ~(<<k, n>> \in OpToRel(<, Nat))
  BY <1>1, NatLessThanWellFounded, WFMin, Zenon
<1>3. \A k \in sizes : n <= k
  <2>1. \A k \in sizes : ~(k < n)
    BY <1>1, <1>2 DEF OpToRel
  <2>2. QED
    BY <1>1, <2>1
<1>4. PICK S \in C : n = Cardinality(S)
  BY DEF sizes
<1>5. \A T \in C : Cardinality(T) \in sizes
  BY DEF sizes
<1>6. QED
  BY <1>3, <1>4, <1>5

\* How the community modules sum: over the elements as they are picked.
Pick(S) == CHOOSE x \in S : TRUE

Sum(f, S) == Shop!SumFunctionOnSet(f, S)

\* g sums f over the subsets of S, one picked element at a time.
Sums(g, f, S) ==
  g = [T \in SUBSET S |-> IF T = {} THEN 0 ELSE f[Pick(T)] + g[T \ {Pick(T)}]]

\* The same on some of the sets only, with each of them those it is counted from.
SumsOn(g, f, D) ==
  /\ g = [T \in D |-> g[T]]
  /\ \A T \in D : /\ IsFiniteSet(T)
                  /\ T = {} => g[T] = 0
                  /\ T # {} => T \ {Pick(T)} \in D /\ g[T] = f[Pick(T)] + g[T \ {Pick(T)}]

LEMMA Smaller ==
  ASSUME NEW S, IsFiniteSet(S), NEW x \in S
  PROVE  /\ IsFiniteSet(S \ {x})
         /\ ~(Cardinality(S) <= Cardinality(S \ {x}))
<1>1. IsFiniteSet(S \ {x}) /\ Cardinality(S \ {x}) = Cardinality(S) - 1
  BY FS_RemoveElement
<1>2. Cardinality(S) \in Nat
  BY FS_CardinalityType
<1>3. QED
  BY <1>1, <1>2

LEMMA SumsAgree ==
  ASSUME NEW f, NEW g, NEW h, NEW D, NEW E, SumsOn(g, f, D), SumsOn(h, f, E),
         NEW T \in D \cap E
  PROVE  g[T] = h[T]
<1> DEFINE C == {S \in D \cap E : g[S] # h[S]}
<1> SUFFICES ASSUME C # {} PROVE FALSE
  OBVIOUS
<1>1. \A S \in C : IsFiniteSet(S)
  BY DEF SumsOn
<1>2. PICK S \in C : \A U \in C : Cardinality(S) <= Cardinality(U)
  <2> HIDE DEF C
  <2> QED
    BY <1>1, SmallestSet
<1>3. S # {}
  BY <1>2 DEF SumsOn
<1>4. Pick(S) \in S
  BY <1>3 DEF Pick
<1>5. S \ {Pick(S)} \notin C
  BY <1>1, <1>2, <1>4, Smaller
<1>6. g[S \ {Pick(S)}] = h[S \ {Pick(S)}]
  BY <1>2, <1>3, <1>5 DEF SumsOn
<1>7. QED
  BY <1>2, <1>3, <1>6 DEF SumsOn

\* Every finite set is summed by some g.
LEMMA SumsFor ==
  ASSUME NEW f, NEW S, IsFiniteSet(S)
  PROVE  \A T \in SUBSET S : \E D : T \in D /\ \E g : SumsOn(g, f, D)
<1> DEFINE C == {T \in SUBSET S : ~ \E D : T \in D /\ \E g : SumsOn(g, f, D)}
<1> SUFFICES ASSUME C # {} PROVE FALSE
  OBVIOUS
<1>1. \A T \in C : IsFiniteSet(T)
  BY FS_Subset
<1>2. PICK T \in C : \A U \in C : Cardinality(T) <= Cardinality(U)
  <2> HIDE DEF C
  <2> QED
    BY <1>1, SmallestSet
<1>3. T # {}
  <2> DEFINE g == [U \in {{}} |-> 0]
  <2>1. SumsOn(g, f, {{}})
    BY FS_EmptySet DEF SumsOn
  <2> HIDE DEF g
  <2>2. QED
    BY <1>2, <2>1
<1> DEFINE x == Pick(T)
           R == T \ {x}
<1>4. x \in T
  BY <1>3 DEF Pick
<1>5. R \in SUBSET S /\ R \notin C
  BY <1>1, <1>2, <1>4, Smaller
<1>6. PICK D : R \in D /\ \E g : SumsOn(g, f, D)
  BY <1>5
<1>7. PICK g : SumsOn(g, f, D)
  BY <1>6
<1>8. T \notin D
  BY <1>2, <1>7
<1> DEFINE E == D \cup {T}
           h == [U \in E |-> IF U = T THEN f[x] + g[R] ELSE g[U]]
<1>9. SumsOn(h, f, E)
  <2>1. h = [U \in E |-> h[U]]
    OBVIOUS
  <2>2. h[T] = f[x] + h[R] /\ R \in E
    BY <1>6, <1>8
  <2>3. ASSUME NEW U \in D
        PROVE  /\ IsFiniteSet(U)
               /\ U = {} => h[U] = 0
               /\ U # {} => U \ {Pick(U)} \in E /\ h[U] = f[Pick(U)] + h[U \ {Pick(U)}]
    <3>1. h[U] = g[U]
      BY <1>8
    <3>2. \A V \in D : h[V] = g[V]
      BY <1>8
    <3>3. QED
      BY <1>7, <3>1, <3>2 DEF SumsOn
  <2>4. IsFiniteSet(T)
    BY <1>1, <1>2
  <2> HIDE DEF h
  <2>5. QED
    BY <1>3, <2>1, <2>2, <2>3, <2>4 DEF SumsOn
<1>10. QED
  BY <1>2, <1>9

LEMMA SumsExist ==
  ASSUME NEW f, NEW S, IsFiniteSet(S)
  PROVE  \E g : Sums(g, f, S)
<1> DEFINE Domain(T) == CHOOSE D : T \in D /\ \E g : SumsOn(g, f, D)
           Part(T) == CHOOSE g : SumsOn(g, f, Domain(T))
           whole == [T \in SUBSET S |-> Part(T)[T]]
<1>1. \A T \in SUBSET S : T \in Domain(T) /\ SumsOn(Part(T), f, Domain(T))
  BY SumsFor
<1> HIDE DEF Domain, Part
<1>2. ASSUME NEW T \in SUBSET S
      PROVE  whole[T] = IF T = {} THEN 0 ELSE f[Pick(T)] + whole[T \ {Pick(T)}]
  <2>1. CASE T = {}
    BY <1>1, <2>1 DEF SumsOn
  <2>2. CASE T # {}
    <3> DEFINE R == T \ {Pick(T)}
    <3>1. R \in SUBSET S /\ R \in Domain(T) /\ Part(T)[T] = f[Pick(T)] + Part(T)[R]
      BY <1>1, <2>2 DEF SumsOn
    <3>2. Part(T)[R] = Part(R)[R]
      BY <1>1, <3>1, SumsAgree
    <3>3. QED
      BY <2>2, <3>1, <3>2
  <2>3. QED
    BY <2>1, <2>2
<1>3. Sums(whole, f, S)
  <2> HIDE DEF whole
  <2>1. whole = [T \in SUBSET S |-> whole[T]]
    BY DEF whole
  <2>2. QED
    BY <1>2, <2>1 DEF Sums
<1>4. QED
  BY <1>3

LEMMA SumOfSums ==
  ASSUME NEW f, NEW S, IsFiniteSet(S)
  PROVE  \E g : Sums(g, f, S) /\ Sum(f, S) = g[S]
<1>1. Sum(f, S) = (CHOOSE g : Sums(g, f, S))[S]
  BY DEF Sum, Sums, Pick, Shop!SumFunctionOnSet, Shop!FoldFunctionOnSet, Shop!MapThenFoldSet
<1>2. Sums(CHOOSE g : Sums(g, f, S), f, S)
  BY SumsExist
<1>3. QED
  BY <1>1, <1>2

LEMMA SumsOnSubsets ==
  ASSUME NEW f, NEW S, IsFiniteSet(S), NEW g, Sums(g, f, S)
  PROVE  SumsOn(g, f, SUBSET S)
<1>1. \A T \in SUBSET S : g[T] = IF T = {} THEN 0 ELSE f[Pick(T)] + g[T \ {Pick(T)}]
  BY Zenon DEF Sums
<1>2. g = [T \in SUBSET S |-> g[T]]
  BY DEF Sums
<1>3. QED
  BY <1>1, <1>2, FS_Subset DEF SumsOn

\* A sum by its first element.
LEMMA SumPicked ==
  ASSUME NEW f, NEW S, IsFiniteSet(S)
  PROVE  /\ S = {} => Sum(f, S) = 0
         /\ S # {} => Sum(f, S) = f[Pick(S)] + Sum(f, S \ {Pick(S)})
<1>1. PICK g : Sums(g, f, S) /\ Sum(f, S) = g[S]
  BY SumOfSums
<1>2. SumsOn(g, f, SUBSET S)
  BY <1>1, SumsOnSubsets
<1>3. CASE S = {}
  BY <1>1, <1>2, <1>3 DEF SumsOn
<1>4. CASE S # {}
  <2> DEFINE R == S \ {Pick(S)}
  <2>1. g[S] = f[Pick(S)] + g[R] /\ IsFiniteSet(R)
    BY <1>2, <1>4, FS_Subset DEF SumsOn
  <2>2. PICK h : Sums(h, f, R) /\ Sum(f, R) = h[R]
    BY <2>1, SumOfSums
  <2>3. SumsOn(h, f, SUBSET R)
    BY <2>1, <2>2, SumsOnSubsets
  <2>4. g[R] = h[R]
    BY <1>2, <2>3, SumsAgree
  <2>5. QED
    BY <1>1, <1>4, <2>1, <2>2, <2>4
<1>5. QED
  BY <1>3, <1>4

Numbers(f, S) == \A x \in S : f[x] \in Nat

LEMMA SumType ==
  ASSUME NEW f, NEW S, IsFiniteSet(S), Numbers(f, S)
  PROVE  Sum(f, S) \in Nat
<1> DEFINE C == {T \in SUBSET S : Sum(f, T) \notin Nat}
<1> SUFFICES ASSUME C # {} PROVE FALSE
  OBVIOUS
<1>1. \A T \in C : IsFiniteSet(T)
  BY FS_Subset
<1>2. PICK T \in C : \A U \in C : Cardinality(T) <= Cardinality(U)
  <2> HIDE DEF C
  <2> QED
    BY <1>1, SmallestSet
<1>3. T # {}
  <2>1. Sum(f, T) # 0
    BY <1>2
  <2>2. QED
    BY <1>1, <1>2, <2>1, SumPicked
<1>4. Pick(T) \in T
  BY <1>3 DEF Pick
<1>5. T \ {Pick(T)} \notin C
  BY <1>1, <1>2, <1>4, Smaller
<1>6. Sum(f, T \ {Pick(T)}) \in Nat /\ f[Pick(T)] \in Nat
  BY <1>2, <1>4, <1>5 DEF Numbers
<1>7. Sum(f, T) = f[Pick(T)] + Sum(f, T \ {Pick(T)})
  BY <1>1, <1>2, <1>3, SumPicked
<1>8. QED
  BY <1>2, <1>6, <1>7

\* A sum by any of its elements.
LEMMA SumSplit ==
  ASSUME NEW f, NEW S, IsFiniteSet(S), Numbers(f, S), NEW x \in S
  PROVE  Sum(f, S) = f[x] + Sum(f, S \ {x})
<1> DEFINE C == {T \in SUBSET S : \E y \in T : Sum(f, T) # f[y] + Sum(f, T \ {y})}
<1> SUFFICES ASSUME C # {} PROVE FALSE
  OBVIOUS
<1>1. \A T \in C : IsFiniteSet(T)
  BY FS_Subset
<1>2. PICK T \in C : \A U \in C : Cardinality(T) <= Cardinality(U)
  <2> HIDE DEF C
  <2> QED
    BY <1>1, SmallestSet
<1>3. PICK y \in T : Sum(f, T) # f[y] + Sum(f, T \ {y})
  BY <1>2
<1> DEFINE p == Pick(T)
<1>4. p \in T /\ T \in SUBSET S /\ IsFiniteSet(T)
  BY <1>1, <1>2, <1>3 DEF Pick
<1>5. Sum(f, T) = f[p] + Sum(f, T \ {p})
  BY <1>3, <1>4, SumPicked
<1> HIDE DEF p
<1>6. p # y
  BY <1>3, <1>5
<1>7. T \ {p} \notin C /\ T \ {y} \notin C
  BY <1>2, <1>4, Smaller
<1>8. /\ Sum(f, T \ {p}) = f[y] + Sum(f, (T \ {p}) \ {y})
      /\ Sum(f, T \ {y}) = f[p] + Sum(f, (T \ {y}) \ {p})
  BY <1>4, <1>6, <1>7
<1>9. (T \ {p}) \ {y} = (T \ {y}) \ {p}
  OBVIOUS
<1> DEFINE rest == Sum(f, (T \ {y}) \ {p})
<1>10. f[p] \in Nat /\ f[y] \in Nat /\ rest \in Nat
  <2>1. IsFiniteSet((T \ {y}) \ {p}) /\ Numbers(f, (T \ {y}) \ {p})
    BY <1>4, FS_Subset DEF Numbers
  <2>2. QED
    BY <1>4, <2>1, SumType DEF Numbers
<1> HIDE DEF rest
<1>11. Sum(f, T) = f[p] + (f[y] + rest) /\ Sum(f, T \ {y}) = f[p] + rest
  BY <1>5, <1>8, <1>9 DEF rest
<1>12. QED
  BY <1>3, <1>10, <1>11

\* Only the values of the elements summed matter.
LEMMA SumSame ==
  ASSUME NEW f, NEW g, NEW S, IsFiniteSet(S), \A x \in S : f[x] = g[x]
  PROVE  Sum(f, S) = Sum(g, S)
<1> DEFINE C == {T \in SUBSET S : Sum(f, T) # Sum(g, T)}
<1> SUFFICES ASSUME C # {} PROVE FALSE
  OBVIOUS
<1>1. \A T \in C : IsFiniteSet(T)
  BY FS_Subset
<1>2. PICK T \in C : \A U \in C : Cardinality(T) <= Cardinality(U)
  <2> HIDE DEF C
  <2> QED
    BY <1>1, SmallestSet
<1>3. T # {}
  BY <1>1, <1>2, SumPicked
<1>4. Pick(T) \in T
  BY <1>3 DEF Pick
<1>5. T \ {Pick(T)} \notin C
  BY <1>1, <1>2, <1>4, Smaller
<1>6. Sum(f, T \ {Pick(T)}) = Sum(g, T \ {Pick(T)}) /\ f[Pick(T)] = g[Pick(T)]
  BY <1>2, <1>4, <1>5
<1>7. QED
  BY <1>1, <1>2, <1>3, <1>6, SumPicked

\* A sum in two parts.
LEMMA SumParts ==
  ASSUME NEW f, NEW S, IsFiniteSet(S), Numbers(f, S), NEW T \in SUBSET S
  PROVE  Sum(f, S) = Sum(f, T) + Sum(f, S \ T)
<1> DEFINE C == {U \in SUBSET S : Sum(f, S) # Sum(f, U) + Sum(f, S \ U)}
<1> SUFFICES ASSUME C # {} PROVE FALSE
  OBVIOUS
<1>1. \A U \in C : IsFiniteSet(U)
  BY FS_Subset
<1>2. PICK U \in C : \A V \in C : Cardinality(U) <= Cardinality(V)
  <2> HIDE DEF C
  <2> QED
    BY <1>1, SmallestSet
<1>3. IsFiniteSet(U) /\ U \in SUBSET S
  BY <1>1, <1>2
<1>4. Sum(f, S) \in Nat
  BY SumType
<1>5. U # {}
  <2> SUFFICES ASSUME U = {} PROVE FALSE
    OBVIOUS
  <2>1. Sum(f, U) = 0 /\ Sum(f, S \ U) = Sum(f, S)
    <3>1. S \ U = S
      OBVIOUS
    <3>2. QED
      BY <1>3, <3>1, SumPicked
  <2>2. Sum(f, S) # Sum(f, U) + Sum(f, S \ U)
    BY <1>2
  <2>3. QED
    BY <1>4, <2>1, <2>2
<1>6. PICK x \in U : TRUE
  BY <1>5
<1> DEFINE V == U \ {x}
           W == S \ U
<1>7. Sum(f, S) = Sum(f, V) + Sum(f, S \ V)
  BY <1>2, <1>3, Smaller
<1>8. Sum(f, U) = f[x] + Sum(f, V)
  BY <1>3, SumSplit DEF Numbers
<1>9. Sum(f, S \ V) = f[x] + Sum(f, W)
  <2>1. x \in S \ V /\ (S \ V) \ {x} = W
    BY <1>3
  <2>2. IsFiniteSet(S \ V) /\ Numbers(f, S \ V)
    BY FS_Subset DEF Numbers
  <2> HIDE DEF V, W
  <2>3. QED
    BY <2>1, <2>2, SumSplit
<1>10. Sum(f, V) \in Nat /\ Sum(f, W) \in Nat /\ f[x] \in Nat
  <2>1. IsFiniteSet(V) /\ Numbers(f, V) /\ IsFiniteSet(W) /\ Numbers(f, W)
    BY <1>3, FS_Subset DEF Numbers
  <2>2. f[x] \in Nat
    BY <1>3 DEF Numbers
  <2> HIDE DEF V, W
  <2>3. QED
    BY <2>1, <2>2, SumType
<1>11. Sum(f, S) # Sum(f, U) + Sum(f, W)
  BY <1>2
<1> HIDE DEF V, W
<1>12. QED
  BY <1>7, <1>8, <1>9, <1>10, <1>11

-----------------------------------------------------------------------------
(* Prices *)

\* Units of plans on sale; what some more of a purchase are, too.
Bought(bought) ==
  /\ DOMAIN bought \subseteq Offers
  /\ \A p \in DOMAIN bought : bought[p] \in Nat

Worth(bought, at) == [p \in DOMAIN bought |-> Shop!EffectivePrice(p, at) * bought[p]]

LEMMA PriceType ==
  ASSUME NEW p \in Offers, NEW at
  PROVE  Shop!EffectivePrice(p, at) \in Nat
BY OffersArePriced DEF Shop!EffectivePrice

LEMMA WorthType ==
  ASSUME NEW bought, Bought(bought), NEW at
  PROVE  IsFiniteSet(DOMAIN bought) /\ Numbers(Worth(bought, at), DOMAIN bought)
<1>1. IsFiniteSet(DOMAIN bought)
  BY OffersArePriced, FS_Subset DEF Bought
<1>2. ASSUME NEW p \in DOMAIN bought PROVE Worth(bought, at)[p] \in Nat
  <2>1. Shop!EffectivePrice(p, at) \in Nat /\ bought[p] \in Nat
    BY PriceType DEF Bought
  <2>2. \A m, n \in Nat : m * n \in Nat
    OBVIOUS
  <2>3. QED
    BY <2>1, <2>2 DEF Worth
<1>3. QED
  BY <1>1, <1>2 DEF Numbers

LEMMA AmountIsSum ==
  ASSUME NEW bought, Bought(bought), NEW at, NEW T \in SUBSET DOMAIN bought
  PROVE  /\ Shop!Amount(bought, T, at) = Sum(Worth(bought, at), T)
         /\ Shop!Amount(bought, T, at) \in Nat
<1> DEFINE f == [p \in T |-> Shop!EffectivePrice(p, at) * bought[p]]
           g == Worth(bought, at)
<1>1. IsFiniteSet(T) /\ Numbers(g, T)
  BY WorthType, FS_Subset DEF Numbers
<1>2. Shop!Amount(bought, T, at) = Sum(f, T)
  BY DEF Shop!Amount, Sum
<1>3. \A p \in T : f[p] = g[p]
  BY DEF Worth
<1> HIDE DEF f, g
<1>4. QED
  BY <1>1, <1>2, <1>3, SumSame, SumType DEF g

LEMMA RoundedHalfUp ==
  ASSUME NEW n \in Nat
  PROVE  /\ Shop!HalfUp(n, 100) \in Nat
         /\ 200 * Shop!HalfUp(n, 100) <= 2 * n + 100
         /\ 2 * n + 100 < 200 * Shop!HalfUp(n, 100) + 200
BY DEF Shop!HalfUp

\* The discount on what a code covers.
Off(terms, eligible) ==
  LET amount == IF terms.kind = "percent" THEN Shop!HalfUp(eligible * terms.value, 100)
                                          ELSE terms.value
  IN  IF amount <= eligible THEN amount ELSE eligible

LEMMA DiscountIsOff ==
  ASSUME NEW terms, NEW bought, NEW at
  PROVE  Shop!Discount(terms, bought, at) = Off(terms, Shop!Eligible(terms, bought, at))
BY DEF Shop!Discount, Off

LEMMA Product ==
  ASSUME NEW a \in Nat, NEW b \in Nat, NEW v \in Nat
  PROVE  a * v \in Nat /\ (a + b) * v = a * v + b * v
OBVIOUS

LEMMA ProductBound ==
  ASSUME NEW a \in Nat, NEW v \in Nat
  PROVE  /\ v <= 100 => a * v <= 100 * a
         /\ v >= 100 => a * v >= 100 * a
<1>1. CASE v <= 100
  <2>1. a * (100 - v) \in Nat
    BY <1>1
  <2>2. a * (100 - v) = 100 * a - a * v
    OBVIOUS
  <2>3. QED
    BY <1>1, <2>1, <2>2, Product
<1>2. CASE v >= 100
  <2>1. a * (v - 100) \in Nat
    BY <1>2
  <2>2. a * (v - 100) = a * v - 100 * a
    OBVIOUS
  <2>3. QED
    BY <1>2, <2>1, <2>2, Product
<1>3. QED
  BY <1>1, <1>2

LEMMA OffType ==
  ASSUME NEW terms, terms.value \in Nat, NEW e \in Nat
  PROVE  Off(terms, e) \in Nat /\ Off(terms, e) <= e
<1>1. Shop!HalfUp(e * terms.value, 100) \in Nat
  BY Product, RoundedHalfUp
<1>2. QED
  BY <1>1 DEF Off

\* A discount grows by no more than what it is taken off.
LEMMA OffGrows ==
  ASSUME NEW terms, terms.value \in Nat, NEW e \in Nat, NEW k \in Nat
  PROVE  Off(terms, e + k) <= Off(terms, e) + k
<1>1. CASE terms.kind # "percent"
  BY <1>1 DEF Off
<1>2. CASE terms.kind = "percent"
  <2> DEFINE v == terms.value
             n == e * v
             m == (e + k) * v
             h == Shop!HalfUp(n, 100)
             j == Shop!HalfUp(m, 100)
  <2>1. n \in Nat /\ m \in Nat /\ m = n + k * v /\ k * v \in Nat /\ v \in Nat
    BY Product
  <2>2. /\ h \in Nat /\ 200 * h <= 2 * n + 100 /\ 2 * n + 100 < 200 * h + 200
        /\ j \in Nat /\ 200 * j <= 2 * m + 100 /\ 2 * m + 100 < 200 * j + 200
    BY <2>1, RoundedHalfUp
  <2>3. /\ v <= 100 => k * v <= 100 * k
        /\ v >= 100 => n >= 100 * e
    BY <2>1, ProductBound
  <2>4. /\ Off(terms, e) = IF h <= e THEN h ELSE e
        /\ Off(terms, e + k) = IF j <= e + k THEN j ELSE e + k
    BY <1>2 DEF Off
  <2> DEFINE w == k * v
  <2>5. m = n + w /\ w \in Nat /\ (v <= 100 => w <= 100 * k)
    BY <2>1, <2>3
  <2> HIDE DEF v, n, m, h, j, w
  <2>6. CASE v <= 100
    BY <2>1, <2>2, <2>4, <2>5, <2>6
  <2>7. CASE v >= 100
    BY <2>1, <2>2, <2>3, <2>4, <2>7
  <2>8. QED
    BY <2>1, <2>6, <2>7
<1>3. QED
  BY <1>1, <1>2

Valid(terms) == terms = None \/ (terms.value \in Nat /\ terms.scope \in {"all", "selected"})

\* What a purchase comes to: what the code covers less its discount, and the rest.
LEMMA TotalSplits ==
  ASSUME NEW bought, Bought(bought), NEW at, NEW terms, terms # None, Valid(terms)
  PROVE  LET open == Shop!Amount(bought, Uncovered(terms, bought), at)
             e == Shop!Eligible(terms, bought, at)
         IN  /\ open \in Nat /\ e \in Nat
             /\ Shop!Subtotal(bought, at) = e + open
             /\ Shop!Total(terms, bought, at) = (e + open) - Off(terms, e)
<1> DEFINE C == Shop!Covered(terms, bought)
           U == Uncovered(terms, bought)
           g == Worth(bought, at)
<1>1. C \in SUBSET DOMAIN bought /\ U = (DOMAIN bought) \ C
  BY DEF Uncovered, Shop!Covered, Valid
<1>2. U \in SUBSET DOMAIN bought
  BY <1>1
<1>3. IsFiniteSet(DOMAIN bought) /\ Numbers(g, DOMAIN bought)
  BY WorthType
<1> HIDE DEF C, U, g
<1>4. Sum(g, DOMAIN bought) = Sum(g, C) + Sum(g, U)
  BY <1>1, <1>3, SumParts
<1>5. /\ Shop!Amount(bought, C, at) = Sum(g, C) /\ Shop!Amount(bought, C, at) \in Nat
      /\ Shop!Amount(bought, U, at) = Sum(g, U) /\ Shop!Amount(bought, U, at) \in Nat
      /\ Shop!Amount(bought, DOMAIN bought, at) = Sum(g, DOMAIN bought)
  BY <1>1, <1>2, AmountIsSum DEF g
<1>6. /\ Shop!Eligible(terms, bought, at) = Shop!Amount(bought, C, at)
      /\ Shop!Subtotal(bought, at) = Shop!Amount(bought, DOMAIN bought, at)
      /\ Shop!Total(terms, bought, at)
           = Shop!Subtotal(bought, at) - Shop!Discount(terms, bought, at)
  BY DEF Shop!Eligible, Shop!Subtotal, Shop!Total, C
<1>7. QED
  BY <1>4, <1>5, <1>6, DiscountIsOff DEF U

\* One more unit of a plan.
LEMMA OneMore ==
  ASSUME NEW bought, Bought(bought), NEW at, NEW p \in DOMAIN bought, NEW T \in SUBSET DOMAIN bought
  PROVE  LET more == [bought EXCEPT ![p] = @ + 1]
         IN  /\ Bought(more) /\ DOMAIN more = DOMAIN bought
             /\ Shop!Amount(more, T, at) = Shop!Amount(bought, T, at)
                  + (IF p \in T THEN Shop!EffectivePrice(p, at) ELSE 0)
<1> DEFINE more == [bought EXCEPT ![p] = @ + 1]
           f == Worth(bought, at)
           g == Worth(more, at)
           k == Shop!EffectivePrice(p, at)
<1>1. Bought(more) /\ DOMAIN more = DOMAIN bought /\ more[p] = bought[p] + 1
      /\ \A q \in DOMAIN bought : q # p => more[q] = bought[q]
  BY DEF Bought
<1>2. k \in Nat /\ bought[p] \in Nat
  BY PriceType DEF Bought
<1>3. f[p] = k * bought[p] /\ g[p] = k * more[p]
  BY <1>1 DEF Worth
<1> HIDE DEF more
<1>4. f[p] \in Nat /\ g[p] = f[p] + k
  <2>1. \A a, b \in Nat : a * b \in Nat /\ a * (b + 1) = a * b + a
    OBVIOUS
  <2> HIDE DEF f, g, k
  <2>2. QED
    BY <1>1, <1>2, <1>3, <2>1
<1>5. \A q \in DOMAIN bought : q # p => g[q] = f[q]
  BY <1>1 DEF Worth
<1>6. /\ IsFiniteSet(DOMAIN bought)
      /\ Numbers(f, DOMAIN bought) /\ Numbers(g, DOMAIN bought)
  BY <1>1, WorthType
<1>7. Shop!Amount(bought, T, at) = Sum(f, T) /\ Shop!Amount(more, T, at) = Sum(g, T)
  BY <1>1, AmountIsSum
<1> HIDE DEF f, g, k
<1>8. /\ IsFiniteSet(T) /\ Numbers(f, T) /\ Numbers(g, T)
      /\ IsFiniteSet(T \ {p}) /\ Numbers(f, T \ {p})
  BY <1>6, FS_Subset DEF Numbers
<1>9. Sum(f, T) \in Nat /\ Sum(f, T \ {p}) \in Nat
  BY <1>8, SumType
<1>10. CASE p \in T
  <2>1. Sum(f, T) = f[p] + Sum(f, T \ {p}) /\ Sum(g, T) = g[p] + Sum(g, T \ {p})
    BY <1>8, <1>10, SumSplit
  <2>2. Sum(g, T \ {p}) = Sum(f, T \ {p})
    BY <1>5, <1>8, SumSame
  <2>3. QED
    BY <1>1, <1>2, <1>4, <1>7, <1>9, <1>10, <2>1, <2>2 DEF more, k
<1>11. CASE p \notin T
  <2>1. Sum(g, T) = Sum(f, T)
    BY <1>5, <1>8, <1>11, SumSame
  <2>2. QED
    BY <1>1, <1>7, <1>9, <1>11, <2>1 DEF more
<1>12. QED
  BY <1>10, <1>11

\* What is sold is sold at a fair price.
LEMMA SoldIsFair ==
  ASSUME NEW bought, Bought(bought), NEW at, NEW terms, Valid(terms),
         Shop!Sold(terms, bought, at)
  PROVE  Fair(terms, bought, at)
<1> DEFINE more(p) == [bought EXCEPT ![p] = @ + 1]
<1>1. Shop!Total(terms, bought, at) # 0
  BY DEF Shop!Sold
<1>2. CASE terms = None
  <2>1. /\ Uncovered(terms, bought) = DOMAIN bought
        /\ Shop!Total(terms, bought, at) = Shop!Subtotal(bought, at) - 0
        /\ Shop!Subtotal(bought, at) = Shop!Amount(bought, DOMAIN bought, at)
    BY <1>2 DEF Uncovered, Shop!Total, Shop!Subtotal
  <2>2. Shop!Amount(bought, DOMAIN bought, at) \in Nat
    BY AmountIsSum
  <2>3. ASSUME NEW p \in DOMAIN bought
        PROVE  Shop!Total(terms, bought, at) <= Shop!Total(terms, more(p), at)
    <3>1. /\ DOMAIN more(p) = DOMAIN bought
          /\ Shop!Amount(more(p), DOMAIN bought, at)
               = Shop!Amount(bought, DOMAIN bought, at) + Shop!EffectivePrice(p, at)
      BY OneMore
    <3>2. Shop!EffectivePrice(p, at) \in Nat
      BY PriceType DEF Bought
    <3>3. Shop!Total(terms, more(p), at) = Shop!Amount(more(p), DOMAIN more(p), at) - 0
      BY <1>2 DEF Shop!Total, Shop!Subtotal
    <3>4. QED
      BY <2>1, <2>2, <3>1, <3>2, <3>3
  <2>4. QED
    BY <1>1, <2>1, <2>2, <2>3 DEF Fair
<1>3. CASE terms # None
  <2> DEFINE open == Shop!Amount(bought, Uncovered(terms, bought), at)
             e == Shop!Eligible(terms, bought, at)
  <2>1. /\ open \in Nat /\ e \in Nat /\ Shop!Subtotal(bought, at) = e + open
        /\ Shop!Total(terms, bought, at) = (e + open) - Off(terms, e)
    BY <1>3, TotalSplits
  <2>2. Off(terms, e) \in Nat /\ Off(terms, e) <= e
    BY <1>3, <2>1, OffType DEF Valid
  <2>3. ASSUME NEW p \in DOMAIN bought
        PROVE  Shop!Total(terms, bought, at) <= Shop!Total(terms, more(p), at)
    <3> DEFINE k == Shop!EffectivePrice(p, at)
               openMore == Shop!Amount(more(p), Uncovered(terms, more(p)), at)
               eMore == Shop!Eligible(terms, more(p), at)
    <3>1. Bought(more(p)) /\ DOMAIN more(p) = DOMAIN bought /\ k \in Nat
      BY OneMore, PriceType DEF Bought
    <3>2. /\ openMore \in Nat /\ eMore \in Nat
          /\ Shop!Total(terms, more(p), at) = (eMore + openMore) - Off(terms, eMore)
      <4> HIDE DEF more
      <4>1. QED
        BY <1>3, <3>1, TotalSplits
    <3>3. /\ Uncovered(terms, more(p)) = Uncovered(terms, bought)
          /\ Shop!Covered(terms, more(p)) = Shop!Covered(terms, bought)
      BY <3>1 DEF Uncovered, Shop!Covered
    <3>4. /\ Uncovered(terms, bought) \in SUBSET DOMAIN bought
          /\ Shop!Covered(terms, bought) \in SUBSET DOMAIN bought
          /\ p \in Uncovered(terms, bought) <=> p \notin Shop!Covered(terms, bought)
      BY <1>3 DEF Uncovered, Shop!Covered, Valid
    <3>5. openMore = open + (IF p \in Uncovered(terms, bought) THEN k ELSE 0)
      BY <3>3, <3>4, OneMore
    <3>6. eMore = e + (IF p \in Shop!Covered(terms, bought) THEN k ELSE 0)
      BY <3>3, <3>4, OneMore DEF Shop!Eligible
    <3>7. Off(terms, e + k) <= Off(terms, e) + k /\ Off(terms, e + k) \in Nat
      <4>1. terms.value \in Nat
        BY <1>3 DEF Valid
      <4> HIDE DEF e, k
      <4>2. e + k \in Nat
        BY <2>1, <3>1
      <4>3. QED
        BY <2>1, <3>1, <4>1, <4>2, OffGrows, OffType
    <3>8. CASE p \in Shop!Covered(terms, bought)
      <4>1. eMore = e + k /\ openMore = open
        BY <2>1, <3>4, <3>5, <3>6, <3>8
      <4> HIDE DEF open, e, k, openMore, eMore
      <4>2. QED
        BY <2>1, <2>2, <3>1, <3>2, <3>7, <4>1
    <3>9. CASE p \notin Shop!Covered(terms, bought)
      <4>1. eMore = e /\ openMore = open + k
        BY <2>1, <3>4, <3>5, <3>6, <3>9
      <4> HIDE DEF open, e, k, openMore, eMore
      <4>2. QED
        BY <2>1, <2>2, <3>1, <3>2, <4>1
    <3>10. QED
      BY <3>8, <3>9
  <2> HIDE DEF open, e
  <2>4. /\ Shop!Total(terms, bought, at) >= open
        /\ Shop!Total(terms, bought, at) > 0
        /\ Shop!Total(terms, bought, at) <= Shop!Subtotal(bought, at)
    BY <1>1, <2>1, <2>2
  <2>5. QED
    BY <2>3, <2>4 DEF Fair, open
<1>4. QED
  BY <1>2, <1>3

\* Whatever plans are on sale, whatever is bought, with whatever code and whenever:
\* what the code does not cover is paid in full, nothing is free or dearer than
\* without a code, and one more unit never makes it cheaper (effective_price,
\* _price, _discount).
THEOREM AllPricesAreFair == FairTotals
<1> SUFFICES ASSUME NEW bought \in Purchase, NEW terms \in {None} \cup Terms, NEW at \in Moments,
                    Shop!Sold(terms, bought, at)
             PROVE  Fair(terms, bought, at)
  BY DEF FairTotals
<1>1. Bought(bought)
  BY MaxUnitsIsNat DEF Purchase, Bought
<1>2. Valid(terms)
  BY TermsAreValid DEF Valid
<1>3. QED
  BY <1>1, <1>2, SoldIsFair

\* So the orders of Orders are fairly priced, at any plans' and codes' terms.
THEOREM OrdersAreFairlyPriced == Spec => []PricesAreFair
<1>1. PricesAreFair
  BY AllPricesAreFair DEF PricesAreFair
<1>2. QED
  BY <1>1, PTL

=============================================================================
