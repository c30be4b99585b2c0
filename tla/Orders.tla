------------------------------- MODULE Orders -------------------------------
(***************************************************************************)
(* The unpaid life of an order: placing, cancelling, expiring and paying,  *)
(* with the stock and the discount-code uses an unpaid order claims.       *)
(*                                                                         *)
(* Every handler of apps/orders/services.py takes the buyer's account row  *)
(* first and holds it to commit, so it is one action here.  Three things   *)
(* in the code do span several steps and are modelled as such:             *)
(*   - place_order reads the discount code's id by name before it locks    *)
(*     the code row (BeginPlace ... FinishPlace, the account lock held);   *)
(*   - the expiry sweep selects its candidates without a lock and visits   *)
(*     them later, each in its own transaction (SweepBegin ... SweepVisit);*)
(*   - the panel's stock form shows a stock count that is stale by the     *)
(*     time it is saved (OpenStockForm ... SaveStockForm).                 *)
(***************************************************************************)
EXTENDS Integers, Sequences, FiniteSets

CONSTANTS
  Users,          \* accounts, customers and operators alike
  Staff,          \* the accounts with is_staff and the order permissions
  OrderIds,       \* primary keys an order row may get
  CheckoutIds,    \* the UUIDs a checkout form carries
  Plans,          \* purchasable plans
  TelegramPlans,  \* plans whose product_snapshot has telegram_required
  MaxQty,         \* plan.max_quantity
  MaxStock,       \* the column's limit, 2147483647 in the code
  Codes,          \* discount code rows
  Names,          \* the names a code row can carry, which the panel can change
  Limits,         \* the positive values max_uses and per_user_limit may take
  Refs,           \* bank references of manual payments
  None            \* SQL NULL

ASSUME StaffAreUsers == Staff \subseteq Users
ASSUME TelegramArePlans == TelegramPlans \subseteq Plans
ASSUME SizesAreNat == MaxQty \in Nat /\ MaxStock \in Nat /\ Limits \subseteq Nat \ {0}
ASSUME TablesAreFinite == IsFiniteSet(OrderIds) /\ IsFiniteSet(Plans)
ASSUME NullIsNoValue ==
  None \notin Users \cup OrderIds \cup CheckoutIds \cup Codes \cup Names \cup Refs \cup Int

VARIABLES
  (* catalogue and discount rows *)
  stock,      \* Plan.stock_quantity; None sells without a limit
  code,       \* DiscountCode: name, active, max_uses, per_user_limit
  used,       \* DiscountCode.used_count
  (* Order, Payment and DiscountRedemption rows *)
  owner,      \* Order.user_id; None while the row does not exist
  checkout,   \* Order.checkout_id
  codeOf,     \* Order.discount_code_id, the code of its redemption row too
  overdue,    \* orders whose unpaid_expires_at has passed
  cancelled,  \* orders with cancelled_at set
  released,   \* orders whose redemption has released_at set
  payment,    \* bank_ref of the order's verified payment
  (* OrderItem and OrderItemEvent rows *)
  status,     \* OrderItem.status; "absent" while the row does not exist
  debited,    \* items with stock_debited set
  reason,     \* OrderItem.cancel_reason
  events,     \* the item's OrderItemEvent rows, oldest first
  (* work in progress outside a single transaction's locks *)
  placing,    \* per account: the place_order transaction holding its lock
  sweep,      \* ids a running sweep has selected and not yet visited
  stockForm,  \* per plan: the stock an open panel form shows
  (* history variable: what the operators have put on sale *)
  supply

catalogueVars == <<stock, code, used>>
orderVars == <<owner, checkout, codeOf, overdue, cancelled, released, payment>>
itemVars == <<status, debited, reason, events>>
processVars == <<placing, sweep, stockForm>>
vars == <<catalogueVars, orderVars, itemVars, processVars, supply>>

-----------------------------------------------------------------------------
(* Types *)

StockValues == 0..MaxStock \cup {None}
Items == OrderIds \X Plans \X (1..MaxQty)      \* order, plan, unit number
Statuses == {"PENDING_PAYMENT", "QUEUED", "AWAITING_INPUT", "CANCELLED"}
Reasons == {"expired_unpaid", "customer_before_payment", "operator"}
Actors == {"customer", "operator", "system"}
Events == [from : Statuses \cup {None}, to : Statuses, by : Actors]
CodeRows == [name : Names, active : BOOLEAN,
             maxUses : Limits \cup {None}, perUser : Limits \cup {None}]
Requests == [name : Names \cup {None}, code : Codes \cup {None}]

ASSUME NullIsNoStatus == None \notin Statuses

\* Quantities per plan: 1 to 100 lines, each plan at most once.
Carts == {lines \in [Plans -> 0..MaxQty] : \E p \in Plans : lines[p] > 0}

\* Every variable keeps its type: counts stay within their columns and no
\* handler writes a value its column cannot hold.
TypeOK ==
  /\ stock \in [Plans -> StockValues]
  /\ code \in [Codes -> CodeRows]
  /\ used \in [Codes -> Nat]
  /\ owner \in [OrderIds -> Users \cup {None}]
  /\ checkout \in [OrderIds -> CheckoutIds \cup {None}]
  /\ codeOf \in [OrderIds -> Codes \cup {None}]
  /\ overdue \subseteq OrderIds
  /\ cancelled \subseteq OrderIds
  /\ released \subseteq OrderIds
  /\ payment \in [OrderIds -> Refs \cup {None}]
  /\ status \in [Items -> Statuses \cup {"absent"}]
  /\ debited \subseteq Items
  /\ reason \in [Items -> Reasons \cup {None}]
  /\ events \in [Items -> Seq(Events)]
  /\ placing \in [Users -> Requests \cup {None}]
  /\ sweep \subseteq OrderIds
  /\ stockForm \in [Plans -> {<<>>} \cup {<<v>> : v \in StockValues}]
  /\ supply \in [Plans -> Int]

-----------------------------------------------------------------------------
(* State functions *)

ItemsOf(o) == {i \in Items : i[1] = o /\ status[i] # "absent"}
Pending(S) == {i \in Items : i[1] \in S /\ status[i] = "PENDING_PAYMENT"}
HasPending(o) == Pending({o}) # {}
Unlocked(u) == placing[u] = None

\* Unreleased redemptions of code c: the rows used_count counts.
Redemptions(c) == {o \in OrderIds : codeOf[o] = c /\ o \notin released}
\* Units of plan p that were taken out of the counted stock and not given back.
Held(p) == {i \in debited : i[2] = p /\ status[i] # "CANCELLED"}

-----------------------------------------------------------------------------
(* _release: what cancelling the pending units of the orders S gives back. *)

\* Mutants, here and below: the code with one mistake in it, for the tests of
\* the properties.  This one gives back units that were never counted.
ReturnedUncounted(S, p) == Cardinality({i \in Pending(S) : i[2] = p})

Returned(S, p) == Cardinality({i \in Pending(S) : i \in debited /\ i[2] = p})

StockAfterRelease(S) ==
  [p \in Plans |-> IF stock[p] = None THEN None ELSE stock[p] + Returned(S, p)]

\* Mutant: a release marks the redemption and leaves the code's count.
UsedAfterForgetfulRelease(S) == used

UsedAfterRelease(S) ==
  [c \in Codes |-> used[c] - Cardinality(Redemptions(c) \cap S)]

\* Mutant: no look at the column's limit.
StockFitsUnchecked(S) == TRUE

\* The two refusals of _release: a count past the column's limit, and a
\* redemption whose code does not count it any more.
StockFits(S) == \A p \in Plans : stock[p] # None => StockAfterRelease(S)[p] <= MaxStock
CodesCover(S) == \A c \in Codes : UsedAfterRelease(S)[c] >= 0
CanRelease(S) == StockFits(S) /\ CodesCover(S)

\* Mutant: what was selected without a lock is trusted under it.
UnpaidWhenSelected(o) == ItemsOf(o) # {}

\* Only an order that is still unpaid throughout may be released.
Unpaid(o) ==
  /\ HasPending(o)
  /\ \A i \in ItemsOf(o) : status[i] \in {"PENDING_PAYMENT", "CANCELLED"}

\* Mutant: the event's from_status is read after the item was changed.
LogAfterChange(i, from, to, by) == Append(events[i], [from |-> to, to |-> to, by |-> by])

Log(i, from, to, by) == Append(events[i], [from |-> from, to |-> to, by |-> by])

\* The rows of S that a release writes, by its reason and the event's actor.
ReleaseOrders(S) ==
  /\ cancelled' = cancelled \cup S
  /\ released' = released \cup {o \in S : codeOf[o] # None}

ReleaseOne(o, why, by) ==
  LET units == Pending({o})
  IN /\ CanRelease({o})
     /\ stock' = StockAfterRelease({o})
     /\ used' = UsedAfterRelease({o})
     /\ ReleaseOrders({o})
     /\ status' = [i \in Items |-> IF i \in units THEN "CANCELLED" ELSE status[i]]
     /\ reason' = [i \in Items |-> IF i \in units THEN why ELSE reason[i]]
     /\ events' = [i \in Items |->
          IF i \in units THEN Log(i, "PENDING_PAYMENT", "CANCELLED", by) ELSE events[i]]
     /\ UNCHANGED <<code, owner, checkout, codeOf, overdue, payment, debited, supply>>

-----------------------------------------------------------------------------
(* Placing an order *)

\* place_order locks the account, then reads the code's id by its name.
BeginPlace(u, name) ==
  /\ Unlocked(u)
  /\ \E c \in Codes \cup {None} :
       /\ \/ name = None /\ c = None
          \/ c \in Codes /\ code[c].name = name
       /\ placing' = [placing EXCEPT ![u] = [name |-> name, code |-> c]]
  /\ UNCHANGED <<catalogueVars, orderVars, itemVars, sweep, stockForm, supply>>

\* Any refusal, database error or lost worker rolls the transaction back.
RollbackPlace(u) ==
  /\ ~Unlocked(u)
  /\ placing' = [placing EXCEPT ![u] = None]
  /\ UNCHANGED <<catalogueVars, orderVars, itemVars, sweep, stockForm, supply>>

\* _discount, seen after the customer's own overdue orders S were released.
Redeemable(c, u, S) ==
  /\ code[c].active
  /\ code[c].maxUses # None => UsedAfterRelease(S)[c] < code[c].maxUses
  /\ code[c].perUser # None =>
       Cardinality({o \in Redemptions(c) \ S : owner[o] = u}) < code[c].perUser

\* Mutant: the id found by name is believed once the row is locked.
CodeAcceptedByLookup(u, S) ==
  LET c == placing[u].code IN c # None => Redeemable(c, u, S)

\* The row still carries the name it was found by, and admits this customer.
CodeAccepted(u, S) ==
  LET c == placing[u].code
  IN c # None => code[c].name = placing[u].name /\ Redeemable(c, u, S)

\* Mutants: only expired orders are looked for; a live order is released too.
ExistingExpired(u) == {o \in overdue : owner[o] = u /\ HasPending(o)}
NoLiveOrderUnchecked(u) == TRUE

\* The customer's orders with an unpaid item: each must be overdue.
Existing(u) == {o \in OrderIds : owner[o] = u /\ HasPending(o)}
NoLiveOrder(u) == Existing(u) \subseteq overdue

InStock(lines, S) ==
  \A p \in Plans : lines[p] > 0 /\ stock[p] # None =>
    StockAfterRelease(S)[p] >= lines[p]

\* Mutant: one unit too few of every plan.
NewItemsOneShort(o, lines) == {i \in Items : i[1] = o /\ i[3] < lines[i[2]]}

\* The order o holds the units 1..quantity of every plan in the cart.
NewItems(o, lines) == {i \in Items : i[1] = o /\ i[3] <= lines[i[2]]}

FinishPlace(u, o, lines, id) ==
  LET S == Existing(u)
      expired == Pending(S)
      new == NewItems(o, lines)
      c == placing[u].code
  IN /\ ~Unlocked(u)
     /\ owner[o] = None
     /\ \A x \in OrderIds : checkout[x] # id     \* otherwise replay_checkout answers
     /\ NoLiveOrder(u)
     /\ CanRelease(S)
     /\ \A x \in S : Unpaid(x)
     /\ CodeAccepted(u, S)
     /\ InStock(lines, S)
     /\ stock' = [p \in Plans |-> IF stock[p] = None THEN None
                                  ELSE StockAfterRelease(S)[p] - lines[p]]
     /\ used' = [x \in Codes |-> UsedAfterRelease(S)[x] + (IF x = c THEN 1 ELSE 0)]
     /\ ReleaseOrders(S)
     /\ owner' = [owner EXCEPT ![o] = u]
     /\ checkout' = [checkout EXCEPT ![o] = id]
     /\ codeOf' = [codeOf EXCEPT ![o] = c]
     /\ status' = [i \in Items |-> IF i \in expired THEN "CANCELLED"
                                   ELSE IF i \in new THEN "PENDING_PAYMENT" ELSE status[i]]
     /\ debited' = debited \cup {i \in new : stock[i[2]] # None}
     /\ reason' = [i \in Items |-> IF i \in expired THEN "expired_unpaid" ELSE reason[i]]
     /\ events' = [i \in Items |->
          IF i \in expired THEN Log(i, "PENDING_PAYMENT", "CANCELLED", "system")
          ELSE IF i \in new THEN Log(i, None, "PENDING_PAYMENT", "customer") ELSE events[i]]
     /\ placing' = [placing EXCEPT ![u] = None]
     /\ UNCHANGED <<code, overdue, payment, sweep, stockForm, supply>>

-----------------------------------------------------------------------------
(* Cancelling and expiring *)

\* cancel_unpaid_order: the owner, or an operator who must give a reason when
\* acting for a customer.  A second cancellation finds nothing to do.
Cancel(a, o, note) ==
  LET operator == a \in Staff /\ (a # owner[o] \/ note)
  IN /\ owner[o] # None
     /\ a \in Staff \/ a = owner[o]
     /\ operator => note
     /\ Unlocked(owner[o])
     /\ Unpaid(o)
     /\ ReleaseOne(o, IF operator THEN "operator" ELSE "customer_before_payment",
                      IF operator THEN "operator" ELSE "customer")
     /\ UNCHANGED processVars

\* expire_unpaid_orders reads its batch without locking anything; batches of
\* different sweeps and limits are any sets of overdue unpaid orders.
SweepBegin(S) ==
  /\ S # {}
  /\ \A o \in S : o \in overdue /\ HasPending(o)
  /\ sweep' = sweep \cup S
  /\ UNCHANGED <<catalogueVars, orderVars, itemVars, placing, stockForm, supply>>

\* Each id is visited in its own transaction, which decides on what it finds
\* under the locks; an order settled meanwhile or refused by _release is left.
SweepVisit(o) ==
  /\ o \in sweep
  /\ Unlocked(owner[o])
  /\ sweep' = sweep \ {o}
  /\ IF Unpaid(o) /\ CanRelease({o})
     THEN ReleaseOne(o, "expired_unpaid", "system")
     ELSE UNCHANGED <<catalogueVars, orderVars, itemVars, supply>>
  /\ UNCHANGED <<placing, stockForm>>

\* A database failure stops the sweep; its other candidates wait for the next.
SweepAbort ==
  /\ sweep # {}
  /\ sweep' = {}
  /\ UNCHANGED <<catalogueVars, orderVars, itemVars, placing, stockForm, supply>>

\* The deadline, fixed at placement, passes.
PassDeadline(o) ==
  /\ owner[o] # None
  /\ o \notin overdue
  /\ overdue' = overdue \cup {o}
  /\ UNCHANGED <<catalogueVars, owner, checkout, codeOf, cancelled, released, payment,
                 itemVars, processVars, supply>>

-----------------------------------------------------------------------------
(* Paying *)

\* Mutant: only the deadline is looked at.
CanPayByDeadline(o) == o \notin overdue /\ ItemsOf(o) # {}

CanPay(o) ==
  /\ o \notin cancelled
  /\ o \notin overdue
  /\ ItemsOf(o) # {}
  /\ \A i \in ItemsOf(o) : status[i] = "PENDING_PAYMENT"

\* record_manual_payment -> confirm_payment -> mark_order_paid, one transaction.
\* An item that needs a Telegram account goes on to wait for it.
RecordManualPayment(o, ref) ==
  /\ owner[o] # None
  /\ Unlocked(owner[o])
  /\ payment[o] = None            \* otherwise the first payment is returned, or refused
  /\ CanPay(o)
  /\ payment' = [payment EXCEPT ![o] = ref]
  /\ status' = [i \in Items |->
       IF i \notin ItemsOf(o) THEN status[i]
       ELSE IF i[2] \in TelegramPlans THEN "AWAITING_INPUT" ELSE "QUEUED"]
  /\ events' = [i \in Items |->
       IF i \notin ItemsOf(o) THEN events[i]
       ELSE LET paid == Log(i, "PENDING_PAYMENT", "QUEUED", "operator")
            IN IF i[2] \in TelegramPlans
               THEN Append(paid, [from |-> "QUEUED", to |-> "AWAITING_INPUT", by |-> "operator"])
               ELSE paid]
  /\ UNCHANGED <<catalogueVars, owner, checkout, codeOf, overdue, cancelled, released,
                 debited, reason, processVars, supply>>

-----------------------------------------------------------------------------
(* The panel: stock counts and discount codes *)

\* PlanForm signs the stock it shows into the page.
OpenStockForm(p) ==
  /\ stockForm[p] = <<>>
  /\ stockForm' = [stockForm EXCEPT ![p] = <<stock[p]>>]
  /\ UNCHANGED <<catalogueVars, orderVars, itemVars, placing, sweep, supply>>

\* What the operator means by typing n where the page shows v: so many units
\* more or fewer, or a first count of the unclaimed units.
SupplyAfterEdit(p, v, n) ==
  IF n = None THEN 0
  ELSE IF v = None THEN n + Cardinality(Held(p))
  ELSE supply[p] + (n - v)

\* PlanForm.clean under the product and plan locks: an untouched box keeps the
\* current count, a changed one is refused if the count moved meanwhile.
SaveStockForm(p, n) ==
  /\ stockForm[p] # <<>>
  /\ stockForm' = [stockForm EXCEPT ![p] = <<>>]
  /\ LET v == stockForm[p][1]
     IN IF n = v THEN UNCHANGED <<stock, supply>>
        ELSE /\ stock[p] = v
             /\ stock' = [stock EXCEPT ![p] = n]
             /\ supply' = [supply EXCEPT ![p] = SupplyAfterEdit(p, v, n)]
  /\ UNCHANGED <<code, used, orderVars, itemVars, placing, sweep>>

\* The page is closed, or was refused and is opened again.
DropStockForm(p) ==
  /\ stockForm[p] # <<>>
  /\ stockForm' = [stockForm EXCEPT ![p] = <<>>]
  /\ UNCHANGED <<catalogueVars, orderVars, itemVars, placing, sweep, supply>>

\* DiscountAdmin.save_model re-reads used_count under the row's lock, so an
\* edit changes every field of the code but that one.
EditCode(c, row) ==
  /\ row # code[c]
  /\ \A d \in Codes \ {c} : code[d].name # row.name
  /\ code' = [code EXCEPT ![c] = row]
  /\ UNCHANGED <<stock, used, orderVars, itemVars, processVars, supply>>

-----------------------------------------------------------------------------
(* The shop before its first order: a catalogue and its codes, no orders. *)
Init ==
  /\ stock \in [Plans -> StockValues]
  /\ code \in {rows \in [Codes -> CodeRows] :
       \A c, d \in Codes : c # d => rows[c].name # rows[d].name}
  /\ used = [c \in Codes |-> 0]
  /\ owner = [o \in OrderIds |-> None]
  /\ checkout = [o \in OrderIds |-> None]
  /\ codeOf = [o \in OrderIds |-> None]
  /\ overdue = {}
  /\ cancelled = {}
  /\ released = {}
  /\ payment = [o \in OrderIds |-> None]
  /\ status = [i \in Items |-> "absent"]
  /\ debited = {}
  /\ reason = [i \in Items |-> None]
  /\ events = [i \in Items |-> <<>>]
  /\ placing = [u \in Users |-> None]
  /\ sweep = {}
  /\ stockForm = [p \in Plans |-> <<>>]
  /\ supply = [p \in Plans |-> IF stock[p] = None THEN 0 ELSE stock[p]]

Customer ==
  \/ \E u \in Users, name \in Names \cup {None} : BeginPlace(u, name)
  \/ \E u \in Users : RollbackPlace(u)
  \/ \E u \in Users, o \in OrderIds, lines \in Carts, id \in CheckoutIds :
       FinishPlace(u, o, lines, id)
  \/ \E a \in Users, o \in OrderIds, note \in BOOLEAN : Cancel(a, o, note)

Worker ==
  \/ \E S \in SUBSET OrderIds : SweepBegin(S)
  \/ \E o \in OrderIds : SweepVisit(o)
  \/ SweepAbort

Operator ==
  \/ \E o \in OrderIds, ref \in Refs : RecordManualPayment(o, ref)
  \/ \E p \in Plans : OpenStockForm(p)
  \/ \E p \in Plans, n \in StockValues : SaveStockForm(p, n)
  \/ \E p \in Plans : DropStockForm(p)
  \/ \E c \in Codes, row \in CodeRows : EditCode(c, row)

Clock == \E o \in OrderIds : PassDeadline(o)

Next == Customer \/ Worker \/ Operator \/ Clock

Spec == Init /\ [][Next]_vars

-----------------------------------------------------------------------------
(* Safety *)

\* A customer never has two unpaid orders at once, whichever of the sweep, a
\* cancellation and the next checkout settles the overdue one first.
OneUnpaidOrder ==
  \A u \in Users : \A x, y \in Existing(u) : x = y

\* The counted stock and the units unpaid or paid orders hold add up to what
\* the operators put on sale: nothing is sold twice, returned twice or lost,
\* across concurrent checkouts, cancellations, expiries and panel edits.
StockLedger ==
  \A p \in Plans :
    stock[p] # None => stock[p] + Cardinality(Held(p)) = supply[p]

\* A code's used_count is the number of its unreleased redemptions, so no
\* release is ever refused because its code no longer counts the redemption.
CodeLedger ==
  \A c \in Codes : used[c] = Cardinality(Redemptions(c))

\* An order row exists together with at least one of its items or not at all,
\* and nothing is recorded against an order or item that does not exist: no
\* handler leaves half of its rows behind.
RowsComplete ==
  /\ \A o \in OrderIds :
       IF owner[o] = None
       THEN /\ o \notin overdue \cup cancelled \cup released \cup sweep
            /\ codeOf[o] = None /\ payment[o] = None
            /\ ItemsOf(o) = {}
       ELSE ItemsOf(o) # {}
  /\ \A i \in debited : status[i] # "absent"

Settled(o) ==
  /\ payment[o] # None =>
       /\ o \notin cancelled
       /\ \A i \in ItemsOf(o) : status[i] \in {"QUEUED", "AWAITING_INPUT"}
  /\ o \in cancelled => \A i \in ItemsOf(o) : status[i] = "CANCELLED"
  /\ payment[o] = None /\ o \notin cancelled =>
       \A i \in ItemsOf(o) : status[i] = "PENDING_PAYMENT"
  /\ codeOf[o] # None => (o \in released <=> o \in cancelled)

\* Either the confirmation wins or the cancellation does, never both: payment,
\* cancelled_at, redemption and every item of an order tell the same story.
SettledOnce == \A o \in OrderIds : Settled(o)

\* The history of an item is one unbroken chain from its creation to its
\* present status, with no step repeated.
HistoryExplainsStatus ==
  \A i \in Items :
    LET h == events[i]
    IN IF status[i] = "absent" THEN h = <<>>
       ELSE /\ h # <<>>
            /\ h[1].from = None
            /\ h[Len(h)].to = status[i]
            /\ \A n \in 1..Len(h) - 1 : h[n + 1].from = h[n].to
            /\ \A n \in 1..Len(h) : h[n].from # h[n].to

\* A step that redeems a code keeps its limits as the row states them at that
\* moment, under the name the customer typed, whatever the panel did between
\* the lookup by name and the row's lock.
RedemptionWithinTerms ==
  [][\A o \in OrderIds : codeOf[o] # codeOf'[o] =>
       LET c == codeOf'[o]
           row == code[c]
           mine == {x \in OrderIds : /\ codeOf'[x] = c /\ x \notin released'
                                     /\ owner'[x] = owner'[o]}
       IN /\ row.active
          /\ row.name = placing[owner'[o]].name
          /\ row.maxUses # None => used'[c] <= row.maxUses
          /\ row.perUser # None => Cardinality(mine) <= row.perUser]_vars

\* Only a passed deadline ends an item as expired_unpaid, whichever of the
\* sweep and the customer's next checkout does it, the history says the system
\* did, and a reason once written is never overwritten.
ExpiryIsDeserved ==
  [][\A i \in Items : reason[i] # reason'[i] =>
       /\ reason[i] = None
       /\ reason'[i] = "expired_unpaid" =>
            /\ i[1] \in overdue
            /\ events'[i][Len(events'[i])].by = "system"]_vars

-----------------------------------------------------------------------------
(* The abstraction: an order's phase, read from its rows. *)

Phase(o) ==
  IF owner[o] = None THEN "new"
  ELSE IF payment[o] # None THEN "paid"
  ELSE IF o \in cancelled THEN "cancelled"
  ELSE "unpaid"

Promise == INSTANCE Settlement WITH
  buyer <- owner, phase <- [o \in OrderIds |-> Phase(o)]

\* Seen through Phase, every handler, sweep and panel edit is one settlement
\* step or none: the confirmation or the cancellation of an order, never both,
\* and no checkout beside an unpaid order.
SettlesOnce == Promise!Spec

=============================================================================
