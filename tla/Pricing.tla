------------------------------- MODULE Pricing -------------------------------
(***************************************************************************)
(* What a purchase costs: effective_price of apps/catalog/pricing.py, and  *)
(* _price and _discount of apps/orders/services.py.  Money is whole toman. *)
(* Whether a code has uses left is in Orders; here it has.                 *)
(***************************************************************************)
EXTENDS Integers, Functions

CONSTANTS
  None,       \* SQL NULL
  MaxAmount   \* MAX_AMOUNT

\* A nullable bound of a half-open window.
OpenAt(from, until, at) ==
  (from = None \/ at >= from) /\ (until = None \/ at < until)

\* A plan is [product, sale, promo, starts, ends].
EffectivePrice(plan, at) ==
  IF plan.promo # None /\ OpenAt(plan.starts, plan.ends, at) THEN plan.promo ELSE plan.sale

\* What quantity, a function from some plans to units, comes to.
Amount(quantity, plans, at) ==
  SumFunctionOnSet([p \in plans |-> EffectivePrice(p, at) * quantity[p]], plans)

Subtotal(quantity, at) == Amount(quantity, DOMAIN quantity, at)

\* A code is [active, kind, value, scope, products, minimum, from, until].
\* Mutant: a code for some products takes its discount off all of them.
CoveredAll(code, quantity) == DOMAIN quantity

Covered(code, quantity) ==
  {p \in DOMAIN quantity : code.scope = "all" \/ p.product \in code.products}

Eligible(code, quantity, at) == Amount(quantity, Covered(code, quantity), at)

\* ROUND_HALF_UP of n / d.
HalfUp(n, d) == (2 * n + d) \div (2 * d)

\* No discount is larger than what it is taken off.
Discount(code, quantity, at) ==
  LET eligible == Eligible(code, quantity, at)
      amount == IF code.kind = "percent" THEN HalfUp(eligible * code.value, 100) ELSE code.value
  IN  IF amount <= eligible THEN amount ELSE eligible

Total(code, quantity, at) ==
  Subtotal(quantity, at) - (IF code = None THEN 0 ELSE Discount(code, quantity, at))

Applies(code, quantity, at) ==
  /\ code.active
  /\ OpenAt(code.from, code.until, at)
  /\ code.minimum = None \/ Subtotal(quantity, at) >= code.minimum
  /\ Eligible(code, quantity, at) > 0

\* The code may be redeemed for this purchase, and it is neither too large nor free.
Sold(code, quantity, at) ==
  /\ Subtotal(quantity, at) <= MaxAmount
  /\ code # None => Applies(code, quantity, at)
  /\ Total(code, quantity, at) # 0

=============================================================================
