------------------------------ MODULE Purchases ------------------------------
(***************************************************************************)
(* What the orders of Orders may cost: Pricing, for the plans on sale and  *)
(* the discount codes of a shop.                                           *)
(***************************************************************************)
EXTENDS Orders

CONSTANTS
  Offers,      \* plans as they are priced
  Terms,       \* discount codes as they are redeemed
  MaxUnits,    \* bound on the units of a plan in one purchase
  Moments,     \* times of purchase
  MaxAmount    \* MAX_AMOUNT

Shop == INSTANCE Pricing

\* plan_prices_not_negative, plan_promo_price_below_sale_price
ASSUME OffersArePriced ==
  /\ IsFiniteSet(Offers)
  /\ \A p \in Offers : p.sale \in Nat /\ (p.promo = None \/ p.promo \in Nat)

\* discount_value_positive, discount_scope_valid
ASSUME TermsAreValid ==
  \A c \in Terms : c # None /\ c.value \in Nat \ {0} /\ c.scope \in {"all", "selected"}

ASSUME MaxUnitsIsNat == MaxUnits \in Nat

\* What may be bought at once: some plans and, of each, some units.
Purchase == UNION {[plans -> 1..MaxUnits] : plans \in SUBSET Offers}

\* The units a code does not cover.
Uncovered(terms, bought) ==
  {p \in DOMAIN bought :
     terms = None \/ (terms.scope = "selected" /\ p.product \notin terms.products)}

\* What a code does not cover is paid in full, what is sold is never free nor
\* dearer than without a code, and one more unit never makes it cheaper.
Fair(terms, bought, at) ==
  /\ Shop!Total(terms, bought, at) >= Shop!Amount(bought, Uncovered(terms, bought), at)
  /\ Shop!Total(terms, bought, at) > 0
  /\ Shop!Total(terms, bought, at) <= Shop!Subtotal(bought, at)
  /\ \A p \in DOMAIN bought :
       Shop!Total(terms, bought, at) <= Shop!Total(terms, [bought EXCEPT ![p] = @ + 1], at)

FairTotals ==
  \A bought \in Purchase, terms \in {None} \cup Terms, at \in Moments :
    Shop!Sold(terms, bought, at) => Fair(terms, bought, at)

\* The prices orders/services.py charges are fair, also where roundings, caps
\* and the scope of a code meet.  They depend on no variable, so they are
\* evaluated in the initial state alone.
PricesAreFair == Init => FairTotals

=============================================================================
