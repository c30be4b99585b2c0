------------------------------ MODULE Shopping ------------------------------
(***************************************************************************)
(* From the visitor's cart to the order: Carts composed with the checkout  *)
(* of the account's cart (quote_checkout and checkout of                   *)
(* apps/payments/services.py, the view in apps/payments/views.py).         *)
(*                                                                         *)
(* A checkout page carries a signed quote: a digest of the cart it showed  *)
(* and of the terms, and a checkout id of its own.  The digest covers      *)
(* updated_at, which every edit, merge and checkout of the account's cart  *)
(* moves; stale holds the pages whose digest no longer matches.            *)
(***************************************************************************)
EXTENDS Carts

CONSTANTS
  Pages,    \* checkout pages, each with its checkout id
  Prices    \* the terms a cart may be sold on

VARIABLES
  price,    \* the terms now
  page,     \* what each page shows
  stale,    \* pages whose cart_digest does not match the cart any more
  late,     \* pages older than QUOTE_AGE
  order,    \* the order of each checkout id
  denied    \* pages whose form, sent again as its order was placed with, was
            \* answered with anything but that order (history)

checkoutVars == <<page, stale, late, order, denied>>
vars == <<cartsVars, price, checkoutVars>>

Lines ==
  IF CartsOf(Account) = {} THEN NoItems
  ELSE quantity[CHOOSE c \in CartsOf(Account) : TRUE]

NoPage == [state |-> "none", lines |-> NoItems, price |-> None]
NoOrder == [state |-> "none", lines |-> NoItems, price |-> None]

Placed(g) == order[g].state # "none"
LiveUnpaid == \E g \in Pages : order[g].state = "unpaid"

-----------------------------------------------------------------------------
(* The cart changes under the pages *)

AllStale == stale' = {g \in Pages : page[g].state # "none"}

Elsewhere == UNCHANGED <<price, page, late, order, denied>>

BrowseShop == (\E t \in Tabs : Browse(t)) /\ UNCHANGED stale /\ Elsewhere

SignIn ==
  \E t \in Tabs :
    /\ Login(t)
    /\ IF owner' = owner THEN UNCHANGED stale ELSE AllStale
    /\ Elsewhere

EditAccountCart == AccountEdit /\ AllStale /\ Elsewhere

LeaveOrPurge == (Logout \/ PurgeGuestCarts) /\ UNCHANGED stale /\ Elsewhere

ChangeTerms ==
  /\ price' \in Prices \ {price}
  /\ UNCHANGED <<cartsVars, checkoutVars>>

-----------------------------------------------------------------------------
(* quote_checkout: without a lock, the cart row first, its items after it *)

BeginReview(g) ==
  /\ page[g].state = "none"
  /\ ~LiveUnpaid
  /\ CartsOf(Account) # {}
  /\ page' = [page EXCEPT ![g].state = "reading"]
  /\ UNCHANGED <<cartsVars, price, stale, late, order, denied>>

\* An empty cart has no quote.
FinishReview(g) ==
  /\ page[g].state = "reading"
  /\ Lines # NoItems
  /\ page' = [page EXCEPT ![g] = [state |-> "open", lines |-> Lines, price |-> price]]
  /\ UNCHANGED <<cartsVars, price, stale, late, order, denied>>

\* A quote that is too old is refused before its digest is looked at, so what
\* an unordered page showed, and whether it is stale, matters no more.
Aged(gs) ==
  /\ late' = late \cup gs
  /\ stale' = stale \cup gs
  /\ page' = [g \in Pages |-> IF g \in gs /\ ~Placed(g)
                            THEN [NoPage EXCEPT !.state = "open"] ELSE page[g]]

PassQuoteAge(g) ==
  /\ page[g].state = "open" /\ g \notin late
  /\ Aged({g})
  /\ UNCHANGED <<cartsVars, price, order, denied>>

WaitMonth ==
  /\ Month
  /\ \A g \in Pages : page[g].state # "reading"
  /\ Aged({g \in Pages : page[g].state = "open"})
  /\ UNCHANGED <<price, order, denied>>

-----------------------------------------------------------------------------
(* checkout: one transaction under the account's lock *)

\* What the customer gets: an order, or an error and a new page.  same: the
\* form holds what it held when it was first sent, phone and inputs included.
Answered(g, same, result) ==
  denied' = IF Placed(g) /\ same /\ result # "order" THEN denied \cup {g} ELSE denied

\* Mutant: the answer to a form sent again is looked for after the checks.
ReplayAfterChecks(g) == Placed(g) /\ ~LiveUnpaid

Replayed(g) == Placed(g)

\* replay_checkout: the same form gets its order, another one is refused.
Replay(g, same) ==
  /\ page[g].state = "open" /\ Replayed(g)
  /\ Answered(g, same, IF same THEN "order" ELSE "refused")
  /\ UNCHANGED <<cartsVars, price, page, stale, late, order>>

\* Mutant: the quote is only checked for its terms.
AnyCart(g) == Lines # NoItems

CartAsQuoted(g) == Lines # NoItems /\ g \notin stale

TermsAsQuoted(g) == price = page[g].price

Orderable(g) == g \notin late /\ ~LiveUnpaid /\ CartAsQuoted(g) /\ TermsAsQuoted(g)

RefuseCheckout(g, same) ==
  /\ page[g].state = "open" /\ ~Replayed(g)
  /\ ~Orderable(g)
  /\ Answered(g, same, "refused")
  /\ UNCHANGED <<cartsVars, price, page, stale, late, order>>

\* Stock, the discount code or the customer's input refuse the order, or the quote
\* has become too old when it is placed.
RefuseOrder(g, same) ==
  /\ page[g].state = "open" /\ ~Replayed(g)
  /\ Answered(g, same, "refused")
  /\ UNCHANGED <<cartsVars, price, page, stale, late, order>>

\* place_order, then the cart is emptied and touched.
PlaceOrder(g) ==
  /\ page[g].state = "open" /\ ~Replayed(g)
  /\ Orderable(g)
  /\ order' = [order EXCEPT ![g] =
       [state |-> "unpaid", lines |-> Lines, price |-> price]]
  /\ quantity' = [c \in CartIds |-> IF owner[c] = Account THEN NoItems ELSE quantity[c]]
  /\ AllStale
  /\ Answered(g, TRUE, "order")
  /\ UNCHANGED <<sessionVars, carts, owner, old, cut, tabVars, price, page, late>>

\* Paid, cancelled or expired.
Settle(g) ==
  /\ order[g].state = "unpaid"
  /\ order' = [order EXCEPT ![g].state = "settled"]
  /\ UNCHANGED <<cartsVars, price, page, stale, late, denied>>

-----------------------------------------------------------------------------

Init ==
  /\ CartsInit
  /\ price \in Prices
  /\ page = [g \in Pages |-> NoPage]
  /\ stale = {} /\ late = {}
  /\ order = [g \in Pages |-> NoOrder]
  /\ denied = {}

Checkout ==
  \E g \in Pages :
    \/ BeginReview(g) \/ FinishReview(g) \/ PassQuoteAge(g)
    \/ \E same \in BOOLEAN : \/ Replay(g, same)
                             \/ RefuseCheckout(g, same)
                             \/ RefuseOrder(g, same)
    \/ PlaceOrder(g)
    \/ Settle(g)

Next ==
  \/ BrowseShop
  \/ SignIn
  \/ EditAccountCart
  \/ LeaveOrPurge
  \/ WaitMonth
  \/ ChangeTerms
  \/ Checkout

Spec == Init /\ [][Next]_vars

-----------------------------------------------------------------------------
(* Properties *)

\* An order holds exactly the items and the terms the customer saw on the page
\* it was placed from, whatever other tabs, devices, sign-ins and the panel
\* did to the cart and to the prices while the page was read and stood open.
OrderedAsReviewed ==
  \A g \in Pages : Placed(g) =>
    order[g].lines = page[g].lines /\ order[g].price = page[g].price

\* Sending a form again after its order was placed answers with that order,
\* also when it has since been settled, the page has aged or the cart was
\* filled again, and never with an error or a second order.
RetryAnswered == denied = {}

=============================================================================
