------------------------------ MODULE MCOrders ------------------------------
(* Small instances of Orders for TLC, and the prices of small purchases. *)
EXTENDS Purchases, TLC

\* Model values that are interchangeable in every action and property.
OrderSymmetry == Permutations(OrderIds) \cup Permutations(CheckoutIds)

\* Keeps the runs about codes to behaviours in which no stock form is open:
\* the stock and its forms are the subject of the run about stock.
NoStockForms == \A p \in Plans : stockForm[p] = <<>>

-----------------------------------------------------------------------------

\* Two products; the second's plan has a promotion from 1 to before 3.
SmallOffers ==
  [product : {1}, sale : {0, 3, 149}, promo : {None}, starts : {None}, ends : {None}]
    \cup [product : {2}, sale : {150}, promo : {1}, starts : {1}, ends : {3}]

SmallTerms ==
  [active : {TRUE}, kind : {"percent"}, value : {33, 150}, scope : {"all", "selected"},
   products : {{1}, {2}}, minimum : {None, 150}, from : {None, 2}, until : {None}]
  \cup
  [active : {TRUE}, kind : {"fixed"}, value : {1, 400}, scope : {"all", "selected"},
   products : {{1}, {2}}, minimum : {None, 150}, from : {None, 2}, until : {None}]

SmallMoments == 0..3

=============================================================================
