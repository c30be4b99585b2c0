----------------------------- MODULE MCShopping -----------------------------
(* A small instance of Shopping for TLC. *)
EXTENDS Shopping, TLC

LimitTwo == [p \in Plans |-> 2]

\* Tabs are interchangeable, and so are terms: no definition names one.
ShopSymmetry == Permutations(Tabs) \cup Permutations(Prices)

=============================================================================
