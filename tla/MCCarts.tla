------------------------------- MODULE MCCarts -------------------------------
(* A small instance of Carts for TLC. *)
EXTENDS Carts, TLC

TabSymmetry == Permutations(Tabs)
LimitTwo == [p \in Plans |-> 2]

=============================================================================
