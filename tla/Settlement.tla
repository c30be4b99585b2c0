----------------------------- MODULE Settlement -----------------------------
(***************************************************************************)
(* What the order services promise a customer, with no locks, items, stock *)
(* or sweeps: an order is unpaid once and then ends exactly once, paid or  *)
(* cancelled, and a new one may only be placed when every earlier unpaid   *)
(* order of the customer ends, at the latest in the same step.  Orders     *)
(* implements this specification.                                          *)
(***************************************************************************)
CONSTANTS Users, OrderIds, None

VARIABLES
  buyer,   \* the customer of each order; None before it is placed
  phase    \* "new", "unpaid", "paid" or "cancelled"

UnpaidOf(u) == {o \in OrderIds : buyer[o] = u /\ phase[o] = "unpaid"}

Init ==
  /\ buyer = [o \in OrderIds |-> None]
  /\ phase = [o \in OrderIds |-> "new"]

Place(u, o) ==
  /\ phase[o] = "new"
  /\ buyer' = [buyer EXCEPT ![o] = u]
  /\ phase' = [x \in OrderIds |->
       IF x = o THEN "unpaid" ELSE IF x \in UnpaidOf(u) THEN "cancelled" ELSE phase[x]]

Pay(o) ==
  /\ phase[o] = "unpaid"
  /\ phase' = [phase EXCEPT ![o] = "paid"]
  /\ UNCHANGED buyer

Cancel(o) ==
  /\ phase[o] = "unpaid"
  /\ phase' = [phase EXCEPT ![o] = "cancelled"]
  /\ UNCHANGED buyer

Next ==
  \/ \E u \in Users, o \in OrderIds : Place(u, o)
  \/ \E o \in OrderIds : Pay(o) \/ Cancel(o)

Spec == Init /\ [][Next]_<<buyer, phase>>

=============================================================================
