--------------------------- MODULE DeliveryClock ---------------------------
(***************************************************************************)
(* delivery_deadline of apps/orders/clock.py: the purchased hours, counted *)
(* from the later of payment and received input, moved on to the support   *)
(* window and capped.  Times are counted in units of a Tehran day of Day   *)
(* units; the code's Day is 24 hours, Opens 10, Closes 22 and Cap 48.      *)
(***************************************************************************)
EXTENDS Integers

CONSTANTS
  Day,     \* units in a day
  Opens,   \* support.OPENS, the first unit of the window [Opens, Closes)
  Closes,  \* support.CLOSES
  Cap,     \* the longest delivery that is sold, and the cap on any deadline
  None     \* SQL NULL

ASSUME WindowWithinDay ==
  Day \in Nat /\ Opens \in Nat /\ Closes \in Nat /\ 0 < Opens /\ Opens < Closes /\ Closes < Day
ASSUME CapIsPositive == Cap \in Nat \ {0}
ASSUME NoneIsNoTime == None \notin Int

HourOf(t) == t % Day
MidnightOf(t) == t - HourOf(t)

Earlier(s, t) == IF s <= t THEN s ELSE t
Later(s, t) == IF s <= t THEN t ELSE s

\* Mutant: the closing hour itself counts as open.
IntoWindowInclusive(t) ==
  IF HourOf(t) < Opens THEN MidnightOf(t) + Opens
  ELSE IF HourOf(t) > Closes THEN MidnightOf(t) + Day + Opens
  ELSE t

\* A deadline before the window waits for it to open, one after it for the
\* next morning.
IntoWindow(t) ==
  IF HourOf(t) < Opens THEN MidnightOf(t) + Opens
  ELSE IF HourOf(t) >= Closes THEN MidnightOf(t) + Day + Opens
  ELSE t

DeadlineFrom(start, hours) == Earlier(IntoWindow(start + hours), start + Cap)

\* Mutant: input that was given already is waited for.
DeliveryDeadlineAlwaysAsked(paid, hours, requires, received) ==
  IF paid = None \/ requires THEN None ELSE DeadlineFrom(paid, hours)

\* No clock runs before payment, nor before required input is received.
DeliveryDeadline(paid, hours, requires, received) ==
  IF paid = None \/ (requires /\ received = None) THEN None
  ELSE DeadlineFrom(IF requires THEN Later(paid, received) ELSE paid, hours)

=============================================================================
