---------------------------- MODULE ExpirySweep ----------------------------
(***************************************************************************)
(* Which overdue orders the minute sweep visits, and in what order.        *)
(*                                                                         *)
(* Orders lets a sweep take any batch of overdue unpaid orders.  Here the  *)
(* batch is the first Limit of them by (expiry_last_attempt_at with NULL   *)
(* first, unpaid_expires_at, id); an order that cannot be released is      *)
(* stamped and so falls behind the others.  Some orders cannot be released *)
(* for as long as the panel leaves their plan's stock at the column's      *)
(* limit: they are the blocked ones, and operators block and unblock.      *)
(***************************************************************************)
EXTENDS Integers, Sequences, FiniteSets, SequencesExt

CONSTANTS
  OrderIds,   \* primary keys, compared by the last key of the ordering
  Limit,      \* the batch size, 100 in the code
  MaxTime,    \* deadlines lie in 1..MaxTime
  MaxAborts   \* database failures that may stop a sweep

ASSUME IdsAreNat == OrderIds \subseteq Nat /\ IsFiniteSet(OrderIds)
ASSUME BoundsAreNat == Limit \in Nat \ {0} /\ MaxTime \in Nat /\ MaxAborts \in Nat

VARIABLES
  deadline,   \* Order.unpaid_expires_at
  now,        \* the time, as far as deadlines are concerned
  pending,    \* orders with an unpaid item
  blocked,    \* orders whose release _release would refuse
  attempt,    \* Order.expiry_last_attempt_at; 0 is NULL
  batch,      \* ids the running sweep has still to visit
  at,         \* the time the running sweep started, as an attempt time
  aborts      \* failures so far

vars == <<deadline, now, pending, blocked, attempt, batch, at, aborts>>

Overdue == {o \in pending : deadline[o] <= now}

-----------------------------------------------------------------------------
(* Attempt times matter by their order alone, so they are kept as ranks.   *)

Newest == CHOOSE t \in {attempt[o] : o \in OrderIds} \cup {at} :
            \A o \in OrderIds : attempt[o] <= t /\ at <= t

\* The attempt times f and the sweep time t, renumbered without gaps.
KeepRanks(f, t) ==
  LET times == ({f[o] : o \in OrderIds} \cup {t}) \ {0}
      Rank(x) == Cardinality({y \in times : y <= x})
  IN /\ attempt' = [o \in OrderIds |-> Rank(f[o])]
     /\ at' = Rank(t)

\* Mutant: the oldest deadline first, whatever was tried before.
BeforeByDeadline(x, y) ==
  deadline[x] < deadline[y] \/ (deadline[x] = deadline[y] /\ x < y)

Before(x, y) ==
  \/ attempt[x] < attempt[y]
  \/ attempt[x] = attempt[y] /\ deadline[x] < deadline[y]
  \/ attempt[x] = attempt[y] /\ deadline[x] = deadline[y] /\ x < y

\* The ids expire_unpaid_orders selects among the orders S.
Selection(S) ==
  LET ids == SetToSortSeq(S, Before)
  IN SubSeq(ids, 1, IF Len(ids) < Limit THEN Len(ids) ELSE Limit)

-----------------------------------------------------------------------------
(* The worker *)

SweepBegin ==
  /\ batch = <<>>
  /\ Overdue # {}
  /\ batch' = Selection(Overdue)
  /\ KeepRanks(attempt, Newest + 1)
  /\ UNCHANGED <<deadline, now, pending, blocked, aborts>>

\* One order, one transaction: released, or stamped with the sweep's time when
\* the release is refused or there is nothing left to release.
SweepVisit ==
  /\ batch # <<>>
  /\ LET o == Head(batch)
     IN IF o \in pending \ blocked
        THEN /\ pending' = pending \ {o}
             /\ UNCHANGED <<attempt, at>>
        ELSE /\ KeepRanks([attempt EXCEPT ![o] = at], at)
             /\ UNCHANGED pending
  /\ batch' = Tail(batch)
  /\ UNCHANGED <<deadline, now, blocked, aborts>>

\* A database failure ends the sweep and stamps nothing.
SweepAbort ==
  /\ batch # <<>>
  /\ aborts < MaxAborts
  /\ aborts' = aborts + 1
  /\ batch' = <<>>
  /\ UNCHANGED <<deadline, now, pending, blocked, attempt, at>>

-----------------------------------------------------------------------------
(* Everyone else *)

\* prepare_checkout sweeps the customer's own orders, of which one at most is
\* unpaid, at a time of its own.
CustomerSweep(o) ==
  /\ o \in Overdue
  /\ IF o \in blocked
     THEN /\ KeepRanks([attempt EXCEPT ![o] = Newest + 1], at)
          /\ UNCHANGED pending
     ELSE /\ pending' = pending \ {o}
          /\ UNCHANGED <<attempt, at>>
  /\ UNCHANGED <<deadline, now, blocked, batch, aborts>>

\* A payment before the deadline, or a cancellation at any time.
Settle(o) ==
  /\ o \in pending
  /\ o \in Overdue => o \notin blocked
  /\ pending' = pending \ {o}
  /\ UNCHANGED <<deadline, now, blocked, attempt, batch, at, aborts>>

\* The panel raises a plan's stock to where the order's units no longer fit,
\* or lowers it again.
Block(o) ==
  /\ o \in pending \ blocked
  /\ blocked' = blocked \cup {o}
  /\ UNCHANGED <<deadline, now, pending, attempt, batch, at, aborts>>

Unblock(o) ==
  /\ o \in blocked
  /\ blocked' = blocked \ {o}
  /\ UNCHANGED <<deadline, now, pending, attempt, batch, at, aborts>>

Tick ==
  /\ now < MaxTime
  /\ now' = now + 1
  /\ UNCHANGED <<deadline, pending, blocked, attempt, batch, at, aborts>>

-----------------------------------------------------------------------------

Init ==
  /\ deadline \in [OrderIds -> 1..MaxTime]
  /\ now = 0
  /\ pending = OrderIds
  /\ blocked = {}
  /\ attempt = [o \in OrderIds |-> 0]
  /\ batch = <<>>
  /\ at = 0
  /\ aborts = 0

Next ==
  \/ SweepBegin
  \/ SweepVisit
  \/ SweepAbort
  \/ \E o \in OrderIds : CustomerSweep(o)
  \/ \E o \in OrderIds : Settle(o)
  \/ \E o \in OrderIds : Block(o)
  \/ \E o \in OrderIds : Unblock(o)
  \/ Tick

\* The scheduler starts a sweep every minute and the worker runs it to its end.
Spec == Init /\ [][Next]_vars /\ WF_vars(SweepBegin) /\ WF_vars(SweepVisit)

-----------------------------------------------------------------------------
(* Properties *)

\* One bad order cannot hold up the rest: however many orders are refused at
\* every visit, an overdue order that can be released in the end is released.
EveryOverdueReleased ==
  \A o \in OrderIds :
    <>[](o \notin blocked) => (o \in Overdue ~> o \notin pending)

=============================================================================
