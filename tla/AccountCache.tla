---------------------------- MODULE AccountCache ----------------------------
(***************************************************************************)
(* What the cache holds of one address: its one-time codes (Otp) and one   *)
(* budget of attempts (RateLimit).  A guess is limited by both, but they   *)
(* share no key: instead of every combination of their states, each moves  *)
(* while the other stands at its initial state.                            *)
(***************************************************************************)
EXTENDS Otp

CONSTANTS Hits, Times
VARIABLES count, ends, place, dead, passed

\* Every Limit of the code lets at least one call through.
ASSUME BudgetIsPositive == Times \in Nat \ {0}

Budget == INSTANCE RateLimit
budgetVars == <<count, ends, place, dead, passed>>

CacheInit == Init /\ Budget!Init

CacheNext ==
  \/ Next /\ Budget!Init /\ UNCHANGED budgetVars
  \/ Budget!Next /\ Init /\ UNCHANGED vars

CacheSpec == CacheInit /\ [][CacheNext]_<<vars, budgetVars>>

\* A budget's window always has an end (RateLimit), but for a dead worker.
EveryWindowEnds == Budget!EveryWindowEnds

\* One window lets at most Times hits through (RateLimit).
WindowBudget == Budget!WindowBudget

=============================================================================
