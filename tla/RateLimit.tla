------------------------------ MODULE RateLimit ------------------------------
(***************************************************************************)
(* One budget of apps/core/ratelimit.py and of one subject (an address or  *)
(* an IP), call by call at the cache: hits that overlap in any order while *)
(* the window ends, the cache is lost, a sign-in clears the budget and     *)
(* workers die.  The cache (Redis) is external.                            *)
(***************************************************************************)
EXTENDS Integers, FiniteSets

CONSTANTS
  Hits,   \* calls of hit()
  Times   \* Limit.times

VARIABLES
  count,    \* the key's value; 0 while it is absent
  ends,     \* the key has an expiry
  place,    \* where each hit is
  dead,     \* hits whose worker died
  passed    \* hits let through since the window began (history)

vars == <<count, ends, place, dead, passed>>

-----------------------------------------------------------------------------
(* hit *)

At(h, where) == place[h] = where /\ h \notin dead
Goto(h, where) == place' = [place EXCEPT ![h] = where]

\* A window begins with h: cache.add of an absent key, or cache.set.
Begin(h) ==
  /\ count' = 1
  /\ ends' = TRUE
  /\ passed' = {h}
  /\ Goto(h, "passed")

Add(h) ==
  /\ At(h, "start")
  /\ IF count = 0
     THEN Begin(h)
     ELSE Goto(h, "raising") /\ UNCHANGED <<count, ends, passed>>
  /\ UNCHANGED dead

\* The EXISTS of Django's Redis incr, which raises ValueError without the key.
Exists(h) ==
  /\ At(h, "raising")
  /\ Goto(h, IF count = 0 THEN "restarting" ELSE "incrementing")
  /\ UNCHANGED <<count, ends, dead, passed>>

Restart(h) ==
  /\ At(h, "restarting")
  /\ Begin(h)
  /\ UNCHANGED dead

\* Mutants: a window made by INCR is not recognised; the budget has one more.
NeverLasting(n) == FALSE
WithinTimesByOne(n) == n <= Times + 1

Lasting(n) == n = 1
WithinTimes(n) == n <= Times

\* The INCR.  A key that ended since EXISTS is made again without an expiry.
Increment(h) ==
  LET n == count + 1
      through == WithinTimes(n)
  IN  /\ At(h, "incrementing")
      /\ count' = n
      /\ ends' = (ends /\ count # 0)
      /\ passed' = (IF count = 0 THEN {} ELSE passed) \cup (IF through THEN {h} ELSE {})
      /\ Goto(h, IF Lasting(n) THEN "touching" ELSE IF through THEN "passed" ELSE "refused")
      /\ UNCHANGED dead

Touch(h) ==
  /\ At(h, "touching")
  /\ ends' = (ends \/ count # 0)
  /\ Goto(h, "passed")
  /\ UNCHANGED <<count, dead, passed>>

-----------------------------------------------------------------------------

\* The key is gone: by its expiry, with the whole cache, or by reset() after a
\* successful sign-in.
Gone ==
  /\ count' = 0
  /\ ends' = FALSE
  /\ passed' = {}
  /\ UNCHANGED <<place, dead>>

Expire == count # 0 /\ ends /\ Gone
LoseCache == count # 0 /\ Gone
Reset == count # 0 /\ (\E h \in Hits : At(h, "passed")) /\ Gone

Die(h) ==
  /\ h \notin dead /\ place[h] \notin {"start", "passed", "refused"}
  /\ dead' = dead \cup {h}
  /\ UNCHANGED <<count, ends, place, passed>>

Init ==
  /\ count = 0
  /\ ends = FALSE
  /\ place = [h \in Hits |-> "start"]
  /\ dead = {}
  /\ passed = {}

Next ==
  \/ \E h \in Hits :
       Add(h) \/ Exists(h) \/ Restart(h) \/ Increment(h) \/ Touch(h) \/ Die(h)
  \/ Expire
  \/ LoseCache
  \/ Reset

-----------------------------------------------------------------------------
(* Properties *)

\* A budget never stays spent: its key has an expiry, or a hit is about to give
\* it one, or the worker of that hit died before it could.
EveryWindowEnds ==
  count # 0 /\ ~ends => \E h \in Hits : place[h] = "touching"

\* However hits overlap and keys end under them, one window lets at most Times
\* of them through.
WindowBudget == Cardinality(passed) <= Times

=============================================================================
