------------------------------ MODULE MailQuota ------------------------------
(***************************************************************************)
(* The mail allowance (apps/core/email_log.py, used by                     *)
(* send_templated_email of apps/core/email.py): every send first inserts   *)
(* its row, then counts all rows, and goes ahead or marks its row blocked. *)
(*                                                                         *)
(* The rows are written on an autocommit connection and nothing is locked, *)
(* so the insert, the count and the updates of concurrent sends interleave *)
(* as separate steps, and any of them may fail.  The counts look back over *)
(* a rolling day and over the current allowance month.                     *)
(***************************************************************************)
EXTENDS Integers, FiniteSets

CONSTANTS
  Sends,         \* calls of send_templated_email, one recipient each
  Protected,     \* those of a security template (PROTECTED)
  Day,           \* units of time in 24 hours
  MonthStarts,   \* the moments an allowance month begins
  DayLimit, DayOther,      \* 200 and 180
  MonthLimit, MonthOther,  \* 1000 and 900
  MaxTime        \* bound on the clock

ASSUME SendsAreFinite == IsFiniteSet(Sends) /\ Protected \subseteq Sends
ASSUME TimesAreNat == Day \in Nat \ {0} /\ MonthStarts \subseteq Int /\ MaxTime \in Nat
ASSUME LimitsKeepAReserve ==
  /\ DayLimit \in Nat /\ DayOther \in Nat /\ DayOther <= DayLimit
  /\ MonthLimit \in Nat /\ MonthOther \in Nat /\ MonthOther <= MonthLimit

VARIABLES
  row,        \* MailAttempt.status of each send; "none" while absent
  created,    \* its created_at, the time the send read when it began
  at,         \* where each send is
  outcome,    \* what the relay answered
  holding,    \* sends that know the id of their row
  unchecked,  \* security sends let through while accounting failed (history)
  now

vars == <<row, created, at, outcome, holding, unchecked, now>>

Places == {"idle", "begun", "inserted", "blocking", "sending", "finishing", "done", "refused"}
Outcomes == {"accepted", "rejected", "uncertain"}

\* Every variable keeps its type.
TypeOK ==
  /\ row \in [Sends -> Outcomes \cup {"none", "in_flight", "blocked"}]
  /\ created \in [Sends -> 0..MaxTime]
  /\ at \in [Sends -> Places]
  /\ outcome \in [Sends -> Outcomes \cup {"none"}]
  /\ holding \subseteq Sends
  /\ unchecked \subseteq Protected
  /\ now \in 0..MaxTime

-----------------------------------------------------------------------------
(* The two windows of _usage, as a send that began at t sees them *)

Today(c, t) == c > t - Day
ThisMonth(c, t) == \A start \in MonthStarts : start <= t => start <= c

\* Mutant: rows in flight are not counted.
CountedWhenDone == {"accepted", "uncertain"}

Counted == {"in_flight", "accepted", "uncertain"}

DayTotal(t) == Cardinality({s \in Sends : row[s] \in Counted /\ Today(created[s], t)})
MonthTotal(t) == Cardinality({s \in Sends : row[s] \in Counted /\ ThisMonth(created[s], t)})

\* Mutant: the reserve is not kept.
WithinAllowanceForAll(s) ==
  DayTotal(created[s]) <= DayLimit /\ MonthTotal(created[s]) <= MonthLimit

WithinAllowance(s) ==
  /\ DayTotal(created[s]) <= (IF s \in Protected THEN DayLimit ELSE DayOther)
  /\ MonthTotal(created[s]) <= (IF s \in Protected THEN MonthLimit ELSE MonthOther)

-----------------------------------------------------------------------------
(* reserve *)

Goto(s, place) == at' = [at EXCEPT ![s] = place]

\* Mutant: every template goes out while accounting fails.
LetAllThroughUnchecked(s) == Goto(s, "sending") /\ unchecked' = unchecked \cup {s}

\* An accounting failure lets a security send through and refuses any other.
LetThroughUnchecked(s) ==
  IF s \in Protected
  THEN Goto(s, "sending") /\ unchecked' = unchecked \cup {s}
  ELSE Goto(s, "refused") /\ UNCHANGED unchecked

Begin(s) ==
  /\ at[s] = "idle"
  /\ created' = [created EXCEPT ![s] = now]
  /\ Goto(s, "begun")
  /\ UNCHANGED <<row, outcome, holding, unchecked, now>>

Insert(s) ==
  /\ at[s] = "begun"
  /\ row' = [row EXCEPT ![s] = "in_flight"]
  /\ holding' = holding \cup {s}
  /\ Goto(s, "inserted")
  /\ UNCHANGED <<created, outcome, unchecked, now>>

\* No connection, or one lost before the id came back.
InsertFails(s) ==
  /\ at[s] = "begun"
  /\ \E written \in {"none", "in_flight"} : row' = [row EXCEPT ![s] = written]
  /\ LetThroughUnchecked(s)
  /\ UNCHANGED <<created, outcome, holding, now>>

Count(s) ==
  /\ at[s] = "inserted"
  /\ Goto(s, IF WithinAllowance(s) THEN "sending" ELSE "blocking")
  /\ UNCHANGED <<row, created, outcome, holding, unchecked, now>>

CountFails(s) ==
  /\ at[s] = "inserted"
  /\ IF s \in Protected
     THEN LetThroughUnchecked(s)
     ELSE Goto(s, "blocking") /\ UNCHANGED unchecked
  /\ UNCHANGED <<row, created, outcome, holding, now>>

Block(s) ==
  /\ at[s] = "blocking"
  /\ row' = [row EXCEPT ![s] = "blocked"]
  /\ Goto(s, "refused")
  /\ UNCHANGED <<created, outcome, holding, unchecked, now>>

\* reserve fails as a whole: the row's id is forgotten, its status unknown.
BlockFails(s) ==
  /\ at[s] = "blocking"
  /\ \E written \in {"in_flight", "blocked"} : row' = [row EXCEPT ![s] = written]
  /\ holding' = holding \ {s}
  /\ LetThroughUnchecked(s)
  /\ UNCHANGED <<created, outcome, now>>

-----------------------------------------------------------------------------
(* The relay, and finish *)

Send(s) ==
  /\ at[s] = "sending"
  /\ \E answer \in Outcomes : outcome' = [outcome EXCEPT ![s] = answer]
  /\ Goto(s, "finishing")
  /\ UNCHANGED <<row, created, holding, unchecked, now>>

Finish(s) ==
  /\ at[s] = "finishing"
  /\ row' = IF s \in holding THEN [row EXCEPT ![s] = outcome[s]] ELSE row
  /\ Goto(s, "done")
  /\ UNCHANGED <<created, outcome, holding, unchecked, now>>

\* The result is lost; the row stays as it was.
FinishFails(s) ==
  /\ at[s] = "finishing"
  /\ Goto(s, "done")
  /\ UNCHANGED <<row, created, outcome, holding, unchecked, now>>

Tick ==
  /\ now < MaxTime
  /\ now' = now + 1
  /\ UNCHANGED <<row, created, at, outcome, holding, unchecked>>

Init ==
  /\ row = [s \in Sends |-> "none"]
  /\ created = [s \in Sends |-> 0]
  /\ at = [s \in Sends |-> "idle"]
  /\ outcome = [s \in Sends |-> "none"]
  /\ holding = {}
  /\ unchecked = {}
  /\ now = 0

Step(s) ==
  \/ Begin(s)
  \/ Insert(s) \/ InsertFails(s)
  \/ Count(s) \/ CountFails(s)
  \/ Block(s) \/ BlockFails(s)
  \/ Send(s)
  \/ Finish(s) \/ FinishFails(s)

Next == (\E s \in Sends : Step(s)) \/ Tick

Spec == Init /\ [][Next]_vars

-----------------------------------------------------------------------------
(* Properties *)

\* Sends that went ahead and that the relay did not definitely reject.
LetThrough ==
  {s \in Sends : at[s] \in {"sending", "finishing", "done"} /\ outcome[s] # "rejected"}

\* Senders that run at the same moment never exceed an allowance between them:
\* beyond it go only the security sends of a failed accounting, one for one.
WithinCeiling ==
  /\ Cardinality({s \in LetThrough : Today(created[s], now)})
       <= DayLimit + Cardinality(unchecked)
  /\ Cardinality({s \in LetThrough : ThisMonth(created[s], now)})
       <= MonthLimit + Cardinality(unchecked)

\* Other mail never eats into the reserve of the security templates, whatever
\* fails and however the sends overlap.
ReserveKept ==
  /\ Cardinality({s \in LetThrough \ Protected : Today(created[s], now)}) <= DayOther
  /\ Cardinality({s \in LetThrough \ Protected : ThisMonth(created[s], now)}) <= MonthOther

=============================================================================
