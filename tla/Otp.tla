--------------------------------- MODULE Otp ---------------------------------
(***************************************************************************)
(* The one-time codes of one address (apps/accounts/otp.py), step by step  *)
(* at the cache: sends that store a code, and requests that verify a guess *)
(* while other sends and requests run, codes expire and the cache is lost. *)
(*                                                                         *)
(* Every cache call is a step of its own; nothing else serialises two      *)
(* requests.  The cache (Redis) is external: a key is lost when its code's *)
(* life is over, each key on its own, or with the whole cache.             *)
(***************************************************************************)
EXTENDS Integers, FiniteSets

CONSTANTS
  Issuances,    \* the random names of the codes that are sent
  Requests,     \* verify() calls
  MaxAttempts,  \* MAX_ATTEMPTS
  None          \* an absent key

ASSUME AttemptsAreCounted == MaxAttempts \in Nat \ {0}
ASSUME NoneIsNoIssuance == None \notin Issuances
ASSUME RequestsAreFinite == IsFiniteSet(Requests)

VARIABLES
  pointer,   \* the key of the address: its live issuance
  records,   \* issuances whose record is in the cache
  tries,     \* attempt counter of each issuance; 0 while absent
  stage,     \* how far the send of each issuance has come
  expired,   \* issuances whose expires_at has passed
  lost,      \* issuances sent before the cache was lost (history)
  at,        \* where each request is
  issuance,  \* the issuance a request found
  attempt,   \* the attempt number a request was given
  compared   \* requests that compared their guess in time (history)

cacheVars == <<pointer, records, tries>>
requestVars == <<at, issuance, attempt, compared>>
vars == <<cacheVars, stage, expired, lost, requestVars>>

Places == {"start", "found", "counting", "raising", "counted",
           "burning", "spending", "accepted", "refused"}

\* Every variable keeps its type.
TypeOK ==
  /\ pointer \in Issuances \cup {None}
  /\ records \subseteq Issuances
  /\ tries \in [Issuances -> Nat]
  /\ stage \in [Issuances -> {"new", "recorded", "stored"}]
  /\ expired \subseteq Issuances
  /\ lost \subseteq Issuances
  /\ at \in [Requests -> Places]
  /\ issuance \in [Requests -> Issuances \cup {None}]
  /\ attempt \in [Requests -> Nat]
  /\ compared \subseteq Requests

-----------------------------------------------------------------------------
(* _store, once the relay has accepted the mail: the record, then the key. *)

StoreRecord(i) ==
  /\ stage[i] = "new"
  /\ stage' = [stage EXCEPT ![i] = "recorded"]
  /\ records' = records \cup {i}
  /\ UNCHANGED <<pointer, tries, expired, lost, requestVars>>

StorePointer(i) ==
  /\ stage[i] = "recorded"
  /\ stage' = [stage EXCEPT ![i] = "stored"]
  /\ pointer' = i
  /\ UNCHANGED <<records, tries, expired, lost, requestVars>>

-----------------------------------------------------------------------------
(* verify *)

Goto(r, place) == at' = [at EXCEPT ![r] = place]

ReadPointer(r) ==
  /\ at[r] = "start"
  /\ issuance' = [issuance EXCEPT ![r] = pointer]
  /\ Goto(r, IF pointer = None THEN "refused" ELSE "found")
  /\ UNCHANGED <<cacheVars, stage, expired, lost, attempt, compared>>

\* The record, and the deadline that travels with it.
ReadRecord(r) ==
  /\ at[r] = "found"
  /\ Goto(r, IF issuance[r] \in records \ expired THEN "counting" ELSE "refused")
  /\ UNCHANGED <<cacheVars, stage, expired, lost, issuance, attempt, compared>>

\* cache.add creates the counter; a counter that is there must be raised.
AddCounter(r) ==
  /\ at[r] = "counting"
  /\ IF tries[issuance[r]] = 0
     THEN /\ tries' = [tries EXCEPT ![issuance[r]] = 1]
          /\ attempt' = [attempt EXCEPT ![r] = 1]
          /\ Goto(r, "counted")
     ELSE /\ Goto(r, "raising")
          /\ UNCHANGED <<tries, attempt>>
  /\ UNCHANGED <<pointer, records, stage, expired, lost, issuance, compared>>

\* cache.incr.  A counter that vanished since, before its EXISTS or between
\* EXISTS and INCR (which makes it again), counts as a spent budget.
RaiseCounter(r) ==
  LET i == issuance[r]
  IN /\ at[r] = "raising"
     /\ IF tries[i] = 0
        THEN /\ \E n \in {0, 1} : tries' = [tries EXCEPT ![i] = n]
             /\ attempt' = [attempt EXCEPT ![r] = MaxAttempts + 1]
        ELSE /\ tries' = [tries EXCEPT ![i] = @ + 1]
             /\ attempt' = [attempt EXCEPT ![r] = tries[i] + 1]
     /\ Goto(r, "counted")
     /\ UNCHANGED <<pointer, records, stage, expired, lost, issuance, compared>>

\* Mutants: one try too many; every wrong guess deletes the code.
WithinBudgetByOne(n) == n <= MaxAttempts + 1
LastTryAlways(n) == n >= 1

WithinBudget(n) == n <= MaxAttempts
LastTry(n) == n = MaxAttempts

\* The budget and the key are looked at again, then the guess is compared
\* with the record read before; only now does it matter if it is right.
Compare(r, right) ==
  LET i == issuance[r]
      open == WithinBudget(attempt[r]) /\ pointer = i
  IN /\ at[r] = "counted"
     /\ Goto(r, IF ~open THEN "refused"
                ELSE IF right THEN "spending"
                ELSE IF LastTry(attempt[r]) THEN "burning" ELSE "refused")
     /\ compared' = IF open /\ i \notin expired THEN compared \cup {r} ELSE compared
     /\ UNCHANGED <<cacheVars, stage, expired, lost, issuance, attempt>>

Burn(r) ==
  /\ at[r] = "burning"
  /\ records' = records \ {issuance[r]}
  /\ Goto(r, "refused")
  /\ UNCHANGED <<pointer, tries, stage, expired, lost, issuance, attempt, compared>>

\* Mutant: a right guess is accepted whoever deleted the record.
SpentAnyway(i) == TRUE

Spent(i) == i \in records

\* A right guess is accepted if it is this request that deletes the record.
Spend(r) ==
  /\ at[r] = "spending"
  /\ Goto(r, IF Spent(issuance[r]) THEN "accepted" ELSE "refused")
  /\ records' = records \ {issuance[r]}
  /\ UNCHANGED <<pointer, tries, stage, expired, lost, issuance, attempt, compared>>

-----------------------------------------------------------------------------
(* The cache and the clock *)

PassDeadline(i) ==
  /\ stage[i] # "new" /\ i \notin expired
  /\ expired' = expired \cup {i}
  /\ UNCHANGED <<cacheVars, stage, lost, requestVars>>

\* The keys of a code time out by themselves, in any order, after its deadline.
DropRecord(i) ==
  /\ i \in expired \cap records
  /\ records' = records \ {i}
  /\ UNCHANGED <<pointer, tries, stage, expired, lost, requestVars>>

DropCounter(i) ==
  /\ i \in expired /\ tries[i] # 0
  /\ tries' = [tries EXCEPT ![i] = 0]
  /\ UNCHANGED <<pointer, records, stage, expired, lost, requestVars>>

DropPointer ==
  /\ pointer \in expired
  /\ pointer' = None
  /\ UNCHANGED <<records, tries, stage, expired, lost, requestVars>>

LoseCache ==
  /\ pointer' = None
  /\ records' = {}
  /\ tries' = [i \in Issuances |-> 0]
  /\ lost' = {i \in Issuances : stage[i] # "new"}
  /\ UNCHANGED <<stage, expired, requestVars>>

-----------------------------------------------------------------------------

Init ==
  /\ pointer = None
  /\ records = {}
  /\ tries = [i \in Issuances |-> 0]
  /\ stage = [i \in Issuances |-> "new"]
  /\ expired = {}
  /\ lost = {}
  /\ at = [r \in Requests |-> "start"]
  /\ issuance = [r \in Requests |-> None]
  /\ attempt = [r \in Requests |-> 0]
  /\ compared = {}

Send == \E i \in Issuances : StoreRecord(i) \/ StorePointer(i)

Verify ==
  \E r \in Requests :
    \/ ReadPointer(r)
    \/ ReadRecord(r)
    \/ AddCounter(r)
    \/ RaiseCounter(r)
    \/ \E right \in BOOLEAN : Compare(r, right)
    \/ Burn(r)
    \/ Spend(r)

Cache ==
  \/ \E i \in Issuances : PassDeadline(i) \/ DropRecord(i) \/ DropCounter(i)
  \/ DropPointer
  \/ LoseCache

Next == Send \/ Verify \/ Cache

Spec == Init /\ [][Next]_vars

-----------------------------------------------------------------------------
(* Properties *)

\* A code signs in once: of all the requests that carry it at the same time,
\* at most one is accepted, also when its keys expire under them.
SingleUse ==
  \A r, s \in Requests :
    at[r] = "accepted" /\ at[s] = "accepted" /\ issuance[r] = issuance[s] => r = s

\* At most MaxAttempts guesses are compared with a code before its deadline,
\* however the requests that make them overlap.
GuessBudget ==
  \A i \in Issuances : Cardinality({r \in compared : issuance[r] = i}) <= MaxAttempts

\* Until its deadline a code is only ever lost by being used or by its own
\* spent budget: no request that is late with an older code, and no second
\* send, takes the record of the code in force.
KeptUntilSpent ==
  \A i \in Issuances :
    stage[i] # "new" /\ i \notin records \cup expired \cup lost =>
      \/ \E r \in Requests : at[r] = "accepted" /\ issuance[r] = i
      \/ tries[i] >= MaxAttempts

=============================================================================
