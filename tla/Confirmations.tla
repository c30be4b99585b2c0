---------------------------- MODULE Confirmations ----------------------------
(***************************************************************************)
(* Purchase confirmations (apps/notifications/services.py): every minute a *)
(* worker freezes a row for each new order and sends the rows that are     *)
(* due, one transaction per row, in which the relay is called.             *)
(*                                                                         *)
(* That transaction holds the single ConfirmationSweep row from the choice *)
(* of a row to the commit of its result.  Claiming a row, the relay's      *)
(* answer and the commit are separate steps, and the worker may be lost    *)
(* between any two.  Delays are kept as the time that is left of them, so  *)
(* there is no clock.                                                      *)
(***************************************************************************)
EXTENDS Integers, Sequences, FiniteSets

CONSTANTS
  Orders,      \* primary keys of orders with a placement email
  Unreadable,  \* orders whose message cannot be rendered
  Workers,     \* runs of confirm_new_orders that may overlap
  Delays,      \* _DELAYS, the time before each retry
  MaxDelay,    \* the longest of them
  QuotaWait,   \* the pause after a refusal for the quota
  MaxFaults,   \* bound on lost workers and failed database calls
  None         \* SQL NULL

ASSUME KeysAreNat == Orders \subseteq Nat /\ Unreadable \subseteq Orders
ASSUME DelaysArePositive == Delays \in Seq(Nat \ {0}) /\ Delays # <<>>
ASSUME MaxDelayIsLongest == MaxDelay \in Nat /\ \A n \in 1..Len(Delays) : Delays[n] <= MaxDelay
ASSUME BoundsAreNat == QuotaWait \in Nat \ {0} /\ MaxFaults \in Nat
ASSUME NullIsNoValue == None \notin Nat

VARIABLES
  placed,    \* committed orders
  status,    \* Notification.status; "absent" while there is no row
  attempts,  \* Notification.attempts
  due,       \* what is left until next_attempt_at
  wait,      \* what is left until ConfirmationSweep.quota_wait_until
  at,        \* where each worker is
  found,     \* orders a worker's discovery has still to visit
  job,       \* the row a worker has claimed
  answer,    \* what the relay answered
  taken,     \* mails the relay took for each order (history)
  excused,   \* those of them its row could not learn of (history)
  since,     \* time since the last attempt was recorded (history)
  faults

rowVars == <<status, attempts, due, wait>>
workerVars == <<at, found, job, answer>>
historyVars == <<taken, excused, since>>
vars == <<placed, rowVars, workerVars, historyVars, faults>>

MaxAttempts == Len(Delays) + 1
Later(s, t) == IF s <= t THEN t ELSE s
Places == {"idle", "finding", "ready", "sending", "answered"}
\* "lost" is an error after the relay has taken the mail all the same.
Answers == {"accepted", "lost", "refused", "quota"}
Takes(reply) == reply \in {"accepted", "lost"}

\* Every variable keeps its type, and a row that waits has an attempt left.
TypeOK ==
  /\ placed \subseteq Orders
  /\ status \in [Orders -> {"absent", "pending", "sent", "failed"}]
  /\ attempts \in [Orders -> 0..MaxAttempts]
  /\ due \in [Orders -> 0..Later(MaxDelay, QuotaWait) \cup {None}]
  /\ wait \in 0..QuotaWait
  /\ at \in [Workers -> Places]
  /\ found \in [Workers -> SUBSET Orders]
  /\ job \in [Workers -> Orders \cup {None}]
  /\ answer \in [Workers -> Answers \cup {None}]
  /\ taken \in [Orders -> Nat] /\ excused \in [Orders -> Nat]
  /\ since \in [Orders -> 0..MaxDelay]
  /\ faults \in 0..MaxFaults
  /\ \A o \in Orders : status[o] = "pending" => due[o] # None /\ attempts[o] < MaxAttempts

-----------------------------------------------------------------------------

Place(o) ==
  /\ o \notin placed
  /\ placed' = placed \cup {o}
  /\ UNCHANGED <<rowVars, workerVars, historyVars, faults>>

Goto(w, place) == at' = [at EXCEPT ![w] = place]
InSend(w) == at[w] \in {"sending", "answered"}

(* discover_confirmations *)

Unconfirmed == {o \in placed : status[o] = "absent"}

Start(w) ==
  /\ at[w] = "idle"
  /\ Goto(w, "finding")
  /\ found' = [found EXCEPT ![w] = Unconfirmed]
  /\ UNCHANGED <<placed, rowVars, job, answer, historyVars, faults>>

\* The next order of the discovery.
NextFound(w, o) == at[w] = "finding" /\ o \in found[w] /\ \A x \in found[w] : o <= x

\* get_or_create: another worker may have created the row meanwhile.
Discover(w, o) ==
  /\ NextFound(w, o)
  /\ o \notin Unreadable
  /\ found' = [found EXCEPT ![w] = @ \ {o}]
  /\ IF status[o] = "absent"
     THEN /\ status' = [status EXCEPT ![o] = "pending"]
          /\ due' = [due EXCEPT ![o] = 0]
     ELSE UNCHANGED <<status, due>>
  /\ UNCHANGED <<placed, attempts, wait, at, job, answer, historyVars, faults>>

\* Mutant: one exception ends the discovery.
AfterFailedDiscoveryNone(w, o) == {}

AfterFailedDiscovery(w, o) == found[w] \ {o}

DiscoveryFails(w, o) ==
  /\ NextFound(w, o)
  /\ \/ o \in Unreadable /\ UNCHANGED faults
     \/ o \notin Unreadable /\ faults < MaxFaults /\ faults' = faults + 1
  /\ found' = [found EXCEPT ![w] = AfterFailedDiscovery(w, o)]
  /\ UNCHANGED <<placed, rowVars, at, job, answer, historyVars>>

Discovered(w) ==
  /\ at[w] = "finding" /\ found[w] = {}
  /\ Goto(w, "ready")
  /\ UNCHANGED <<placed, rowVars, found, job, answer, historyVars, faults>>

-----------------------------------------------------------------------------
(* send_due_confirmations *)

\* Mutant: the shared row is read without its lock.
SweepUnlockedAlways == TRUE

SweepUnlocked == \A w \in Workers : ~InSend(w)

Due == {o \in Orders : status[o] = "pending" /\ due[o] = 0}
RowUnlocked(o) == \A w \in Workers : InSend(w) => job[w] # o     \* skip_locked

\* Rows that are due are claimed in any order, which includes the code's.
Claim(w, o) ==
  /\ at[w] = "ready" /\ SweepUnlocked
  /\ wait = 0
  /\ o \in Due /\ RowUnlocked(o)
  /\ Goto(w, "sending")
  /\ job' = [job EXCEPT ![w] = o]
  /\ UNCHANGED <<placed, rowVars, found, answer, historyVars, faults>>

Return(w) ==
  /\ at[w] = "ready" /\ SweepUnlocked
  /\ wait > 0 \/ \A o \in Due : ~RowUnlocked(o)
  /\ Goto(w, "idle")
  /\ UNCHANGED <<placed, rowVars, found, job, answer, historyVars, faults>>

Answer(w, reply) ==
  /\ at[w] = "sending"
  /\ Goto(w, "answered")
  /\ answer' = [answer EXCEPT ![w] = reply]
  /\ taken' = IF Takes(reply) THEN [taken EXCEPT ![job[w]] = @ + 1] ELSE taken
  /\ UNCHANGED <<placed, rowVars, found, job, excused, since, faults>>

\* Mutants: a success is taken for one more failure; a refusal for the quota
\* uses up an attempt; it moves every row, the sooner and the later ones.
StatusAfterAny(n, reply) == IF n = MaxAttempts THEN "failed" ELSE "pending"
SpentAlways(reply) == 1
DeferredAll == {o \in Orders : status[o] = "pending"}

StatusAfter(n, reply) ==
  IF reply = "accepted" THEN "sent"
  ELSE IF n = MaxAttempts THEN "failed" ELSE "pending"

Spent(reply) == IF reply = "quota" THEN 0 ELSE 1
Deferred == Due

\* The worker lets go of its row.
Release(w, place) ==
  /\ Goto(w, place)
  /\ job' = [job EXCEPT ![w] = None]
  /\ answer' = [answer EXCEPT ![w] = None]

\* The result commits: sent, failed for good, or the next step of the ladder.
Record(w) ==
  LET o == job[w]
      n == attempts[o] + Spent(answer[w])
      s == StatusAfter(n, answer[w])
  IN /\ at[w] = "answered" /\ answer[w] # "quota"
     /\ status' = [status EXCEPT ![o] = s]
     /\ attempts' = [attempts EXCEPT ![o] = n]
     /\ due' = [due EXCEPT ![o] = IF s = "pending" THEN Delays[n] ELSE None]
     /\ since' = [since EXCEPT ![o] = 0]
     /\ excused' = IF answer[w] = "lost" THEN [excused EXCEPT ![o] = @ + 1] ELSE excused
     /\ Release(w, "ready")
     /\ UNCHANGED <<placed, wait, found, taken, faults>>

\* The quota refuses: every row that is due waits with the sweep itself.
Defer(w) ==
  /\ at[w] = "answered" /\ answer[w] = "quota"
  /\ wait' = QuotaWait
  /\ due' = [o \in Orders |-> IF o \in Deferred THEN QuotaWait ELSE due[o]]
  /\ attempts' = [attempts EXCEPT ![job[w]] = @ + Spent("quota")]
  /\ Release(w, "idle")
  /\ UNCHANGED <<placed, status, found, historyVars, faults>>

\* The worker is lost, or its transaction fails: the row stays as it was, and
\* a mail that the relay took goes unrecorded.
Crash(w) ==
  /\ at[w] # "idle"
  /\ faults < MaxFaults
  /\ faults' = faults + 1
  /\ excused' = IF at[w] = "answered" /\ Takes(answer[w])
                THEN [excused EXCEPT ![job[w]] = @ + 1] ELSE excused
  /\ found' = [found EXCEPT ![w] = {}]
  /\ Release(w, "idle")
  /\ UNCHANGED <<placed, rowVars, taken, since>>

Less(left) == IF left = None \/ left = 0 THEN left ELSE left - 1

Tick ==
  /\ due' = [o \in Orders |-> Less(due[o])]
  /\ wait' = Less(wait)
  /\ since' = [o \in Orders |-> IF since[o] < MaxDelay THEN since[o] + 1 ELSE since[o]]
  /\ UNCHANGED <<placed, status, attempts, workerVars, taken, excused, faults>>

-----------------------------------------------------------------------------

Init ==
  /\ placed = {}
  /\ status = [o \in Orders |-> "absent"]
  /\ attempts = [o \in Orders |-> 0]
  /\ due = [o \in Orders |-> None]
  /\ wait = 0
  /\ at = [w \in Workers |-> "idle"]
  /\ found = [w \in Workers |-> {}]
  /\ job = [w \in Workers |-> None]
  /\ answer = [w \in Workers |-> None]
  /\ taken = [o \in Orders |-> 0]
  /\ excused = [o \in Orders |-> 0]
  /\ since = [o \in Orders |-> 0]
  /\ faults = 0

Run(w) ==
  \/ Start(w)
  \/ \E o \in Orders : Discover(w, o)
  \/ \E o \in Orders : DiscoveryFails(w, o)
  \/ Discovered(w)
  \/ \E o \in Orders : Claim(w, o)
  \/ Return(w)
  \/ \E reply \in Answers : Answer(w, reply)
  \/ Record(w)
  \/ Defer(w)

Next ==
  \/ \E o \in Orders : Place(o)
  \/ \E w \in Workers : Run(w)
  \/ \E w \in Workers : Crash(w)
  \/ Tick

\* The scheduler and the worker keep running, and the quota is not used up for
\* ever: of infinitely many sends some reach the relay.
ReachRelay == \E w \in Workers, reply \in Answers \ {"quota"} : Answer(w, reply)

Spec ==
  /\ Init /\ [][Next]_vars
  /\ WF_vars(Tick)
  /\ \A w \in Workers : WF_vars(Run(w))
  /\ SF_vars(ReachRelay)

-----------------------------------------------------------------------------
(* Properties *)

\* A customer is told twice only when the relay took a mail that its row could
\* not learn of, and a row says "sent" only of a mail the relay took: no crash,
\* overlap of workers or pause sends a recorded mail again.
ConfirmedOnce ==
  \A o \in Orders :
    /\ taken[o] <= excused[o] + 1
    /\ status[o] = "sent" => taken[o] = excused[o] + 1

\* A retry never comes before its step of the ladder, also when the quota
\* paused it, or another row, in between.
LadderKept ==
  \A w \in Workers :
    at[w] = "sending" /\ attempts[job[w]] > 0 => since[job[w]] >= Delays[attempts[job[w]]]

\* A refusal for the quota pauses every worker: none is sending until it ends.
QuotaPausesAll == wait > 0 => \A w \in Workers : ~InSend(w)

\* Every order whose message can be rendered is confirmed or given up for good
\* after its last attempt, whatever happens to the other orders.
EveryOrderConfirmed ==
  \A o \in Orders \ Unreadable : o \in placed ~> status[o] \in {"sent", "failed"}

\* The outbox keeps the promise of MailPromise: a row that was sent or given up
\* is final, no worker that overlaps, crashes or waits for the quota mails it
\* again, and one is given up at its last attempt, never sooner or later.
Mail == INSTANCE MailPromise WITH
  Messages <- Orders, MaxTries <- MaxAttempts, row <- status, tries <- attempts, mails <- taken

KeepsMailPromise == Mail!Spec

=============================================================================
