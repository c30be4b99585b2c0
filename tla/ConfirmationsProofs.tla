------------------------- MODULE ConfirmationsProofs -------------------------
(***************************************************************************)
(* Purchase confirmations for any orders, workers, delays and faults.      *)
(***************************************************************************)
EXTENDS Confirmations, TLAPS

\* The shared lock: one worker sends at a time, a row that is due and waits.
Claimed ==
  /\ \A w \in Workers : InSend(w) =>
       job[w] \in Orders /\ status[job[w]] = "pending" /\ due[job[w]] = 0
  /\ \A w \in Workers : at[w] = "answered" => answer[w] \in Answers
  /\ \A w, v \in Workers : InSend(w) /\ InSend(v) => w = v
  /\ \A o \in Orders : status[o] = "absent" => attempts[o] = 0

\* The relay took a mail of this order and the result is not committed yet.
Unrecorded(w, o) == at[w] = "answered" /\ job[w] = o /\ Takes(answer[w])

\* Mails taken, against those the row says it sent or never learnt of.
Balanced ==
  \A o \in Orders :
    /\ status[o] = "sent" => taken[o] = excused[o] + 1
    /\ \A w \in Workers : Unrecorded(w, o) => taken[o] = excused[o] + 1
    /\ status[o] # "sent" /\ (\A w \in Workers : ~Unrecorded(w, o)) => taken[o] = excused[o]

\* The time a retry has waited and what is left to wait make up its step.
Waited ==
  \A o \in Orders :
    status[o] = "pending" /\ attempts[o] > 0 => since[o] + due[o] >= Delays[attempts[o]]

ConfirmationsInv == TypeOK /\ Claimed /\ QuotaPausesAll /\ Balanced /\ Waited

\* The steps of the ladder are natural numbers no longer than the longest.
LEMMA LadderSteps ==
  /\ Len(Delays) \in Nat /\ MaxAttempts \in Nat \ {0, 1} /\ MaxDelay \in Nat
  /\ \A n \in 1..Len(Delays) : Delays[n] \in Nat \ {0} /\ Delays[n] <= MaxDelay
<1>1. Len(Delays) \in Nat \ {0}
  BY DelaysArePositive
<1>2. \A n \in 1..Len(Delays) : Delays[n] \in Nat \ {0}
  BY DelaysArePositive
<1> QED
  BY <1>1, <1>2, MaxDelayIsLongest DEF MaxAttempts

\* What may be left of a wait: nothing is lost by letting time pass.
Waits == 0..Later(MaxDelay, QuotaWait) \cup {None}

LEMMA WaitsClosed ==
  /\ 0 \in Waits /\ QuotaWait \in Waits
  /\ \A n \in 1..Len(Delays) : Delays[n] \in Waits
  /\ \A left \in Waits : Less(left) \in Waits /\ (left # None => Less(left) # None)
  /\ \A left \in Waits \ {None} : left \in Nat
<1>1. QuotaWait \in Nat /\ None \notin Nat
  BY BoundsAreNat, NullIsNoValue
<1>2. Later(MaxDelay, QuotaWait) \in Nat /\ MaxDelay <= Later(MaxDelay, QuotaWait)
      /\ QuotaWait <= Later(MaxDelay, QuotaWait)
  BY <1>1, LadderSteps DEF Later
<1>3. \A left \in Waits : Less(left) \in Waits /\ (left # None => Less(left) # None)
  BY <1>1, <1>2 DEF Waits, Less
<1>4. \A n \in 1..Len(Delays) : Delays[n] \in 0..Later(MaxDelay, QuotaWait)
  BY <1>2, LadderSteps
<1> QED
  BY <1>1, <1>2, <1>3, <1>4 DEF Waits

\* What a recorded result makes of its row.
LEMMA RecordedRow ==
  ASSUME TypeOK, Claimed, NEW w \in Workers, Record(w)
  PROVE  LET o == job[w]
             n == attempts[o] + 1
         IN /\ o \in Orders
            /\ answer[w] \in {"accepted", "lost", "refused"}
            /\ n \in 1..MaxAttempts
            /\ status' = [status EXCEPT ![o] = StatusAfter(n, answer[w])]
            /\ attempts' = [attempts EXCEPT ![o] = n]
            /\ due' = [due EXCEPT ![o] =
                         IF StatusAfter(n, answer[w]) = "pending" THEN Delays[n] ELSE None]
            /\ StatusAfter(n, answer[w]) = "pending" => n \in 1..Len(Delays)
<1>1. job[w] \in Orders /\ status[job[w]] = "pending" /\ answer[w] \in Answers \ {"quota"}
  BY DEF Claimed, Record, InSend
<1>2. Spent(answer[w]) = 1
  BY DEF Record, Spent
<1>3. attempts[job[w]] + 1 \in 1..MaxAttempts
  BY <1>1, LadderSteps DEF TypeOK
<1> QED
  BY <1>1, <1>2, <1>3, LadderSteps DEF Record, StatusAfter, Answers, MaxAttempts

LEMMA TypeStep ==
  ASSUME TypeOK, Claimed, [Next]_vars
  PROVE  TypeOK'
<1>0. QuotaWait \in Nat /\ MaxFaults \in Nat /\ None \notin Nat
  BY BoundsAreNat, NullIsNoValue
<1>0a. due \in [Orders -> Waits]
  BY DEF TypeOK, Waits
<1>1. ASSUME NEW o \in Orders, Place(o) PROVE TypeOK'
  BY <1>1 DEF TypeOK, Place, rowVars, workerVars, historyVars
<1>2. ASSUME NEW w \in Workers, Start(w) PROVE TypeOK'
  BY <1>2 DEF TypeOK, Start, Goto, Places, Unconfirmed, rowVars, historyVars
<1>3. ASSUME NEW w \in Workers, NEW o \in Orders, Discover(w, o) PROVE TypeOK'
  <2>1. due' \in [Orders -> Waits]
    BY <1>3, <1>0a, WaitsClosed DEF Discover
  <2>2. \A p \in Orders : status'[p] = "pending" => due'[p] # None /\ attempts'[p] < MaxAttempts
    BY <1>0, <1>3, LadderSteps DEF TypeOK, Discover, Claimed
  <2> QED
    BY <1>3, <2>1, <2>2 DEF TypeOK, Discover, Waits, historyVars
<1>4. ASSUME NEW w \in Workers, NEW o \in Orders, DiscoveryFails(w, o) PROVE TypeOK'
  BY <1>0, <1>4 DEF TypeOK, DiscoveryFails, AfterFailedDiscovery, rowVars, historyVars
<1>5. ASSUME NEW w \in Workers, Discovered(w) PROVE TypeOK'
  BY <1>5 DEF TypeOK, Discovered, Goto, Places, rowVars, historyVars
<1>6. ASSUME NEW w \in Workers, NEW o \in Orders, Claim(w, o) PROVE TypeOK'
  BY <1>6 DEF TypeOK, Claim, Goto, Places, rowVars, historyVars
<1>7. ASSUME NEW w \in Workers, Return(w) PROVE TypeOK'
  BY <1>7 DEF TypeOK, Return, Goto, Places, rowVars, historyVars
<1>8. ASSUME NEW w \in Workers, NEW reply \in Answers, Answer(w, reply) PROVE TypeOK'
  <2>1. job[w] \in Orders
    BY <1>8 DEF Claimed, Answer, InSend
  <2>2. taken \in [Orders -> Nat]
    BY DEF TypeOK
  <2>3. taken' \in [Orders -> Nat]
    BY <1>8, <2>1, <2>2 DEF Answer
  <2> QED
    BY <1>8, <2>3 DEF TypeOK, Answer, Goto, Places, rowVars
<1>9. ASSUME NEW w \in Workers, Record(w) PROVE TypeOK'
  <2> DEFINE o == job[w]
             n == attempts[o] + 1
             s == StatusAfter(n, answer[w])
  <2>1. /\ o \in Orders
        /\ n \in 1..MaxAttempts
        /\ status' = [status EXCEPT ![o] = s]
        /\ attempts' = [attempts EXCEPT ![o] = n]
        /\ due' = [due EXCEPT ![o] = IF s = "pending" THEN Delays[n] ELSE None]
        /\ s = "pending" => n \in 1..Len(Delays)
    BY <1>9, RecordedRow
  <2>2. s \in {"pending", "sent", "failed"}
    BY DEF StatusAfter
  <2> HIDE DEF o, n, s
  <2>3. status' \in [Orders -> {"absent", "pending", "sent", "failed"}]
    BY <2>1, <2>2 DEF TypeOK
  <2>4. attempts' \in [Orders -> 0..MaxAttempts]
    BY <2>1, LadderSteps DEF TypeOK
  <2>5. due' \in [Orders -> Waits]
    BY <2>1, <1>0a, WaitsClosed DEF Waits
  <2>6. \A p \in Orders : status'[p] = "pending" => due'[p] # None /\ attempts'[p] < MaxAttempts
    BY <1>0, <2>1, LadderSteps DEF TypeOK, MaxAttempts
  <2>7. since' \in [Orders -> 0..MaxDelay]
    <3>1. since \in [Orders -> 0..MaxDelay] /\ 0 \in 0..MaxDelay
      BY LadderSteps DEF TypeOK
    <3> QED
      BY <1>9, <3>1 DEF Record
  <2>8. excused \in [Orders -> Nat]
    BY DEF TypeOK
  <2>9. excused' \in [Orders -> Nat]
    BY <1>9, <2>1, <2>8 DEF Record, o
  <2> QED
    BY <1>9, <2>3, <2>4, <2>5, <2>6, <2>7, <2>9 DEF TypeOK, Waits, Record, Release, Goto, Places
<1>10. ASSUME NEW w \in Workers, Defer(w) PROVE TypeOK'
  <2>1. job[w] \in Orders
    BY <1>10 DEF Claimed, Defer, InSend
  <2>2. attempts' = attempts
    BY <1>10, <2>1, LadderSteps DEF TypeOK, Defer, Spent
  <2>3. due' \in [Orders -> Waits]
    BY <1>10, <1>0a, WaitsClosed DEF Defer
  <2>4. \A p \in Orders : status'[p] = "pending" => due'[p] # None
    BY <1>0, <1>10 DEF TypeOK, Defer
  <2>5. wait' \in 0..QuotaWait
    BY <1>0, <1>10 DEF Defer
  <2> QED
    BY <1>10, <2>2, <2>3, <2>4, <2>5 DEF TypeOK, Waits, Defer, Release, Goto, Places, historyVars
<1>11. ASSUME NEW w \in Workers, Crash(w) PROVE TypeOK'
  <2>1. at[w] = "answered" => job[w] \in Orders
    BY <1>11 DEF Claimed, InSend
  <2>2. excused \in [Orders -> Nat] /\ faults \in 0..MaxFaults
    BY DEF TypeOK
  <2>3. excused' \in [Orders -> Nat]
    BY <1>11, <2>1, <2>2 DEF Crash
  <2>4. faults' \in 0..MaxFaults
    BY <1>0, <1>11, <2>2 DEF Crash
  <2> QED
    BY <1>11, <2>3, <2>4 DEF TypeOK, Crash, Release, Goto, Places, rowVars
<1>12. ASSUME Tick PROVE TypeOK'
  <2>1. due' \in [Orders -> Waits]
    BY <1>12, <1>0a, WaitsClosed DEF Tick
  <2>2. \A p \in Orders : status'[p] = "pending" => due'[p] # None
    BY <1>12, <1>0a, WaitsClosed DEF TypeOK, Tick
  <2>3. wait' \in 0..QuotaWait
    BY <1>0, <1>12 DEF TypeOK, Tick, Less
  <2>4. since' \in [Orders -> 0..MaxDelay]
    BY <1>12, LadderSteps DEF TypeOK, Tick
  <2> QED
    BY <1>12, <2>1, <2>2, <2>3, <2>4 DEF TypeOK, Waits, Tick, workerVars
<1>13. CASE UNCHANGED vars
  BY <1>13 DEF TypeOK, vars, rowVars, workerVars, historyVars
<1> QED
  BY <1>1, <1>2, <1>3, <1>4, <1>5, <1>6, <1>7, <1>8, <1>9, <1>10, <1>11, <1>12, <1>13
  DEF Next, Run

\* Only a worker that holds the shared row sends, and only rows that wait.
LEMMA ClaimedStep ==
  ASSUME TypeOK, Claimed, [Next]_vars
  PROVE  Claimed'
<1>1. ASSUME NEW o \in Orders, Place(o) PROVE Claimed'
  BY <1>1 DEF Claimed, Place, InSend, rowVars, workerVars
<1>2. ASSUME NEW w \in Workers, Start(w) PROVE Claimed'
  BY <1>2 DEF TypeOK, Claimed, Start, Goto, InSend, rowVars
<1>3. ASSUME NEW w \in Workers, NEW o \in Orders, Discover(w, o) PROVE Claimed'
  BY <1>3 DEF TypeOK, Claimed, Discover, InSend
<1>4. ASSUME NEW w \in Workers, NEW o \in Orders, DiscoveryFails(w, o) PROVE Claimed'
  BY <1>4 DEF Claimed, DiscoveryFails, InSend, rowVars
<1>5. ASSUME NEW w \in Workers, Discovered(w) PROVE Claimed'
  BY <1>5 DEF TypeOK, Claimed, Discovered, Goto, InSend, rowVars
<1>6. ASSUME NEW w \in Workers, NEW o \in Orders, Claim(w, o) PROVE Claimed'
  BY <1>6 DEF TypeOK, Claimed, Claim, Due, SweepUnlocked, Goto, InSend, rowVars
<1>7. ASSUME NEW w \in Workers, Return(w) PROVE Claimed'
  BY <1>7 DEF TypeOK, Claimed, Return, Goto, InSend, rowVars
<1>8. ASSUME NEW w \in Workers, NEW reply \in Answers, Answer(w, reply) PROVE Claimed'
  BY <1>8 DEF TypeOK, Claimed, Answer, Goto, InSend, rowVars
<1>9. ASSUME NEW w \in Workers, Record(w) PROVE Claimed'
  <2>1. \A v \in Workers : ~InSend(v)'
    BY <1>9 DEF TypeOK, Claimed, Record, Release, Goto, InSend
  <2>2. \A o \in Orders : status'[o] = "absent" => attempts'[o] = 0
    BY <1>9 DEF TypeOK, Claimed, Record, StatusAfter
  <2> QED
    BY <2>1, <2>2 DEF Claimed, InSend
<1>10. ASSUME NEW w \in Workers, Defer(w) PROVE Claimed'
  <2>1. \A v \in Workers : ~InSend(v)'
    BY <1>10 DEF TypeOK, Claimed, Defer, Release, Goto, InSend
  <2>2. \A o \in Orders : status'[o] = "absent" => attempts'[o] = 0
    BY <1>10 DEF TypeOK, Claimed, Defer, Spent, InSend
  <2> QED
    BY <2>1, <2>2 DEF Claimed, InSend
<1>11. ASSUME NEW w \in Workers, Crash(w) PROVE Claimed'
  BY <1>11 DEF TypeOK, Claimed, Crash, Release, Goto, InSend, rowVars
<1>12. ASSUME Tick PROVE Claimed'
  BY <1>12 DEF Claimed, Tick, Less, InSend, workerVars
<1>13. CASE UNCHANGED vars
  BY <1>13 DEF Claimed, InSend, vars, rowVars, workerVars
<1> QED
  BY <1>1, <1>2, <1>3, <1>4, <1>5, <1>6, <1>7, <1>8, <1>9, <1>10, <1>11, <1>12, <1>13
  DEF Next, Run

\* A pause begins when its worker lets go of the shared row, and nobody
\* claims a row before it ends.
LEMMA PauseStep ==
  ASSUME TypeOK, Claimed, QuotaPausesAll, [Next]_vars
  PROVE  QuotaPausesAll'
<1>1. ASSUME NEW w \in Workers, Defer(w) PROVE QuotaPausesAll'
  BY <1>1 DEF TypeOK, Claimed, QuotaPausesAll, Defer, Release, Goto, InSend
<1>2. ASSUME Tick PROVE QuotaPausesAll'
  BY <1>2, BoundsAreNat DEF TypeOK, QuotaPausesAll, Tick, Less, InSend, workerVars
<1>3. ASSUME wait' = wait,
             \A w \in Workers : InSend(w)' => InSend(w) \/ wait = 0
      PROVE  QuotaPausesAll'
  BY <1>3, BoundsAreNat DEF TypeOK, QuotaPausesAll
<1>4. ASSUME NEW w \in Workers, Run(w) PROVE QuotaPausesAll'
  <2>1. CASE Defer(w)
    BY <1>1, <2>1
  <2>2. CASE ~Defer(w)
    BY <1>3, <1>4, <2>2
    DEF TypeOK, Run, Start, Discover, DiscoveryFails, Discovered, Claim, Return, Answer,
        Record, Release, Goto, InSend, rowVars
  <2> QED
    BY <2>1, <2>2
<1>5. ASSUME NEW w \in Workers, Crash(w) PROVE QuotaPausesAll'
  BY <1>3, <1>5 DEF TypeOK, Crash, Release, Goto, InSend, rowVars
<1>6. CASE (\E o \in Orders : Place(o)) \/ UNCHANGED vars
  BY <1>3, <1>6 DEF Place, vars, InSend, rowVars, workerVars
<1> QED
  BY <1>2, <1>4, <1>5, <1>6 DEF Next

\* Every mail the relay takes is counted as sent, lost or not yet recorded.
LEMMA BalanceStep ==
  ASSUME TypeOK, Claimed, Balanced, [Next]_vars
  PROVE  Balanced'
<1>0. taken \in [Orders -> Nat] /\ excused \in [Orders -> Nat]
  BY DEF TypeOK
<1>1. ASSUME \A o \in Orders : (status[o] = "sent") <=> (status'[o] = "sent"),
             taken' = taken, excused' = excused,
             \A w \in Workers, o \in Orders : Unrecorded(w, o)' <=> Unrecorded(w, o)
      PROVE  Balanced'
  BY <1>1 DEF Balanced
<1>2. ASSUME NEW w \in Workers, NEW reply \in Answers, Answer(w, reply) PROVE Balanced'
  <2>1. job[w] \in Orders /\ status[job[w]] # "sent"
    BY <1>2 DEF Claimed, Answer, InSend
  <2>2. \A v \in Workers, o \in Orders : ~Unrecorded(v, o)
    BY <1>2 DEF Claimed, Answer, InSend, Unrecorded
  <2>3. \A v \in Workers, o \in Orders :
          Unrecorded(v, o)' <=> v = w /\ o = job[w] /\ Takes(reply)
    BY <1>2, <2>2 DEF TypeOK, Answer, Goto, Unrecorded, Takes
  <2>4. taken' = IF Takes(reply) THEN [taken EXCEPT ![job[w]] = @ + 1] ELSE taken
    BY <1>2 DEF Answer
  <2>5. status' = status /\ excused' = excused
    BY <1>2 DEF Answer, rowVars
  <2> QED
    BY <1>0, <2>1, <2>2, <2>3, <2>4, <2>5 DEF Balanced
<1>3. ASSUME NEW w \in Workers, Record(w) PROVE Balanced'
  <2>1. /\ job[w] \in Orders /\ status[job[w]] = "pending"
        /\ answer[w] \in {"accepted", "lost", "refused"}
    BY <1>3, RecordedRow DEF Claimed, Record, InSend
  <2>2. \A v \in Workers, o \in Orders :
          Unrecorded(v, o) <=> v = w /\ o = job[w] /\ answer[w] # "refused"
    BY <1>3, <2>1 DEF Claimed, Record, InSend, Unrecorded, Takes
  <2>3. \A v \in Workers, o \in Orders : ~Unrecorded(v, o)'
    BY <1>3, <2>2 DEF TypeOK, Claimed, Record, Release, Goto, InSend, Unrecorded
  <2>4. \A o \in Orders :
          status'[o] = "sent" <=> IF o = job[w] THEN answer[w] = "accepted" ELSE status[o] = "sent"
    BY <1>3 DEF TypeOK, Record, StatusAfter
  <2>5. /\ taken' = taken
        /\ excused' = IF answer[w] = "lost" THEN [excused EXCEPT ![job[w]] = @ + 1] ELSE excused
    BY <1>3 DEF Record
  <2> QED
    BY <1>0, <2>1, <2>2, <2>3, <2>4, <2>5 DEF Balanced
<1>4. ASSUME NEW w \in Workers, Defer(w) PROVE Balanced'
  BY <1>1, <1>4 DEF TypeOK, Claimed, Defer, Release, Goto, InSend, Unrecorded, Takes, historyVars
<1>5. ASSUME NEW w \in Workers, Crash(w) PROVE Balanced'
  <2>1. at[w] = "answered" => job[w] \in Orders /\ status[job[w]] # "sent"
    BY DEF Claimed, InSend
  <2>2. \A v \in Workers, o \in Orders : Unrecorded(v, o)' <=> Unrecorded(v, o) /\ v # w
    BY <1>5 DEF TypeOK, Crash, Release, Goto, Unrecorded
  <2>3. \A v \in Workers, o \in Orders : Unrecorded(w, o) /\ Unrecorded(v, o) => v = w
    BY DEF Claimed, Unrecorded, InSend
  <2>4. \A o \in Orders :
          excused'[o] = IF Unrecorded(w, o) THEN excused[o] + 1 ELSE excused[o]
    BY <1>0, <1>5, <2>1 DEF Crash, Unrecorded
  <2>5. status' = status /\ taken' = taken
    BY <1>5 DEF Crash, rowVars
  <2>6. \A o \in Orders : Unrecorded(w, o) => status[o] # "sent"
    BY <2>1 DEF Unrecorded
  <2> QED
    BY <1>0, <2>2, <2>3, <2>4, <2>5, <2>6 DEF Balanced
<1>6. ASSUME NEW w \in Workers, Run(w) PROVE Balanced'
  <2>1. CASE Start(w) \/ Discovered(w) \/ Return(w) \/ \E o \in Orders : Claim(w, o)
    BY <1>1, <2>1
    DEF TypeOK, Start, Discovered, Return, Claim, Goto, Unrecorded, rowVars, historyVars
  <2>2. CASE \E o \in Orders : Discover(w, o) \/ DiscoveryFails(w, o)
    BY <1>1, <2>2 DEF TypeOK, Discover, DiscoveryFails, Unrecorded, rowVars, historyVars
  <2> QED
    BY <1>2, <1>3, <1>4, <1>6, <2>1, <2>2 DEF Run
<1>7. CASE Tick \/ (\E o \in Orders : Place(o)) \/ UNCHANGED vars
  BY <1>1, <1>7 DEF Tick, Place, vars, Unrecorded, rowVars, workerVars, historyVars
<1> QED
  BY <1>5, <1>6, <1>7 DEF Next

\* Time moves from what is left of a wait to what has passed of it; a pause
\* only adds to the waits that are over.
LEMMA WaitedStep ==
  ASSUME TypeOK, Claimed, Waited, [Next]_vars
  PROVE  Waited'
<1>0. /\ \A o \in Orders : since[o] \in 0..MaxDelay /\ attempts[o] \in 0..MaxAttempts
      /\ \A o \in Orders : status[o] = "pending" => due[o] \in Nat /\ attempts[o] < MaxAttempts
  BY WaitsClosed DEF TypeOK, Waits
<1>1. ASSUME NEW w \in Workers, NEW o \in Orders, Discover(w, o) PROVE Waited'
  BY <1>1 DEF TypeOK, Claimed, Waited, Discover, historyVars
<1>2. ASSUME NEW w \in Workers, Record(w) PROVE Waited'
  <2> DEFINE o == job[w]
             n == attempts[o] + 1
             s == StatusAfter(n, answer[w])
  <2>1. /\ o \in Orders
        /\ n \in 1..MaxAttempts
        /\ status' = [status EXCEPT ![o] = s]
        /\ attempts' = [attempts EXCEPT ![o] = n]
        /\ due' = [due EXCEPT ![o] = IF s = "pending" THEN Delays[n] ELSE None]
        /\ s = "pending" => n \in 1..Len(Delays)
    BY <1>2, RecordedRow
  <2>2. since' = [since EXCEPT ![o] = 0]
    BY <1>2 DEF Record
  <2> HIDE DEF o, n, s
  <2> QED
    BY <2>1, <2>2, LadderSteps DEF TypeOK, Waited
<1>3. ASSUME NEW w \in Workers, Defer(w) PROVE Waited'
  <2>1. attempts' = attempts /\ status' = status /\ since' = since
    BY <1>3 DEF TypeOK, Claimed, Defer, Spent, InSend, historyVars
  <2>2. \A o \in Orders : due'[o] = due[o] \/ (due[o] = 0 /\ due'[o] = QuotaWait)
    BY <1>3 DEF Defer, Deferred, Due
  <2>3. \A o \in Orders : attempts[o] > 0 /\ status[o] = "pending" => Delays[attempts[o]] \in Nat
    BY <1>0, LadderSteps DEF MaxAttempts
  <2> QED
    BY <1>0, <2>1, <2>2, <2>3, BoundsAreNat DEF Waited
<1>4. ASSUME Tick PROVE Waited'
  <2> SUFFICES ASSUME NEW o \in Orders, status[o] = "pending", attempts[o] > 0
               PROVE  since'[o] + due'[o] >= Delays[attempts[o]]
    BY <1>4 DEF Waited, Tick
  <2>1. due'[o] = IF due[o] = 0 THEN 0 ELSE due[o] - 1
    BY <1>0, <1>4, NullIsNoValue DEF Tick, Less
  <2>2. since'[o] = IF since[o] < MaxDelay THEN since[o] + 1 ELSE since[o]
    BY <1>4 DEF Tick
  <2>3. Delays[attempts[o]] \in Nat /\ Delays[attempts[o]] <= MaxDelay
    BY <1>0, LadderSteps DEF MaxAttempts
  <2>4. since[o] + due[o] >= Delays[attempts[o]]
    BY DEF Waited
  <2>5. since[o] \in 0..MaxDelay /\ due[o] \in Nat /\ MaxDelay \in Nat
    BY <1>0, LadderSteps
  <2> QED
    BY <2>1, <2>2, <2>3, <2>4, <2>5
<1>5. ASSUME UNCHANGED <<rowVars, since>> PROVE Waited'
  BY <1>5 DEF Waited, rowVars
<1>6. ASSUME NEW w \in Workers, Run(w) PROVE Waited'
  BY <1>1, <1>2, <1>3, <1>5, <1>6
  DEF Run, Start, DiscoveryFails, Discovered, Claim, Return, Answer, historyVars
<1>7. CASE (\E o \in Orders : Place(o)) \/ (\E w \in Workers : Crash(w)) \/ UNCHANGED vars
  BY <1>5, <1>7 DEF Place, Crash, vars, historyVars
<1> QED
  BY <1>4, <1>6, <1>7 DEF Next

-----------------------------------------------------------------------------

LEMMA Initially == Init => ConfirmationsInv
<1> SUFFICES ASSUME Init PROVE ConfirmationsInv
  OBVIOUS
<1>1. TypeOK
  <2>1. 0 \in 0..MaxAttempts /\ 0 \in 0..MaxDelay /\ 0 \in 0..QuotaWait /\ 0 \in 0..MaxFaults
    BY LadderSteps, BoundsAreNat
  <2> QED
    BY <2>1 DEF Init, TypeOK, Places
<1>2. Claimed /\ QuotaPausesAll /\ Balanced /\ Waited
  BY DEF Init, Claimed, QuotaPausesAll, Balanced, Unrecorded, Waited, InSend
<1> QED
  BY <1>1, <1>2 DEF ConfirmationsInv

LEMMA Invariance == Spec => []ConfirmationsInv
<1>1. ConfirmationsInv /\ [Next]_vars => ConfirmationsInv'
  BY TypeStep, ClaimedStep, PauseStep, BalanceStep, WaitedStep DEF ConfirmationsInv
<1> QED
  BY <1>1, Initially, PTL DEF Spec

\* Every variable of the outbox keeps its type, and a row that waits has a next
\* attempt: the sixth failure is final and a refusal for the quota uses up none.
THEOREM OutboxTypeCorrect == Spec => []TypeOK
  BY Invariance, PTL DEF ConfirmationsInv

\* However workers overlap and crash, a mail is sent again only when the relay
\* took one that the row could not learn of.
THEOREM CustomerToldOnce == Spec => []ConfirmedOnce
<1>1. ConfirmationsInv => ConfirmedOnce
  <2> SUFFICES ASSUME ConfirmationsInv, NEW o \in Orders
               PROVE  /\ taken[o] <= excused[o] + 1
                      /\ status[o] = "sent" => taken[o] = excused[o] + 1
    BY DEF ConfirmedOnce
  <2>1. taken[o] \in Nat /\ excused[o] \in Nat
    BY DEF ConfirmationsInv, TypeOK
  <2> QED
    BY <2>1 DEF ConfirmationsInv, Balanced
<1> QED
  BY <1>1, Invariance, PTL

\* No pause, crash or other row makes a retry come before its step of _DELAYS.
THEOREM RetriesKeepLadder == Spec => []LadderKept
<1>1. ConfirmationsInv => LadderKept
  <2> SUFFICES ASSUME ConfirmationsInv, NEW w \in Workers,
                      at[w] = "sending", attempts[job[w]] > 0
               PROVE  since[job[w]] >= Delays[attempts[job[w]]]
    BY DEF LadderKept
  <2>1. job[w] \in Orders /\ status[job[w]] = "pending" /\ due[job[w]] = 0
    BY DEF ConfirmationsInv, Claimed, InSend
  <2>2. since[job[w]] \in Nat
    BY <2>1, LadderSteps DEF ConfirmationsInv, TypeOK
  <2> QED
    BY <2>1, <2>2 DEF ConfirmationsInv, Waited
<1> QED
  BY <1>1, Invariance, PTL

\* While a refusal for the quota pauses the sweep no worker is sending.
THEOREM PauseStopsWorkers == Spec => []QuotaPausesAll
  BY Invariance, PTL DEF ConfirmationsInv

-----------------------------------------------------------------------------
(* Confirmations implements MailPromise *)

MailStep == [Mail!Next]_<<status, attempts, taken>>

\* The relay only takes a mail of a row that a worker has claimed, and a row
\* that is claimed is pending.
LEMMA AnswersArePromised ==
  ASSUME TypeOK, Claimed, NEW w \in Workers, NEW reply \in Answers, Answer(w, reply)
  PROVE  MailStep
<1>1. job[w] \in Orders /\ status[job[w]] = "pending"
  BY DEF Claimed, Answer, InSend
<1>2. CASE Takes(reply)
  <2>1. Mail!Take(job[w])
    BY <1>1, <1>2 DEF Answer, Mail!Take, rowVars
  <2> QED
    BY <1>1, <2>1 DEF MailStep, Mail!Next
<1>3. CASE ~Takes(reply)
  BY <1>3 DEF Answer, MailStep, rowVars
<1> QED
  BY <1>2, <1>3

\* A result that commits is a success, for which the relay took a mail, or a
\* failure that gives up at the last attempt only.
LEMMA ResultsArePromised ==
  ASSUME TypeOK, Claimed, Balanced, NEW w \in Workers, Record(w)
  PROVE  MailStep
<1> DEFINE o == job[w]
           n == attempts[o] + 1
<1>1. /\ o \in Orders /\ status[o] = "pending"
      /\ status' = [status EXCEPT ![o] = StatusAfter(n, answer[w])]
      /\ attempts' = [attempts EXCEPT ![o] = n]
  BY RecordedRow DEF Claimed, Record, InSend
<1>2. taken' = taken
  BY DEF Record
<1>3. CASE answer[w] = "accepted"
  <2>1. taken[o] = excused[o] + 1
    BY <1>1, <1>3 DEF Balanced, Unrecorded, Takes, Record
  <2>2. taken[o] > 0
    BY <1>1, <2>1 DEF TypeOK
  <2>3. Mail!Succeed(o)
    BY <1>1, <1>2, <1>3, <2>2 DEF Mail!Succeed, StatusAfter
  <2> QED
    BY <1>1, <2>3 DEF MailStep, Mail!Next
<1>4. CASE answer[w] # "accepted"
  <2>1. Mail!Fail(o)
    BY <1>1, <1>2, <1>4 DEF Mail!Fail, StatusAfter
  <2> QED
    BY <1>1, <2>1 DEF MailStep, Mail!Next
<1> QED
  BY <1>3, <1>4

LEMMA PromiseStep ==
  ASSUME ConfirmationsInv, [Next]_vars
  PROVE  MailStep
<1>0. TypeOK /\ Claimed /\ Balanced
  BY DEF ConfirmationsInv
<1>1. ASSUME UNCHANGED <<status, attempts, taken>> PROVE MailStep
  BY <1>1 DEF MailStep
<1>2. ASSUME NEW w \in Workers, NEW o \in Orders, Discover(w, o) PROVE MailStep
  <2>1. CASE status[o] = "absent"
    <3>1. Mail!Freeze(o)
      BY <1>2, <2>1 DEF Discover, Mail!Freeze, historyVars
    <3> QED
      BY <3>1 DEF MailStep, Mail!Next
  <2>2. CASE status[o] # "absent"
    BY <1>1, <1>2, <2>2 DEF Discover, historyVars
  <2> QED
    BY <2>1, <2>2
<1>3. ASSUME NEW w \in Workers, Defer(w) PROVE MailStep
  <2>1. job[w] \in Orders
    BY <1>0, <1>3 DEF Claimed, Defer, InSend
  <2>2. attempts' = attempts
    BY <1>0, <1>3, <2>1, LadderSteps DEF TypeOK, Defer, Spent
  <2> QED
    BY <1>1, <1>3, <2>2 DEF Defer, historyVars
<1>4. ASSUME NEW w \in Workers, Run(w) PROVE MailStep
  BY <1>0, <1>1, <1>2, <1>3, <1>4, AnswersArePromised, ResultsArePromised
  DEF Run, Start, DiscoveryFails, Discovered, Claim, Return, rowVars, historyVars
<1>5. CASE Tick \/ (\E o \in Orders : Place(o)) \/ (\E w \in Workers : Crash(w)) \/ UNCHANGED vars
  BY <1>1, <1>5 DEF Tick, Place, Crash, vars, rowVars, historyVars
<1> QED
  BY <1>4, <1>5 DEF Next

\* Whatever the workers, the relay and the quota do, a row that was sent or
\* given up stays so and is never mailed again, and it is given up exactly at
\* its last attempt.
THEOREM OutboxKeepsPromise == Spec => KeepsMailPromise
<1>1. Init => Mail!Init
  BY DEF Init, Mail!Init
<1>2. ConfirmationsInv /\ [Next]_vars => [Mail!Next]_<<status, attempts, taken>>
  BY PromiseStep DEF MailStep
<1> QED
  BY <1>1, <1>2, Invariance, PTL DEF Spec, Mail!Spec, KeepsMailPromise

=============================================================================
