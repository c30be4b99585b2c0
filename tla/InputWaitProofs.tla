-------------------------- MODULE InputWaitProofs --------------------------
(***************************************************************************)
(* The waiting clock for any window, cap, number of pages and history, its *)
(* refinement of DeliveryPromise, and the product's page for any number of *)
(* operators and sections.                                                 *)
(***************************************************************************)
EXTENDS PanelPages, SequenceTheorems, TLAPS

\* An "input" item was placed with its input.
InputGiven == kind = "input" => receivedAt # None

WaitInv == TypeOK /\ InputGiven /\ ClockMatchesStatus /\ DecidedOnLatest

LEMMA DeadlineType ==
  ASSUME NEW start \in Int, NEW h \in Int
  PROVE  DeadlineFrom(start, h) \in Int
<1>1. HourOf(start + h) \in Int
  BY WindowWithinDay DEF HourOf
<1>2. IntoWindow(start + h) \in Int
  BY <1>1, WindowWithinDay DEF IntoWindow, MidnightOf
<1>3. QED
  BY <1>2, CapIsPositive DEF DeadlineFrom, Earlier

\* delivery_deadline answers a time exactly when the clock may run.
LEMMA DeadlineDefined ==
  ASSUME NEW paid \in Int, NEW h \in Int, NEW requires \in BOOLEAN,
         NEW received \in Int \cup {None}
  PROVE  /\ DeliveryDeadline(paid, h, requires, received) \in Int \cup {None}
         /\ DeliveryDeadline(paid, h, requires, received) = None
              <=> requires /\ received = None
<1>1. CASE requires /\ received = None
  BY <1>1 DEF DeliveryDeadline
<1>2. CASE ~(requires /\ received = None)
  <2>1. (IF requires THEN Later(paid, received) ELSE paid) \in Int
    BY <1>2 DEF Later
  <2>2. DeliveryDeadline(paid, h, requires, received)
          = DeadlineFrom(IF requires THEN Later(paid, received) ELSE paid, h)
    BY <1>2, NoneIsNoTime DEF DeliveryDeadline
  <2>3. QED
    BY <1>2, <2>1, <2>2, DeadlineType, NoneIsNoTime
<1>3. QED
  BY <1>1, <1>2

LEMMA WaitInit == Init => WaitInv
<1> SUFFICES ASSUME Init PROVE WaitInv
  OBVIOUS
<1>1. TypeOK
  BY BoundsAreNat, EmptySeq DEF Init, TypeOK, Times, Statuses
<1>2. InputGiven /\ ClockMatchesStatus
  BY NoneIsNoTime DEF Init, InputGiven, ClockMatchesStatus
<1>3. DecidedOnLatest
  BY DEF Init, DecidedOnLatest, Latest
<1>4. QED
  BY <1>1, <1>2, <1>3 DEF WaitInv

LEMMA InputEventHistory ==
  ASSUME TypeOK, DecidedOnLatest, NEW c \in Pages, NEW from \in Statuses, NEW to \in Statuses,
         Current(c), InputEvent(c, from, to)
  PROVE  events' \in Seq(Events) /\ DecidedOnLatest'
<1> DEFINE row == [from |-> from, to |-> to, at |-> now, seen |-> page[c]]
<1>1. row \in Events
  BY DEF TypeOK, Events
<1>2. events \in Seq(Events) /\ events' = Append(events, row)
  BY DEF TypeOK, InputEvent
<1>3. row.seen = Len(events)
  BY DEF Current, Latest
<1> HIDE DEF row
<1>4. events' \in Seq(Events) /\ Len(events') = Len(events) + 1
      /\ (\A n \in 1..Len(events) : events'[n] = events[n])
      /\ events'[Len(events) + 1] = row
  BY <1>1, <1>2, AppendProperties
<1>5. QED
  BY <1>2, <1>3, <1>4, LenProperties DEF DecidedOnLatest, Latest

LEMMA PaidHistory ==
  ASSUME TypeOK, DecidedOnLatest, MarkOrderPaid
  PROVE  events' \in Seq(Events) /\ DecidedOnLatest'
<1> DEFINE paid == [from |-> "PENDING_PAYMENT", to |-> "QUEUED", at |-> now, seen |-> Latest]
           asked == [from |-> "QUEUED", to |-> "AWAITING_INPUT", at |-> now, seen |-> Latest + 1]
           one == Append(events, paid)
<1>1. events \in Seq(Events) /\ Len(events) \in Nat
  BY LenProperties DEF TypeOK
<1>2. paid \in Events /\ asked \in Events /\ paid.seen = Len(events) /\ asked.seen = Len(events) + 1
  BY <1>1 DEF TypeOK, Events, Statuses, Latest
<1>3. events' = one \/ events' = events \o <<paid, asked>>
  BY DEF MarkOrderPaid
<1> HIDE DEF paid, asked
<1>4. CASE events' = one
  BY <1>1, <1>2, <1>4, AppendProperties DEF DecidedOnLatest, Latest
<1>5. CASE events' = events \o <<paid, asked>>
  <2>1. <<paid, asked>> \in Seq(Events)
    BY <1>2
  <2>2. /\ events' \in Seq(Events) /\ Len(events') = Len(events) + 2
        /\ \A n \in 1..Len(events) + 2 :
             events'[n] = IF n <= Len(events) THEN events[n] ELSE <<paid, asked>>[n - Len(events)]
    BY <1>1, <1>5, <2>1, ConcatProperties
  <2>3. events'[Len(events) + 1] = paid /\ events'[Len(events) + 2] = asked
    BY <1>1, <2>2
  <2>4. QED
    BY <1>1, <1>2, <2>2, <2>3 DEF DecidedOnLatest, Latest
<1>6. QED
  BY <1>3, <1>4, <1>5

LEMMA WaitStep == WaitInv /\ [Next]_vars => WaitInv'
<1> SUFFICES ASSUME WaitInv, [Next]_vars PROVE WaitInv'
  OBVIOUS
<1>0. TypeOK /\ InputGiven /\ ClockMatchesStatus /\ DecidedOnLatest
  BY DEF WaitInv
<1>1. ASSUME \/ \E c \in Pages : LoadPage(c)
             \/ Tick
             \/ UNCHANGED vars
      PROVE  WaitInv'
  <2>1. UNCHANGED <<kind, hours, itemVars>>
    BY <1>1 DEF LoadPage, Tick, vars
  <2>2. now' \in Times /\ page' \in [Pages -> Nat]
    BY <1>0, <1>1, BoundsAreNat, LenProperties DEF LoadPage, Tick, vars, TypeOK, Times,
       Latest
  <2>3. QED
    BY <1>0, <2>1, <2>2
    DEF itemVars, WaitInv, TypeOK, InputGiven, ClockMatchesStatus, DecidedOnLatest, Latest
<1>2. ASSUME MarkOrderPaid PROVE WaitInv'
  <2> DEFINE due == DeliveryDeadline(now, hours, ClockRequiresInput, receivedAt)
  <2>1. due \in Int \cup {None} /\ (due = None <=> ClockRequiresInput /\ receivedAt = None)
    <3>1. now \in Int /\ hours \in Int /\ receivedAt \in Int \cup {None}
          /\ ClockRequiresInput \in BOOLEAN
      BY <1>0, CapIsPositive, BoundsAreNat DEF TypeOK, Times, ClockRequiresInput
    <3>2. QED
      BY <3>1, DeadlineDefined
  <2>2. events' \in Seq(Events) /\ DecidedOnLatest'
    BY <1>0, <1>2, PaidHistory
  <2>3. now # None
    BY <1>0, NoneIsNoTime, BoundsAreNat DEF TypeOK, Times
  <2>4. /\ UNCHANGED <<kind, hours, receivedAt, page, now>> /\ paidAt' = now /\ dueAt' = due
        /\ \/ kind = "telegram" /\ status' = "AWAITING_INPUT" /\ requestedAt' = now
              /\ pausedAt' = (IF due = None THEN None ELSE now)
           \/ kind # "telegram" /\ status' = "QUEUED" /\ UNCHANGED <<requestedAt, pausedAt>>
    BY <1>2 DEF MarkOrderPaid
  <2>5. status = "PENDING_PAYMENT"
    BY <1>2 DEF MarkOrderPaid
  <2> HIDE DEF due
  <2>6. TypeOK'
    BY <1>0, <2>1, <2>2, <2>4 DEF TypeOK, Statuses
  <2>7. ClockMatchesStatus' /\ InputGiven'
    BY <1>0, <2>1, <2>3, <2>4, <2>5
    DEF TypeOK, ClockMatchesStatus, InputGiven, ClockRequiresInput
  <2>8. QED
    BY <2>2, <2>6, <2>7 DEF WaitInv
<1>3. ASSUME NEW c \in Pages, RequestInput(c) PROVE WaitInv'
  <2>1. events' \in Seq(Events) /\ DecidedOnLatest'
    BY <1>0, <1>3, InputEventHistory DEF RequestInput, Statuses
  <2>2. now # None
    BY <1>0, NoneIsNoTime, BoundsAreNat DEF TypeOK, Times
  <2>3. TypeOK'
    BY <1>0, <1>3, <2>1 DEF RequestInput, InputEvent, TypeOK, Statuses
  <2>4. ClockMatchesStatus' /\ InputGiven'
    BY <1>0, <1>3, <2>2 DEF RequestInput, InputEvent, ClockMatchesStatus, InputGiven
  <2>5. QED
    BY <2>1, <2>3, <2>4 DEF WaitInv
<1>4. ASSUME NEW c \in Pages, ReceiveInput(c) PROVE WaitInv'
  <2> DEFINE due == DeliveryDeadline(paidAt, hours, ClockRequiresInput, now)
  <2>1. events' \in Seq(Events) /\ DecidedOnLatest'
    BY <1>0, <1>4, InputEventHistory DEF ReceiveInput, Statuses
  <2>2. now \in Int /\ now # None
    BY <1>0, NoneIsNoTime, BoundsAreNat DEF TypeOK, Times
  <2>3. due \in Int
    <3>1. paidAt \in Int /\ hours \in Int /\ ClockRequiresInput \in BOOLEAN
      BY <1>0, <1>4, CapIsPositive, BoundsAreNat DEF ReceiveInput, TypeOK, Times,
         ClockRequiresInput
    <3>2. QED
      BY <2>2, <3>1, DeadlineDefined
  <2>4. dueAt' = due /\ status' = "QUEUED" /\ pausedAt' = None /\ receivedAt' = now
        /\ UNCHANGED <<kind, hours, paidAt, requestedAt, page, now>> /\ paidAt # None
    BY <1>4 DEF ReceiveInput, InputEvent
  <2> HIDE DEF due
  <2>5. TypeOK'
    BY <1>0, <2>1, <2>3, <2>4 DEF TypeOK, Statuses
  <2>6. ClockMatchesStatus' /\ InputGiven'
    BY <1>0, <2>2, <2>3, <2>4, NoneIsNoTime DEF ClockMatchesStatus, InputGiven
  <2>7. QED
    BY <2>1, <2>5, <2>6 DEF WaitInv
<1>5. ASSUME NEW c \in Pages, ResumeInput(c) PROVE WaitInv'
  <2>1. events' \in Seq(Events) /\ DecidedOnLatest'
    BY <1>0, <1>5, InputEventHistory DEF ResumeInput, Statuses
  <2>2. dueAt' \in Int
    BY <1>0, <1>5, BoundsAreNat DEF ResumeInput, TypeOK, Times
  <2>3. TypeOK'
    BY <1>0, <1>5, <2>1, <2>2 DEF ResumeInput, InputEvent, TypeOK, Statuses
  <2>4. ClockMatchesStatus' /\ InputGiven'
    BY <1>0, <1>5, <2>2, NoneIsNoTime DEF ResumeInput, InputEvent, ClockMatchesStatus,
       InputGiven
  <2>5. QED
    BY <2>1, <2>3, <2>4 DEF WaitInv
<1>6. QED
  BY <1>1, <1>2, <1>3, <1>4, <1>5 DEF Next

\* Every variable of the waiting clock keeps its type.
THEOREM WaitTypeCorrect == Spec => []TypeOK
<1>1. WaitInv => TypeOK
  BY DEF WaitInv
<1>2. QED
  BY WaitInit, WaitStep, <1>1, PTL DEF Spec

\* The deadline and the pause always match the status.
THEOREM ClockAlwaysMatches == Spec => []ClockMatchesStatus
<1>1. WaitInv => ClockMatchesStatus
  BY DEF WaitInv
<1>2. QED
  BY WaitInit, WaitStep, <1>1, PTL DEF Spec

\* No change is ever decided on a page that missed the change before it.
THEOREM StalePagesDecideNothing == Spec => []DecidedOnLatest
<1>1. WaitInv => DecidedOnLatest
  BY DEF WaitInv
<1>2. QED
  BY WaitInit, WaitStep, <1>1, PTL DEF Spec

-----------------------------------------------------------------------------
(* The deadline as the promise of a stopwatch (DeliveryPromise) *)

LEMMA HourRange ==
  ASSUME NEW t \in Int
  PROVE  HourOf(t) \in 0..Day - 1
BY WindowWithinDay DEF HourOf

LEMMA HourUnique ==
  ASSUME NEW d \in Nat \ {0}, NEW q \in Int, NEW r \in 0..d - 1
  PROVE  (d * q + r) % d = r
OBVIOUS

\* The hour k units later: the same day's, or the next day's.
LEMMA HourLater ==
  ASSUME NEW t \in Int, NEW k \in Nat, HourOf(t) + k < Day + Day
  PROVE  HourOf(t + k) = IF HourOf(t) + k < Day THEN HourOf(t) + k ELSE HourOf(t) + k - Day
<1> DEFINE q == t \div Day
           r == t % Day
           over == IF r + k < Day THEN 0 ELSE 1
<1>1. Day \in Nat \ {0}
  BY WindowWithinDay
<1>2. q \in Int /\ r \in 0..Day - 1 /\ t = Day * q + r
  BY <1>1
<1>3. HourOf(t) = r
  BY DEF HourOf
<1> HIDE DEF q, r
<1>4. over \in Int /\ r + k - Day * over \in 0..Day - 1
  BY <1>1, <1>2, <1>3
<1>5. t + k = Day * (q + over) + (r + k - Day * over)
  BY <1>1, <1>2
<1>6. (t + k) % Day = r + k - Day * over
  <2> DEFINE rest == r + k - Day * over
             days == q + over
  <2>1. days \in Int /\ rest \in 0..Day - 1
    BY <1>2, <1>4
  <2> HIDE DEF rest, days
  <2>2. (Day * days + rest) % Day = rest
    BY <1>1, <2>1, HourUnique
  <2>3. QED
    BY <1>5, <2>2 DEF rest, days
<1>7. QED
  BY <1>1, <1>2, <1>3, <1>6 DEF HourOf

\* into_support_window answers the first moment at which support is open.
LEMMA FirstOpenMoment ==
  ASSUME NEW m \in Int
  PROVE  /\ IntoWindow(m) \in Int /\ IntoWindow(m) >= m
         /\ Promise!Open(IntoWindow(m))
         /\ \A s \in m..IntoWindow(m) - 1 : ~Promise!Open(s)
<1> DEFINE r == HourOf(m)
           k == IF r < Opens THEN Opens - r ELSE IF r >= Closes THEN Day + Opens - r ELSE 0
<1>1. r \in 0..Day - 1
  BY HourRange
<1>2. Day \in Nat /\ Opens \in Nat /\ Closes \in Nat
      /\ 0 < Opens /\ Opens < Closes /\ Closes < Day
  BY WindowWithinDay
<1>3. \A t \in Int : Promise!Open(t) <=> Opens <= HourOf(t) /\ HourOf(t) < Closes
  <2>1. TAKE t \in Int
  <2>2. HourOf(t) \in Int
    BY HourRange
  <2>3. QED
    BY <1>2, <2>2 DEF Promise!Open, HourOf
<1>4. IntoWindow(m) = m + k
  BY <1>1, <1>2 DEF IntoWindow, MidnightOf
<1>5. k \in Nat /\ r + k < Day + Day
  BY <1>1, <1>2
<1>6. \A j \in 0..k : HourOf(m + j) = IF r + j < Day THEN r + j ELSE r + j - Day
  BY <1>1, <1>2, <1>5, HourLater
<1> HIDE DEF r
<1>7. HourOf(m + k) = IF r + k < Day THEN r + k ELSE r + k - Day
  BY <1>5, <1>6
<1>8. Promise!Open(m + k)
  BY <1>1, <1>2, <1>3, <1>5, <1>7
<1>9. ASSUME NEW s \in m..m + k - 1 PROVE ~Promise!Open(s)
  <2>1. s - m \in 0..k /\ s - m < k /\ m + (s - m) = s /\ s \in Int
    BY <1>5
  <2>2. HourOf(s) = IF r + (s - m) < Day THEN r + (s - m) ELSE r + (s - m) - Day
    BY <1>6, <2>1
  <2>3. QED
    BY <1>1, <1>2, <1>3, <2>1, <2>2
<1>10. QED
  BY <1>4, <1>5, <1>8, <1>9

\* delivery_deadline answers the moment promised.
LEMMA DeadlineIsPromised ==
  ASSUME NEW start \in Int, NEW h \in 1..Cap
  PROVE  DeadlineFrom(start, h) = Promise!Promised(start, h)
<1> DEFINE w == IntoWindow(start + h)
           D == DeadlineFrom(start, h)
           P(t) == /\ t = start + Cap \/ (t >= start + h /\ Promise!Open(t))
                   /\ \A s \in start + h..t - 1 : ~Promise!Open(s)
<1>1. Cap \in Nat /\ h \in Int /\ 1 <= h /\ h <= Cap
  BY CapIsPositive
<1>2. /\ w \in Int /\ w >= start + h /\ Promise!Open(w)
      /\ \A s \in start + h..w - 1 : ~Promise!Open(s)
  BY <1>1, FirstOpenMoment
<1>3. D = IF w <= start + Cap THEN w ELSE start + Cap
  BY DEF DeadlineFrom, Earlier
<1> HIDE DEF w, D
<1>4. D \in start..start + Cap /\ P(D)
  <2>1. CASE w <= start + Cap
    BY <1>1, <1>2, <1>3, <2>1
  <2>2. CASE w > start + Cap
    BY <1>1, <1>2, <1>3, <2>2
  <2>3. QED
    BY <1>1, <1>2, <2>1, <2>2
<1>5. ASSUME NEW t \in start..start + Cap, NEW u \in start..start + Cap, P(t), P(u), t < u
      PROVE  FALSE
  <2>1. t >= start + h /\ Promise!Open(t)
    BY <1>1, <1>5
  <2>2. t \in start + h..u - 1
    BY <1>1, <1>5, <2>1
  <2>3. QED
    BY <1>5, <2>1, <2>2
<1>6. \A t \in start..start + Cap : P(t) => t = D
  BY <1>1, <1>4, <1>5
<1>7. Promise!Promised(start, h) = CHOOSE t \in start..start + Cap : P(t)
  BY DEF Promise!Promised
<1> HIDE DEF P
<1>8. QED
  BY <1>4, <1>6, <1>7 DEF D

\* Nothing has happened later than now; what an unpaid item has received is what
\* its checkout gave; only an item that needs input is still without a deadline.
ClockStarts ==
  /\ paidAt # None => paidAt <= now
  /\ receivedAt # None => receivedAt <= now
  /\ status = "PENDING_PAYMENT" => receivedAt = (IF kind = "input" THEN 0 ELSE None)
  /\ status = "AWAITING_INPUT" /\ dueAt = None => ClockRequiresInput

PromiseInv == WaitInv /\ ClockStarts

LEMMA PromiseInit == Init => PromiseInv /\ Promise!Init
<1> SUFFICES ASSUME Init PROVE PromiseInv /\ Promise!Init
  OBVIOUS
<1>1. WaitInv
  BY WaitInit
<1>2. ClockStarts
  BY NoneIsNoTime DEF Init, ClockStarts
<1>3. Promise!Init
  BY DEF Init, Promise!Init, Clock, TimeLeft
<1>4. QED
  BY <1>1, <1>2, <1>3 DEF PromiseInv

PromiseStep ==
  [Promise!Start \/ Promise!Pause \/ Promise!Resume \/ Promise!Tick]_<<hours, Clock, TimeLeft, now>>

\* The first deadline, from payment or from the input that was waited for.
LEMMA PromiseStarts ==
  ASSUME PromiseInv, dueAt = None, dueAt' = Promise!Promised(now, hours), pausedAt' = None,
         dueAt' # None, UNCHANGED <<hours, now>>
  PROVE  Promise!Start
BY DEF Promise!Start, Clock, TimeLeft

LEMMA PromisePaid ==
  ASSUME PromiseInv, MarkOrderPaid
  PROVE  ClockStarts' /\ PromiseStep
<1>1. now \in Int /\ hours \in 1..Cap /\ now # None
  BY BoundsAreNat, NoneIsNoTime DEF PromiseInv, WaitInv, TypeOK, Times
<1>2. /\ dueAt = None /\ pausedAt = None /\ status = "PENDING_PAYMENT"
      /\ receivedAt = (IF kind = "input" THEN 0 ELSE None)
      /\ kind \in {"plain", "input", "telegram"}
      /\ receivedAt # None => receivedAt <= now
  BY DEF MarkOrderPaid, PromiseInv, WaitInv, ClockMatchesStatus, ClockStarts, TypeOK
<1>3. UNCHANGED <<kind, hours, receivedAt, page, now>> /\ paidAt' = now
      /\ dueAt' = DeliveryDeadline(now, hours, ClockRequiresInput, receivedAt)
  BY DEF MarkOrderPaid
<1>4. CASE kind = "telegram"
  <2>1. dueAt' = None /\ pausedAt' = None /\ status' = "AWAITING_INPUT"
    BY <1>1, <1>2, <1>3, <1>4 DEF MarkOrderPaid, DeliveryDeadline, ClockRequiresInput
  <2>2. UNCHANGED <<hours, Clock, TimeLeft, now>>
    BY <1>2, <1>3, <2>1 DEF Clock, TimeLeft
  <2>3. ClockStarts'
    BY <1>1, <1>2, <1>3, <1>4, <2>1 DEF ClockStarts, ClockRequiresInput
  <2>4. QED
    BY <2>2, <2>3 DEF PromiseStep
<1>5. CASE kind # "telegram"
  <2>1. dueAt' = DeadlineFrom(now, hours)
    <3>1. CASE kind = "plain"
      BY <1>1, <1>3, <3>1 DEF DeliveryDeadline, ClockRequiresInput
    <3>2. CASE kind = "input"
      <4>1. receivedAt = 0 /\ 0 # None /\ 0 <= now
        BY <1>2, <3>2, NoneIsNoTime
      <4>2. Later(now, 0) = now
        BY <1>1, <4>1 DEF Later
      <4>3. QED
        BY <1>1, <1>3, <3>2, <4>1, <4>2 DEF DeliveryDeadline, ClockRequiresInput
    <3>3. QED
      BY <1>2, <1>5, <3>1, <3>2
  <2>2. dueAt' = Promise!Promised(now, hours) /\ dueAt' # None
    <3>1. hours \in Int
      BY <1>1, CapIsPositive
    <3>2. DeadlineFrom(now, hours) \in Int
      BY <1>1, <3>1, DeadlineType
    <3>3. QED
      BY <1>1, <2>1, <3>2, DeadlineIsPromised, NoneIsNoTime
  <2>3. status' = "QUEUED" /\ pausedAt' = None
    BY <1>2, <1>5 DEF MarkOrderPaid
  <2>4. Promise!Start
    BY <1>2, <1>3, <2>2, <2>3, PromiseStarts
  <2>5. ClockStarts'
    BY <1>1, <1>2, <1>3, <2>3 DEF ClockStarts
  <2>6. QED
    BY <2>4, <2>5 DEF PromiseStep
<1>6. QED
  BY <1>4, <1>5

LEMMA PromiseReceived ==
  ASSUME PromiseInv, NEW c \in Pages, ReceiveInput(c)
  PROVE  ClockStarts' /\ PromiseStep
<1>1. now \in Int /\ hours \in 1..Cap /\ now # None
  BY BoundsAreNat, NoneIsNoTime DEF PromiseInv, WaitInv, TypeOK, Times
<1>2. paidAt \in Int /\ paidAt # None /\ paidAt <= now /\ ClockRequiresInput
  BY BoundsAreNat DEF ReceiveInput, PromiseInv, WaitInv, TypeOK, Times, ClockStarts
<1>3. /\ UNCHANGED <<kind, hours, paidAt, requestedAt, page, now>>
      /\ dueAt = None /\ pausedAt' = None /\ receivedAt' = now /\ status' = "QUEUED"
      /\ dueAt' = DeliveryDeadline(paidAt, hours, ClockRequiresInput, now)
  BY DEF ReceiveInput, InputEvent
<1>4. Later(paidAt, now) = now
  BY <1>1, <1>2 DEF Later
<1>5. dueAt' = DeadlineFrom(now, hours)
  BY <1>1, <1>2, <1>3, <1>4 DEF DeliveryDeadline
<1>6. DeadlineFrom(now, hours) \in Int
  <2>1. hours \in Int
    BY <1>1, CapIsPositive
  <2>2. QED
    BY <1>1, <2>1, DeadlineType
<1>7. Promise!Start
  BY <1>1, <1>3, <1>5, <1>6, DeadlineIsPromised, PromiseStarts, NoneIsNoTime
<1>8. ClockStarts'
  BY <1>1, <1>2, <1>3 DEF ClockStarts
<1>9. QED
  BY <1>7, <1>8 DEF PromiseStep

LEMMA PromiseRequested ==
  ASSUME PromiseInv, NEW c \in Pages, RequestInput(c)
  PROVE  ClockStarts' /\ PromiseStep
<1>1. now # None /\ now \in Int
  BY BoundsAreNat, NoneIsNoTime DEF PromiseInv, WaitInv, TypeOK, Times
<1>2. /\ dueAt # None /\ pausedAt = None /\ pausedAt' = now /\ status' = "AWAITING_INPUT"
      /\ UNCHANGED <<kind, hours, paidAt, receivedAt, dueAt, page, now>>
  BY DEF RequestInput, InputEvent, PromiseInv, WaitInv, ClockMatchesStatus
<1>3. Promise!Pause
  BY <1>1, <1>2 DEF Promise!Pause, Clock, TimeLeft
<1>4. ClockStarts'
  BY <1>2 DEF PromiseInv, ClockStarts
<1>5. QED
  BY <1>3, <1>4 DEF PromiseStep

LEMMA PromiseResumed ==
  ASSUME PromiseInv, NEW c \in Pages, ResumeInput(c)
  PROVE  ClockStarts' /\ PromiseStep
<1>1. /\ dueAt # None /\ pausedAt # None /\ pausedAt' = None /\ status' = "QUEUED"
      /\ dueAt' = dueAt + (now - pausedAt)
      /\ UNCHANGED <<kind, hours, paidAt, receivedAt, requestedAt, page, now>>
  BY DEF ResumeInput, InputEvent
<1>2. now \in Int /\ pausedAt \in Int /\ dueAt \in Int
  BY <1>1, BoundsAreNat DEF PromiseInv, WaitInv, TypeOK, Times
<1>3. dueAt' \in Int /\ dueAt' # None /\ dueAt' - now = dueAt - pausedAt
  BY <1>1, <1>2, NoneIsNoTime
<1>4. Promise!Resume
  BY <1>1, <1>3 DEF Promise!Resume, Clock, TimeLeft
<1>5. ClockStarts'
  BY <1>1 DEF PromiseInv, ClockStarts
<1>6. QED
  BY <1>4, <1>5 DEF PromiseStep

LEMMA PromiseTicks ==
  ASSUME PromiseInv, Tick
  PROVE  ClockStarts' /\ PromiseStep
<1>1. /\ now' = now + 1
      /\ UNCHANGED <<kind, hours, status, paidAt, receivedAt, dueAt, pausedAt>>
  BY DEF Tick, itemVars
<1>2. /\ now \in Int /\ paidAt \in Int \cup {None} /\ receivedAt \in Int \cup {None}
      /\ dueAt \in Int \cup {None} /\ pausedAt \in Int \cup {None}
      /\ dueAt = None => pausedAt = None
  BY BoundsAreNat DEF PromiseInv, WaitInv, TypeOK, Times, ClockMatchesStatus, Statuses
<1>3. Promise!Tick
  BY <1>1, <1>2 DEF Promise!Tick, Clock, TimeLeft
<1>4. ClockStarts'
  BY <1>1, <1>2 DEF PromiseInv, ClockStarts, ClockRequiresInput
<1>5. QED
  BY <1>3, <1>4 DEF PromiseStep

LEMMA PromiseKept == PromiseInv /\ [Next]_vars => PromiseInv' /\ PromiseStep
<1> SUFFICES ASSUME PromiseInv, [Next]_vars PROVE PromiseInv' /\ PromiseStep
  OBVIOUS
<1>1. WaitInv'
  BY WaitStep DEF PromiseInv
<1>2. ASSUME (\E c \in Pages : LoadPage(c)) \/ UNCHANGED vars
      PROVE  ClockStarts' /\ PromiseStep
  <2>1. UNCHANGED <<kind, hours, status, paidAt, receivedAt, dueAt, pausedAt, now>>
    BY <1>2 DEF LoadPage, vars, itemVars
  <2>2. QED
    BY <2>1 DEF PromiseInv, ClockStarts, ClockRequiresInput, PromiseStep, Clock, TimeLeft
<1>3. ClockStarts' /\ PromiseStep
  BY <1>2, PromisePaid, PromiseRequested, PromiseReceived, PromiseResumed, PromiseTicks
     DEF Next
<1>4. QED
  BY <1>1, <1>3 DEF PromiseInv

\* Whatever pages are posted, and in whatever order, the deadline is a stopwatch
\* that starts at the moment promised and stands still exactly while a later wait
\* lasts (delivery_deadline, request_input, receive_input, resume_input).
THEOREM WaitKeepsPromise == Spec => KeepsPromise
<1>2. Init => PromiseInv /\ Promise!Init
  BY PromiseInit
<1>3. PromiseInv /\ [Next]_vars => PromiseInv' /\ PromiseStep
  BY PromiseKept
<1>4. QED
  BY <1>2, <1>3, PTL DEF Spec, KeepsPromise, Promise!Spec, PromiseStep

-----------------------------------------------------------------------------
(* The page the items are sold on (Publication) *)

Tasks == {"idle", "form", "plan", "publish", "copy"}

\* What a request that was not overtaken has read still holds.
ReadsHold ==
  \A r \in Requests \ late :
    /\ doing[r] = "publish" => ~Panel!Live /\ (seen[r] => Panel!Ready)
    /\ doing[r] = "plan" => seen[r] = published
    /\ doing[r] = "copy" => ~Panel!Live

\* Only rows of the page hold placeholders, and an open form shows only such rows.
RowsOfThePage ==
  /\ marked \subseteq Panel!OwnRows \cup sections
  /\ \A r \in Requests : doing[r] = "form" => seen[r] \subseteq sections

PageInv ==
  /\ doing \in [Requests -> Tasks]
  /\ seen = [r \in Requests |-> seen[r]]
  /\ ReadsHold
  /\ RowsOfThePage
  /\ Panel!LiveIsFinished

LEMMA PageInit == Panel!Init => PageInv
BY DEF Panel!Init, PageInv, Tasks, ReadsHold, RowsOfThePage,
       Panel!LiveIsFinished, Panel!Live

LEMMA PageOpened ==
  ASSUME PageInv, NEW r \in Requests,
         NEW what \in Tasks, NEW read, Panel!Begin(r, what, read),
         what = "form" => read = sections,
         what = "plan" => read = published,
         what = "publish" => ~Panel!Live /\ read = Panel!Ready,
         what = "copy" => ~Panel!Live
  PROVE  PageInv'
<1>1. /\ doing' = [doing EXCEPT ![r] = what] /\ seen' = [seen EXCEPT ![r] = read]
      /\ late' = late \ {r}
      /\ UNCHANGED <<published, facts, available, sections, marked, overtaken, wasReady>>
  BY DEF Panel!Begin, Panel!rowVars
<1>2. doing' \in [Requests -> Tasks] /\ seen' = [q \in Requests |-> seen'[q]]
  BY <1>1 DEF PageInv
<1>3. doing'[r] = what /\ seen'[r] = read
      /\ \A q \in Requests \ {r} : doing'[q] = doing[q] /\ seen'[q] = seen[q]
  BY <1>1 DEF PageInv
<1>4. ReadsHold'
  BY <1>1, <1>3 DEF PageInv, ReadsHold, Panel!Live, Panel!Ready
<1>5. RowsOfThePage'
  BY <1>1, <1>3 DEF PageInv, RowsOfThePage, Panel!OwnRows
<1>6. Panel!LiveIsFinished'
  BY <1>1 DEF PageInv, Panel!LiveIsFinished, Panel!Live
<1>7. QED
  BY <1>2, <1>4, <1>5, <1>6 DEF PageInv

\* Who was in the middle of something is overtaken by a write of r.
LEMMA PageWritten ==
  ASSUME PageInv, NEW r \in Requests,
         NEW stale, Panel!Overtake(r, stale),
         Panel!Finish(r) \/ (doing[r] = "idle" /\ UNCHANGED <<doing, seen>>),
         sections \subseteq sections',
         marked' \subseteq Panel!OwnRows \cup sections',
         Panel!LiveIsFinished'
  PROVE  PageInv'
<1>1. doing' \in [Requests -> Tasks] /\ seen' = [q \in Requests |-> seen'[q]]
  BY DEF PageInv, Panel!Finish, Tasks
<1>2. doing'[r] = "idle"
      /\ \A q \in Requests \ {r} : doing'[q] = doing[q] /\ seen'[q] = seen[q]
  BY DEF PageInv, Panel!Finish
<1>3. ReadsHold'
  BY <1>2 DEF Panel!Overtake, ReadsHold
<1>4. RowsOfThePage'
  BY <1>2 DEF PageInv, RowsOfThePage
<1>5. QED
  BY <1>1, <1>3, <1>4 DEF PageInv

LEMMA PageRefused ==
  ASSUME PageInv, NEW r \in Requests, Panel!Refuse(r)
  PROVE  PageInv'
<1>1. /\ doing' = [doing EXCEPT ![r] = "idle"] /\ seen' = [seen EXCEPT ![r] = None]
      /\ UNCHANGED <<published, facts, available, sections, marked, late, overtaken, wasReady>>
  BY DEF Panel!Refuse, Panel!Finish, Panel!rowVars
<1>2. doing' \in [Requests -> Tasks] /\ seen' = [q \in Requests |-> seen'[q]]
  BY <1>1 DEF PageInv, Tasks
<1>3. doing'[r] = "idle"
      /\ \A q \in Requests \ {r} : doing'[q] = doing[q] /\ seen'[q] = seen[q]
  BY <1>1 DEF PageInv
<1>4. ReadsHold' /\ RowsOfThePage'
  BY <1>1, <1>3 DEF PageInv, ReadsHold, RowsOfThePage, Panel!Live, Panel!Ready,
     Panel!OwnRows
<1>5. Panel!LiveIsFinished'
  BY <1>1 DEF PageInv, Panel!LiveIsFinished, Panel!Live
<1>6. QED
  BY <1>2, <1>4, <1>5 DEF PageInv

LEMMA FormSaved ==
  ASSUME PageInv, NEW r \in Requests, Panel!SaveForm(r)
  PROVE  PageInv'
<1>1. PICK to \in Panel!Statuses, complete \in BOOLEAN, rowsToo \in BOOLEAN,
           added \in SUBSET (Sections \ sections) :
        LET shown == {"product"} \cup
                       IF rowsToo THEN {"plan"} \cup seen[r] \cup added ELSE {}
            unseen == IF rowsToo \/ Panel!Live THEN {} ELSE marked \ shown
        IN  /\ ~rowsToo => added = {}
            /\ \E blanks \in SUBSET shown, sale \in IF rowsToo THEN BOOLEAN ELSE {available} :
                 IF to = "active" /\ ~Panel!Allowed(Panel!Live, complete, sale, blanks \cup unseen)
                 THEN Panel!Refuse(r)
                 ELSE /\ published' = to
                      /\ facts' = complete
                      /\ available' = sale
                      /\ sections' = sections \cup added
                      /\ marked' = (marked \ shown) \cup blanks
                      /\ Panel!Overtake(r, rowsToo /\ seen[r] # sections)
                      /\ Panel!Finish(r)
  BY DEF Panel!SaveForm
<1> DEFINE shown == {"product"} \cup IF rowsToo THEN {"plan"} \cup seen[r] \cup added ELSE {}
           unseen == IF rowsToo \/ Panel!Live THEN {} ELSE marked \ shown
<1>2. PICK blanks \in SUBSET shown, sale \in IF rowsToo THEN BOOLEAN ELSE {available} :
        IF to = "active" /\ ~Panel!Allowed(Panel!Live, complete, sale, blanks \cup unseen)
        THEN Panel!Refuse(r)
        ELSE /\ published' = to
             /\ facts' = complete
             /\ available' = sale
             /\ sections' = sections \cup added
             /\ marked' = (marked \ shown) \cup blanks
             /\ Panel!Overtake(r, rowsToo /\ seen[r] # sections)
             /\ Panel!Finish(r)
  BY <1>1
<1>3. doing[r] = "form" /\ seen[r] \subseteq sections
      /\ marked \subseteq Panel!OwnRows \cup sections
  BY DEF Panel!SaveForm, PageInv, RowsOfThePage
<1>4. CASE ~Panel!Refuse(r)
  <2>1. /\ to = "active" => Panel!Allowed(Panel!Live, complete, sale, blanks \cup unseen)
        /\ published' = to /\ facts' = complete /\ available' = sale
        /\ sections' = sections \cup added /\ marked' = (marked \ shown) \cup blanks
        /\ Panel!Overtake(r, rowsToo /\ seen[r] # sections)
        /\ Panel!Finish(r)
    BY <1>2, <1>4
  <2>2. shown \subseteq Panel!OwnRows \cup sections'
    BY <1>3, <2>1 DEF Panel!OwnRows
  <2>3. sections \subseteq sections' /\ marked' \subseteq Panel!OwnRows \cup sections'
    BY <1>3, <2>1, <2>2
  <2>4. ASSUME Panel!Live', ~overtaken'
        PROVE  marked' = {} /\ wasReady'
    <3>1. to = "active" /\ ~overtaken /\ ~(rowsToo /\ seen[r] # sections)
          /\ blanks = {} /\ unseen = {} /\ (Panel!Live \/ (complete /\ sale))
      BY <2>1, <2>4 DEF Panel!Live, Panel!Overtake, Panel!Allowed
    <3>2. marked \ shown = {}
      BY <1>3, <3>1 DEF PageInv, Panel!LiveIsFinished, Panel!OwnRows
    <3>3. wasReady'
      BY <2>1, <3>1 DEF PageInv, Panel!LiveIsFinished, Panel!Live, Panel!Overtake
    <3>4. QED
      BY <2>1, <3>1, <3>2, <3>3
  <2>5. Panel!LiveIsFinished'
    BY <2>4 DEF Panel!LiveIsFinished
  <2>6. QED
    BY <2>1, <2>3, <2>5, PageWritten
<1>5. QED
  BY <1>4, PageRefused

LEMMA PlanSaved ==
  ASSUME PageInv, NEW r \in Requests, Panel!SavePlan(r)
  PROVE  PageInv'
<1>1. PICK blank \in BOOLEAN, sale \in BOOLEAN :
        IF ~Panel!PlanAllowed(seen[r], blank)
        THEN Panel!Refuse(r)
        ELSE /\ marked' = (marked \ {"plan"}) \cup (IF blank THEN {"plan"} ELSE {})
             /\ available' = sale
             /\ UNCHANGED <<published, facts, sections>>
             /\ Panel!Overtake(r, r \in late)
             /\ Panel!Finish(r)
  BY DEF Panel!SavePlan
<1>2. CASE ~Panel!Refuse(r)
  <2>1. /\ seen[r] = "active" => ~blank
        /\ marked' = (marked \ {"plan"}) \cup (IF blank THEN {"plan"} ELSE {})
        /\ UNCHANGED <<published, facts, sections>>
        /\ Panel!Overtake(r, r \in late) /\ Panel!Finish(r)
    BY <1>1, <1>2 DEF Panel!PlanAllowed
  <2>2. sections \subseteq sections' /\ marked' \subseteq Panel!OwnRows \cup sections'
    BY <2>1 DEF PageInv, RowsOfThePage, Panel!OwnRows
  <2>3. ASSUME Panel!Live', ~overtaken'
        PROVE  marked' = {} /\ wasReady'
    <3>1. r \notin late /\ ~overtaken /\ Panel!Live
      BY <2>1, <2>3 DEF Panel!Overtake, Panel!Live
    <3>2. seen[r] = "active"
      BY <3>1 DEF PageInv, ReadsHold, Panel!SavePlan, Panel!Live
    <3>3. marked = {} /\ wasReady
      BY <3>1 DEF PageInv, Panel!LiveIsFinished
    <3>4. QED
      BY <2>1, <2>3, <3>1, <3>2, <3>3 DEF Panel!Overtake, Panel!Live
  <2>4. Panel!LiveIsFinished'
    BY <2>3 DEF Panel!LiveIsFinished
  <2>5. QED
    BY <2>1, <2>2, <2>4, PageWritten
<1>3. QED
  BY <1>2, PageRefused

LEMMA Published ==
  ASSUME PageInv, NEW r \in Requests, Panel!Publish(r)
  PROVE  PageInv'
<1>1. CASE ~Panel!Refuse(r)
  <2>1. /\ doing[r] = "publish" /\ seen[r] /\ ~Panel!Live
        /\ published' = "active"
        /\ UNCHANGED <<facts, available, sections, marked>>
        /\ Panel!Overtake(r, r \in late) /\ Panel!Finish(r)
    BY <1>1 DEF Panel!Publish, Panel!rowVars
  <2>2. ASSUME ~overtaken' PROVE marked' = {} /\ wasReady'
    <3>1. r \notin late
      BY <2>1, <2>2 DEF Panel!Overtake
    <3>2. Panel!Ready
      BY <2>1, <3>1 DEF PageInv, ReadsHold
    <3>3. QED
      BY <2>1, <3>2 DEF Panel!Overtake, Panel!Ready, Panel!Live
  <2>3. QED
    BY <2>1, <2>2, PageWritten DEF Panel!LiveIsFinished, PageInv, RowsOfThePage,
       Panel!OwnRows
<1>2. QED
  BY <1>1, PageRefused

LEMMA SectionsCopied ==
  ASSUME PageInv, NEW r \in Requests, Panel!CopySections(r)
  PROVE  PageInv'
<1>1. PICK copies \in SUBSET (Sections \ sections) :
        /\ sections' = sections \cup copies
        /\ \E blanks \in SUBSET copies : marked' = marked \cup blanks
  BY DEF Panel!CopySections
<1>2. /\ doing[r] = "copy" /\ UNCHANGED <<published, facts, available>>
      /\ Panel!Overtake(r, r \in late) /\ Panel!Finish(r)
  BY DEF Panel!CopySections
<1>3. sections \subseteq sections' /\ marked' \subseteq Panel!OwnRows \cup sections'
  BY <1>1 DEF PageInv, RowsOfThePage, Panel!OwnRows
<1>4. Panel!LiveIsFinished'
  <2>1. SUFFICES ASSUME Panel!Live', ~overtaken' PROVE FALSE
    BY DEF Panel!LiveIsFinished
  <2>2. Panel!Live /\ r \notin late
    BY <1>2, <2>1 DEF Panel!Overtake, Panel!Live
  <2>3. QED
    BY <1>2, <2>2 DEF PageInv, ReadsHold
<1>5. QED
  BY <1>2, <1>3, <1>4, PageWritten

LEMMA PageStep == PageInv /\ [Panel!Next]_panelVars => PageInv'
<1> SUFFICES ASSUME PageInv, [Panel!Next]_panelVars PROVE PageInv'
  OBVIOUS
<1>1. ASSUME NEW r \in Requests,
             Panel!OpenForm(r) \/ Panel!ReadPlan(r) \/ Panel!ReadProblems(r)
               \/ Panel!ReadTarget(r)
      PROVE  PageInv'
  <2>1. CASE Panel!OpenForm(r)
    BY <2>1, PageOpened DEF Panel!OpenForm, Tasks
  <2>2. CASE Panel!ReadPlan(r)
    BY <2>2, PageOpened DEF Panel!ReadPlan, Tasks
  <2>3. CASE Panel!ReadProblems(r)
    BY <2>3, PageOpened DEF Panel!ReadProblems, Tasks
  <2>4. CASE Panel!ReadTarget(r)
    BY <2>4, PageOpened DEF Panel!ReadTarget, Tasks
  <2>5. QED
    BY <1>1, <2>1, <2>2, <2>3, <2>4
<1>2. ASSUME NEW r \in Requests, Panel!Unpublish(r) PROVE PageInv'
  <2>1. /\ doing[r] = "idle" /\ published' = "draft"
        /\ UNCHANGED <<facts, available, sections, marked, doing, seen>>
        /\ Panel!Overtake(r, FALSE)
    BY <1>2 DEF Panel!Unpublish, Panel!rowVars
  <2>2. Panel!LiveIsFinished'
    BY <2>1 DEF Panel!LiveIsFinished, Panel!Live
  <2>3. QED
    BY <2>1, <2>2, PageWritten DEF PageInv, RowsOfThePage, Panel!OwnRows
<1>3. CASE Panel!GoStale
  BY <1>3 DEF Panel!GoStale, PageInv, ReadsHold, RowsOfThePage,
              Panel!LiveIsFinished, Panel!Live, Panel!OwnRows
<1>4. CASE UNCHANGED panelVars
  BY <1>4 DEF panelVars, PageInv, ReadsHold, RowsOfThePage,
              Panel!LiveIsFinished, Panel!Live, Panel!Ready, Panel!OwnRows
<1>5. QED
  BY <1>1, <1>2, <1>3, <1>4, FormSaved, PlanSaved, Published, SectionsCopied DEF Panel!Next

\* A live page is finished, however many operators work on it, and however many
\* sections it has, unless a write was overtaken (Product.clean, publish).
THEOREM LivePagesAreFinished == PagesSpec => []LiveIsFinished
<1>1. PagesInit => PageInv
  BY PageInit DEF PagesInit
<1>2. PageInv /\ [PagesNext]_<<vars, panelVars>> => PageInv'
  BY PageStep DEF PagesNext
<1>3. PageInv => LiveIsFinished
  BY DEF PageInv, LiveIsFinished
<1>4. QED
  BY <1>1, <1>2, <1>3, PTL DEF PagesSpec

=============================================================================
