----------------------------- MODULE InputWait -----------------------------
(***************************************************************************)
(* One paid item waiting for its customer's details: request_input,        *)
(* receive_input and resume_input, the delivery deadline they start, pause *)
(* and move, and the pages that decide on what they last saw.              *)
(*                                                                         *)
(* Each service locks the buyer, the order and the item, so it is one      *)
(* action; what interleaves is the pages.  A page carries the id of the    *)
(* item's latest event when it was loaded and posts it back, once, twice   *)
(* or much later (expected_event_id).  Event ids are positions in the      *)
(* item's own history, 0 being the event of its placement; the database    *)
(* numbers the events of all items together.                               *)
(***************************************************************************)
EXTENDS DeliveryClock, Sequences

CONSTANTS
  Pages,      \* open pages of the operators and of the customer
  MaxTime,    \* bound on the clock
  MaxEvents   \* bound on the item's history

ASSUME BoundsAreNat == MaxTime \in Nat /\ MaxEvents \in Nat

VARIABLES
  kind,        \* product_snapshot: "plain", "input" (given at checkout) or "telegram"
  hours,       \* product_snapshot["delivery_hours"]
  status,      \* OrderItem.status
  paidAt, receivedAt, requestedAt,
  dueAt,       \* OrderItem.due_at
  pausedAt,    \* OrderItem.sla_paused_at
  events,      \* OrderItemEvent rows with the event their page showed
  page,        \* the expected_event_id each page carries
  now

itemVars == <<status, paidAt, receivedAt, requestedAt, dueAt, pausedAt, events>>
vars == <<kind, hours, itemVars, page, now>>

Times == 0..MaxTime
Statuses == {"PENDING_PAYMENT", "QUEUED", "AWAITING_INPUT"}
Events == [from : Statuses, to : Statuses, at : Times, seen : Nat]

\* Every variable keeps its type.
TypeOK ==
  /\ kind \in {"plain", "input", "telegram"}
  /\ hours \in 1..Cap
  /\ status \in Statuses
  /\ paidAt \in Times \cup {None}
  /\ receivedAt \in Times \cup {None}
  /\ requestedAt \in Times \cup {None}
  /\ dueAt \in Int \cup {None}
  /\ pausedAt \in Times \cup {None}
  /\ events \in Seq(Events)
  /\ page \in [Pages -> Nat]
  /\ now \in Times

\* Mutant: a Telegram account is not taken for input.
ClockRequiresFormInput == kind = "input"

\* OrderItem.clock_requires_input
ClockRequiresInput == kind # "plain"
Latest == Len(events)

-----------------------------------------------------------------------------
(* The services *)

\* mark_order_paid on this item: queued with its deadline, and a Telegram item
\* handed on at once to wait for the account (request_input on that event).
MarkOrderPaid ==
  LET due == DeliveryDeadline(now, hours, ClockRequiresInput, receivedAt)
      paid == [from |-> "PENDING_PAYMENT", to |-> "QUEUED", at |-> now, seen |-> Latest]
      asked == [from |-> "QUEUED", to |-> "AWAITING_INPUT", at |-> now, seen |-> Latest + 1]
  IN /\ status = "PENDING_PAYMENT"
     /\ paidAt' = now
     /\ dueAt' = due
     /\ IF kind = "telegram"
        THEN /\ status' = "AWAITING_INPUT"
             /\ requestedAt' = now
             /\ pausedAt' = (IF due = None THEN None ELSE now)
             /\ events' = events \o <<paid, asked>>
        ELSE /\ status' = "QUEUED"
             /\ events' = Append(events, paid)
             /\ UNCHANGED <<requestedAt, pausedAt>>
     /\ UNCHANGED <<kind, hours, receivedAt, page, now>>

\* Mutant: the page's event is not compared with the latest.
CurrentUnchecked(c) == page[c] <= Latest

\* _input_replay: the page is current.  A page one event behind whose very
\* change was already made is answered as a repeat, and any other is refused;
\* neither changes anything.
Current(c) == page[c] = Latest

InputEvent(c, from, to) ==
  /\ Latest < MaxEvents
  /\ status' = to
  /\ events' = Append(events, [from |-> from, to |-> to, at |-> now, seen |-> page[c]])

RequestInput(c) ==
  /\ Current(c)
  /\ status = "QUEUED" /\ paidAt # None
  /\ requestedAt' = now
  /\ pausedAt' = (IF dueAt = None THEN None ELSE now)
  /\ InputEvent(c, "QUEUED", "AWAITING_INPUT")
  /\ UNCHANGED <<kind, hours, paidAt, receivedAt, dueAt, page, now>>

\* The first wait ends: the clock starts now.
ReceiveInput(c) ==
  /\ Current(c)
  /\ status = "AWAITING_INPUT" /\ paidAt # None
  /\ dueAt = None
  /\ receivedAt' = now
  /\ dueAt' = DeliveryDeadline(paidAt, hours, ClockRequiresInput, now)
  /\ pausedAt' = None
  /\ InputEvent(c, "AWAITING_INPUT", "QUEUED")
  /\ UNCHANGED <<kind, hours, paidAt, requestedAt, page, now>>

\* A later wait ends: the deadline moves by the time spent waiting.
ResumeInput(c) ==
  /\ Current(c)
  /\ status = "AWAITING_INPUT" /\ paidAt # None
  /\ dueAt # None /\ pausedAt # None
  /\ dueAt' = dueAt + (now - pausedAt)
  /\ pausedAt' = None
  /\ InputEvent(c, "AWAITING_INPUT", "QUEUED")
  /\ UNCHANGED <<kind, hours, paidAt, receivedAt, requestedAt, page, now>>

-----------------------------------------------------------------------------
(* Pages and time *)

LoadPage(c) ==
  /\ page[c] # Latest
  /\ page' = [page EXCEPT ![c] = Latest]
  /\ UNCHANGED <<kind, hours, itemVars, now>>

Tick ==
  /\ now < MaxTime
  /\ now' = now + 1
  /\ UNCHANGED <<kind, hours, itemVars, page>>

\* An item just placed; its checkout took the input of an "input" item.
Init ==
  /\ kind \in {"plain", "input", "telegram"}
  /\ hours \in 1..Cap
  /\ status = "PENDING_PAYMENT"
  /\ paidAt = None
  /\ receivedAt = (IF kind = "input" THEN 0 ELSE None)
  /\ requestedAt = None
  /\ dueAt = None
  /\ pausedAt = None
  /\ events = <<>>
  /\ page = [c \in Pages |-> 0]
  /\ now = 0

Next ==
  \/ MarkOrderPaid
  \/ \E c \in Pages : RequestInput(c)
  \/ \E c \in Pages : ReceiveInput(c)
  \/ \E c \in Pages : ResumeInput(c)
  \/ \E c \in Pages : LoadPage(c)
  \/ Tick

Spec == Init /\ [][Next]_vars

-----------------------------------------------------------------------------
(* Properties *)

\* A wait for the customer is either the first one, with no deadline yet, or
\* a pause of a running deadline, never both and never neither; a queued item
\* always has a deadline and no pause, in every order of paying, asking,
\* receiving and resuming.
ClockMatchesStatus ==
  /\ status = "PENDING_PAYMENT" => paidAt = None /\ dueAt = None /\ pausedAt = None
  /\ status = "QUEUED" => paidAt # None /\ dueAt # None /\ pausedAt = None
  /\ status = "AWAITING_INPUT" => paidAt # None /\ (dueAt = None <=> pausedAt = None)

\* Every change was decided on a page that showed the event before it: a
\* repeated post, or a page from an earlier wait, never opens or closes a
\* later one, even when the status it saw has come back.
DecidedOnLatest == \A n \in 1..Latest : events[n].seen = n - 1

\* The deadline keeps the promise of a stopwatch: it starts once, at the moment
\* promised, and exactly the time spent in later waits is given back, however
\* often and from whatever pages they are begun and ended.
Clock == IF dueAt = None THEN "waiting" ELSE IF pausedAt = None THEN "running" ELSE "paused"
TimeLeft == IF dueAt = None THEN None ELSE dueAt - (IF pausedAt = None THEN now ELSE pausedAt)

Promise == INSTANCE DeliveryPromise WITH phase <- Clock, left <- TimeLeft

KeepsPromise == Promise!Spec

=============================================================================
