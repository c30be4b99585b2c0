--------------------------- MODULE DeliveryPromise ---------------------------
(***************************************************************************)
(* What a customer is promised of one paid item, with no events, pages or  *)
(* timestamps: a stopwatch.  It starts when payment and details are there, *)
(* with the time until support is first open once the hours bought have    *)
(* passed, or with the longest delivery sold if that is sooner.  It stands *)
(* still while the customer is asked again, and never otherwise.           *)
(* InputWait implements this specification.                                *)
(***************************************************************************)
EXTENDS Integers

CONSTANTS
  Day, Opens, Closes,  \* support is open from unit Opens to before unit Closes of a day
  Cap,                 \* the longest delivery that is sold
  None                 \* nothing on the stopwatch

VARIABLES
  hours,   \* the hours bought
  phase,   \* "waiting", "running" or "paused"
  left,    \* what is on the stopwatch
  now

Open(t) == t % Day \in Opens..Closes - 1

\* The first moment at or after the hours bought at which support is open, or
\* the longest delivery if that comes first.
Promised(start, bought) ==
  CHOOSE t \in start..start + Cap :
    /\ t = start + Cap \/ (t >= start + bought /\ Open(t))
    /\ \A s \in start + bought..t - 1 : ~Open(s)

Start ==
  /\ phase = "waiting" /\ phase' = "running"
  /\ left' = Promised(now, hours) - now
  /\ UNCHANGED <<hours, now>>

Pause ==
  /\ phase = "running" /\ phase' = "paused"
  /\ UNCHANGED <<hours, left, now>>

Resume ==
  /\ phase = "paused" /\ phase' = "running"
  /\ UNCHANGED <<hours, left, now>>

Tick ==
  /\ now' = now + 1
  /\ left' = IF phase = "running" THEN left - 1 ELSE left
  /\ UNCHANGED <<hours, phase>>

Init ==
  /\ hours \in 1..Cap
  /\ phase = "waiting"
  /\ left = None
  /\ now = 0

Spec == Init /\ [][Start \/ Pause \/ Resume \/ Tick]_<<hours, phase, left, now>>

=============================================================================
