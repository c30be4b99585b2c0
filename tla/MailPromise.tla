----------------------------- MODULE MailPromise -----------------------------
(***************************************************************************)
(* What the outbox promises of each message, with no workers, locks, waits *)
(* or crashes: while a row is pending the relay may take its mail, and a   *)
(* try either succeeds, which needs a mail the relay took, or fails, which *)
(* ends in giving up exactly at the last try.  A row that was sent or given *)
(* up never changes again and no further mail of it goes out.              *)
(* Confirmations implements this specification.                            *)
(***************************************************************************)
EXTENDS Naturals

CONSTANTS Messages, MaxTries

VARIABLES
  row,     \* "absent", "pending", "sent" or "failed"
  tries,   \* finished tries
  mails    \* mails the relay took

Freeze(m) ==
  /\ row[m] = "absent"
  /\ row' = [row EXCEPT ![m] = "pending"]
  /\ UNCHANGED <<tries, mails>>

Take(m) ==
  /\ row[m] = "pending"
  /\ mails' = [mails EXCEPT ![m] = @ + 1]
  /\ UNCHANGED <<row, tries>>

Succeed(m) ==
  /\ row[m] = "pending" /\ mails[m] > 0
  /\ row' = [row EXCEPT ![m] = "sent"]
  /\ tries' = [tries EXCEPT ![m] = @ + 1]
  /\ UNCHANGED mails

Fail(m) ==
  /\ row[m] = "pending"
  /\ tries' = [tries EXCEPT ![m] = @ + 1]
  /\ row' = [row EXCEPT ![m] = IF tries[m] + 1 = MaxTries THEN "failed" ELSE @]
  /\ UNCHANGED mails

Init ==
  /\ row = [m \in Messages |-> "absent"]
  /\ tries = [m \in Messages |-> 0]
  /\ mails = [m \in Messages |-> 0]

Next == \E m \in Messages : Freeze(m) \/ Take(m) \/ Succeed(m) \/ Fail(m)

Spec == Init /\ [][Next]_<<row, tries, mails>>

=============================================================================
