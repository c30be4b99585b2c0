----------------------------- MODULE MCMailQuota -----------------------------
(* A small instance of MailQuota for TLC. *)
EXTENDS MailQuota, TLC

\* Sends of the same kind are interchangeable.
SendSymmetry == Permutations(Protected) \cup Permutations(Sends \ Protected)

\* The months of the small instance begin at 0 and at 3.  With a day of two
\* units, a row of time 0 has left the day but not the month at time 2, and a
\* row of time 2 has left the month but not the day at time 3.
TwoMonths == {0, 3}

=============================================================================
