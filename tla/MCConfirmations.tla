--------------------------- MODULE MCConfirmations ---------------------------
(* A small instance of Confirmations for TLC. *)
EXTENDS Confirmations

\* A pause for the quota ends before the only retry is due.
OneDelay == <<2>>

=============================================================================
