-------------------------------- MODULE MCOtp --------------------------------
(***************************************************************************)
(* A small instance of AccountCache for TLC.                               *)
(***************************************************************************)
EXTENDS AccountCache, TLC

\* Codes and requests are interchangeable in every action and invariant.
OtpSymmetry == Permutations(Issuances) \cup Permutations(Requests)

=============================================================================
