------------------------------ MODULE MCDeploy ------------------------------
(* A small instance of Deploy for TLC. *)
EXTENDS Deploy, TLC

\* Each release drops what only images two or more before it read.
DropsAfterTwo == {<<i, j>> \in Releases \X Releases : j >= i + 2}

KeySymmetry == Permutations(Keys)

=============================================================================
