---------------------------- MODULE MCInputWait ----------------------------
(***************************************************************************)
(* A small instance of PanelPages for TLC.                                 *)
(***************************************************************************)
EXTENDS PanelPages

=============================================================================
