----------------------------- MODULE PanelPages -----------------------------
(***************************************************************************)
(* The operators' pages of an item that waits for input (InputWait) and of *)
(* a product (Publication).  What a page may do to one and to the other    *)
(* shares no state: instead of every combination of their states, each     *)
(* moves while the other stands at its initial state.                      *)
(***************************************************************************)
EXTENDS InputWait

CONSTANTS Requests, Sections
VARIABLES published, facts, available, sections, marked, doing, seen, late, overtaken, wasReady

Panel == INSTANCE Publication WITH status <- published
panelVars ==
  <<published, facts, available, sections, marked, doing, seen, late, overtaken, wasReady>>

PagesInit == Init /\ Panel!Init

PagesNext ==
  \/ Next /\ Panel!Init /\ UNCHANGED panelVars
  \/ Panel!Next /\ Init /\ kind = "plain" /\ hours = 1 /\ UNCHANGED vars

PagesSpec == PagesInit /\ [][PagesNext]_<<vars, panelVars>>

\* A live product's page is finished, unless a write was overtaken (Publication).
LiveIsFinished == Panel!LiveIsFinished

=============================================================================
