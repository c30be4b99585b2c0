----------------------------- MODULE Publication -----------------------------
(***************************************************************************)
(* When a product may go live and what may change while it is              *)
(* (apps/catalog/models.py and admin.py): the product's form, the plan's   *)
(* own form and the list's actions, from the pages of several operators.   *)
(*                                                                         *)
(* A row of the product's page either holds an owner's placeholder or does *)
(* not; the other facts publishing needs are complete or not.  Both forms  *)
(* lock the product's row before they check and save, so each is one step  *)
(* but for what it read before: the rows the product's page showed, and    *)
(* the status the plan's form took from its product field.  The actions of *)
(* the list read first and write later, without a lock.  An action's reads *)
(* are one step: what comes between them overtakes it like what follows.   *)
(***************************************************************************)
EXTENDS FiniteSets

CONSTANTS
  Requests,   \* pages of the operators
  Sections,   \* section rows that can be added
  None        \* nothing read

VARIABLES
  status,     \* Product.status
  facts,      \* fact_problems() is empty
  available,  \* the product's plan is available
  sections,   \* section rows of the product
  marked,     \* rows that hold a placeholder
  doing,      \* what each request is doing
  seen,       \* what each request read when it began
  late,       \* requests overtaken by another's write (history)
  overtaken,  \* the page is live by a write that had been overtaken (history)
  wasReady    \* facts and plan were in order when it went live (history)

rowVars == <<facts, available, sections, marked>>
vars == <<status, rowVars, doing, seen, late, overtaken, wasReady>>

Statuses == {"draft", "active", "unavailable"}
OwnRows == {"product", "plan"}
Live == status = "active"

-----------------------------------------------------------------------------

Begin(r, what, read) ==
  /\ doing[r] = "idle"
  /\ doing' = [doing EXCEPT ![r] = what]
  /\ seen' = [seen EXCEPT ![r] = read]
  /\ late' = late \ {r}
  /\ UNCHANGED <<status, rowVars, overtaken, wasReady>>

Finish(r) ==
  /\ doing' = [doing EXCEPT ![r] = "idle"]
  /\ seen' = [seen EXCEPT ![r] = None]

\* r is answered and has changed nothing.
Refuse(r) == Finish(r) /\ UNCHANGED <<status, rowVars, late, overtaken, wasReady>>

\* r writes: everyone in the middle of something is overtaken.
Overtake(r, stale) ==
  /\ late' = {s \in Requests : doing[s] # "idle"} \ {r}
  /\ overtaken' = (status' = "active" /\ (overtaken \/ stale))
  /\ wasReady' = IF Live /\ status' = "active" THEN wasReady ELSE facts' /\ available'

-----------------------------------------------------------------------------
(* The product's form *)

OpenForm(r) == Begin(r, "form", sections)

\* Mutant: the form of a live product is held to the whole rule or to nothing.
AllowedNewlyLive(live, complete, sale, rows) == live \/ (complete /\ sale /\ rows = {})

\* Product.clean and the row formsets: a product that goes live needs its facts,
\* a plan on sale and no placeholder, one that is live no placeholder.
Allowed(live, complete, sale, rows) == rows = {} /\ (live \/ (complete /\ sale))

\* The operator may change the rows under the product, or only look at them:
\* then they are asked as stored, and their placeholders only on going live.
SaveForm(r) ==
  /\ doing[r] = "form"
  /\ \E to \in Statuses, complete, rowsToo \in BOOLEAN, added \in SUBSET (Sections \ sections) :
       LET shown == {"product"} \cup
                      IF rowsToo THEN {"plan"} \cup seen[r] \cup added ELSE {}
           unseen == IF rowsToo \/ Live THEN {} ELSE marked \ shown
       IN  /\ ~rowsToo => added = {}
           /\ \E blanks \in SUBSET shown, sale \in IF rowsToo THEN BOOLEAN ELSE {available} :
                IF to = "active" /\ ~Allowed(Live, complete, sale, blanks \cup unseen)
                THEN Refuse(r)
                ELSE /\ status' = to
                     /\ facts' = complete
                     /\ available' = sale
                     /\ sections' = sections \cup added
                     /\ marked' = (marked \ shown) \cup blanks
                     /\ Overtake(r, rowsToo /\ seen[r] # sections)
                     /\ Finish(r)

-----------------------------------------------------------------------------
(* The plan's own form *)

\* PageRow.clean
PlanAllowed(stored, blank) == stored = "active" => ~blank

\* The product field is read before PlanForm.clean locks the product.
ReadPlan(r) == Begin(r, "plan", status)

SavePlan(r) ==
  /\ doing[r] = "plan"
  /\ \E blank, sale \in BOOLEAN :
       IF ~PlanAllowed(seen[r], blank)
       THEN Refuse(r)
       ELSE /\ marked' = (marked \ {"plan"}) \cup (IF blank THEN {"plan"} ELSE {})
            /\ available' = sale
            /\ UNCHANGED <<status, facts, sections>>
            /\ Overtake(r, r \in late)
            /\ Finish(r)

-----------------------------------------------------------------------------
(* The actions of the product list *)

\* publish_problems() is empty.
Ready == facts /\ available /\ marked = {}

ReadProblems(r) == ~Live /\ Begin(r, "publish", Ready)

\* _set_status
Publish(r) ==
  /\ doing[r] = "publish"
  /\ IF ~seen[r] \/ Live
     THEN Refuse(r)
     ELSE /\ status' = "active"
          /\ UNCHANGED rowVars
          /\ Overtake(r, r \in late)
          /\ Finish(r)

Unpublish(r) ==
  /\ doing[r] = "idle" /\ status # "draft"
  /\ status' = "draft"
  /\ UNCHANGED <<rowVars, doing, seen>>
  /\ Overtake(r, FALSE)

\* copy_sections, never onto a live product: rows of another product, whose
\* placeholders come with them.
ReadTarget(r) == ~Live /\ Begin(r, "copy", None)

CopySections(r) ==
  /\ doing[r] = "copy"
  /\ \E copies \in SUBSET (Sections \ sections) :
       /\ sections' = sections \cup copies
       /\ \E blanks \in SUBSET copies : marked' = marked \cup blanks
  /\ UNCHANGED <<status, facts, available>>
  /\ Overtake(r, r \in late)
  /\ Finish(r)

\* The facts of a time-sensitive product were checked too long ago.
GoStale ==
  /\ facts
  /\ facts' = FALSE
  /\ late' = {s \in Requests : doing[s] # "idle"}
  /\ UNCHANGED <<status, available, sections, marked, doing, seen, overtaken, wasReady>>

-----------------------------------------------------------------------------

Init ==
  /\ status = "draft"
  /\ facts = FALSE
  /\ available = TRUE
  /\ sections = {}
  /\ marked = {}
  /\ doing = [r \in Requests |-> "idle"]
  /\ seen = [r \in Requests |-> None]
  /\ late = {}
  /\ overtaken = FALSE
  /\ wasReady = FALSE

Next ==
  \/ \E r \in Requests :
       \/ OpenForm(r) \/ SaveForm(r)
       \/ ReadPlan(r) \/ SavePlan(r)
       \/ ReadProblems(r) \/ Publish(r) \/ Unpublish(r)
       \/ ReadTarget(r) \/ CopySections(r)
  \/ GoStale

Spec == Init /\ [][Next]_vars

-----------------------------------------------------------------------------
(* Property *)

\* A live page holds no placeholder, and went live with its facts complete and
\* a plan on sale, whichever of the operators' pages wrote it last and however
\* old they were; unless an action or the plan's form was overtaken between what
\* it read and what it wrote, or a form brought it live that did not show a
\* section added since.
LiveIsFinished == Live /\ ~overtaken => marked = {} /\ wasReady

=============================================================================
