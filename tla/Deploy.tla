-------------------------------- MODULE Deploy -------------------------------
(***************************************************************************)
(* scripts/deploy.py: the commands deploy, rollback, restore and backup on *)
(* one server.  Each external program a command runs is a step, may fail,  *)
(* and the command may be interrupted between two of them.                 *)
(*                                                                         *)
(* Releases are numbered in the order of main; release i brings the        *)
(* migrations up to schema i.  What a migration does to an older image is  *)
(* a constant, Breaks.                                                     *)
(*                                                                         *)
(* The Start... actions have the guards of the script.  What the script    *)
(* leaves to its operator stands apart, in the ...ByTheBook actions of     *)
(* Next: the runbooks (docs/runbooks/) give a rule on migrations           *)
(* (Survivable) and which image a restore runs (Restorable), and restore   *)
(* in an order of steps that leaves no room for another command while the  *)
(* database is missing (restoring).                                        *)
(***************************************************************************)
EXTENDS Integers

CONSTANTS
  MaxRelease,  \* number of releases
  Breaks,      \* <<i, j>>: the migrations of release j stop image i working
  Keys,        \* field-encryption keys
  None

Releases == 1..MaxRelease

ASSUME MaxReleaseIsNat == MaxRelease \in Nat
ASSUME BreaksLater ==
  /\ Breaks \subseteq Releases \X Releases
  /\ \A b \in Breaks : b[1] < b[2]
ASSUME NoneIsNoRelease == None \notin Releases

VARIABLES
  current, previous,  \* the state file
  web, worker,        \* the image each container runs; None while it is down
  schema,             \* the last release whose migrations are applied; 0: no table
  sealed,             \* the keys stored values are encrypted with
  env,                \* FIELD_ENCRYPTION_KEY and its fallbacks
  dump,               \* a backup the operator kept
  restoring,          \* the database was removed and no restore has succeeded
  op,                 \* the command that runs
  report,             \* what the last command ended with
  passed              \* images that have passed the health check (history)

file == <<current, previous>>
stack == <<web, worker>>
database == <<schema, sealed>>
server == <<env, dump, restoring>>
vars == <<file, stack, database, server, op, report, passed>>

Images == Releases \cup {None}
Larger(m, n) == IF m >= n THEN m ELSE n
Configured == {env.active} \cup env.retired
Environments == {e \in [active : Keys, retired : SUBSET Keys] : e.active \notin e.retired}
Recorded == {current, previous} \ {None}

Steps == {"backup", "migrate", "load", "verify", "switch", "check",
          "return", "checkReturn", "write"}
Commands == [command : {"deploy", "rollback", "restore"}, step : Steps,
             image : Releases, back : Images]
Idle == [command |-> "none"]
Reports == [kind : {"running", "back"}, image : Releases] \cup {[kind |-> "none"]}
Silent == [kind |-> "none"]

\* Every variable keeps its type.
TypeOK ==
  /\ current \in Images /\ previous \in Images
  /\ web \in Images /\ worker \in Images
  /\ schema \in 0..MaxRelease
  /\ sealed \subseteq Keys
  /\ env \in Environments
  /\ dump \in [schema : 0..MaxRelease, sealed : SUBSET Keys]
  /\ restoring \in BOOLEAN
  /\ op \in Commands \cup {Idle}
  /\ report \in Reports
  /\ passed \subseteq Releases

\* Image i has every table and column it uses on schema m.
Works(i, m) == i <= m /\ \A b \in Breaks : b[1] = i => b[2] > m

-----------------------------------------------------------------------------
(* How a command goes on, and how it ends. *)

At(command, step) == op.command = command /\ op.step = step
During(step) == op # Idle /\ op.step = step
Begin(command, step, image, back) ==
  /\ op = Idle             \* the file lock
  /\ op' = [command |-> command, step |-> step, image |-> image, back |-> back]
  /\ report' = Silent
GoTo(step) == op' = [op EXCEPT !.step = step] /\ UNCHANGED report
End(outcome) == op' = Idle /\ report' = outcome
Ended(kind) == [kind |-> kind, image |-> op.image]

\* A program exits with an error before it changed anything, or a guard of the
\* command refuses; or the operator's terminal closes, at any step.
Stop ==
  /\ op # Idle
  /\ End(Silent)
  /\ UNCHANGED <<file, stack, database, server, passed>>

-----------------------------------------------------------------------------
(* deploy *)

StartDeploy(i) ==
  /\ i # current
  /\ Begin("deploy", "backup", i, current)
  /\ UNCHANGED <<file, stack, database, server, passed>>

\* A checked archive in the backup directory, which the operator may keep.
KeepBackup ==
  /\ dump' \in {dump, [schema |-> schema, sealed |-> sealed]}
  /\ UNCHANGED <<env, restoring>>

Backup ==
  /\ At("deploy", "backup")
  /\ KeepBackup
  /\ GoTo("migrate")
  /\ UNCHANGED <<file, stack, database, passed>>

Migrate ==
  /\ During("migrate")
  /\ schema' = Larger(schema, op.image)
  /\ GoTo(IF op.command = "restore" THEN "verify" ELSE "switch")
  /\ UNCHANGED <<file, stack, sealed, server, passed>>

\* A migration fails after others have been applied.
MigrateFails ==
  /\ During("migrate")
  /\ schema' \in schema..Larger(schema, op.image)
  /\ End(Silent)
  /\ UNCHANGED <<file, stack, sealed, server, passed>>

-----------------------------------------------------------------------------
(* switch_or_return *)

\* What follows an image that did not come up.
\* (Mutants of FailedSwitch: the check goes on after a failed "compose up", and
\* the file is written for an unhealthy image.)
GiveUpOrReturn ==
  IF op.back = None THEN End(Silent) ELSE GoTo("return")
CheckAnyway == GoTo("check")
RecordAnyway == GoTo("write")
FailedSwitch == GiveUpOrReturn
FailedCheck == GiveUpOrReturn

\* Compose replaces both containers.
Switch ==
  /\ During("switch")
  /\ web' = op.image /\ worker' = op.image
  /\ GoTo("check")
  /\ UNCHANGED <<file, database, server, passed>>

\* It fails or is interrupted, each container as it was, replaced or down.
SwitchFails ==
  /\ During("switch")
  /\ web' \in {web, op.image, None} /\ worker' \in {worker, op.image, None}
  /\ FailedSwitch \/ End(Silent)
  /\ UNCHANGED <<file, database, server, passed>>

\* /healthz reports web's commit, the database and the cache; of the worker only
\* that it runs cleanly is asked, not which image it is.
Check ==
  /\ During("check")
  /\ web = op.image
  /\ worker # None
  /\ passed' = passed \cup {op.image}
  /\ GoTo("write")
  /\ UNCHANGED <<file, stack, database, server>>

\* The image is not healthy, or did not say so in time.
CheckFails ==
  /\ During("check")
  /\ FailedCheck
  /\ UNCHANGED <<file, stack, database, server, passed>>

Return ==
  /\ During("return")
  /\ web' = op.back /\ worker' = op.back
  /\ GoTo("checkReturn")
  /\ UNCHANGED <<file, database, server, passed>>

ReturnFails ==
  /\ During("return")
  /\ web' \in {web, op.back, None} /\ worker' \in {worker, op.back, None}
  /\ End(Silent)
  /\ UNCHANGED <<file, database, server, passed>>

\* The end of a failed command says "back on" the other image when it is healthy.
CheckReturn ==
  /\ During("checkReturn")
  /\ \/ web = op.back /\ worker # None /\ End([kind |-> "back", image |-> op.back])
     \/ End(Silent)
  /\ UNCHANGED <<file, stack, database, server, passed>>

\* write_state replaces the file in one step.  A restore names no image to
\* return to.
\* (Mutant of Before: a restore keeps the image recorded before it.)
KeepRecorded == current
Before == IF op.command = "restore" THEN None ELSE current

Write ==
  /\ During("write")
  /\ current' = op.image
  /\ previous' = Before
  /\ restoring' = FALSE
  /\ End(Ended("running"))
  /\ UNCHANGED <<stack, database, env, dump, passed>>

-----------------------------------------------------------------------------
(* rollback and backup *)

StartRollback ==
  /\ previous # None
  /\ Begin("rollback", "switch", previous, current)
  /\ UNCHANGED <<file, stack, database, server, passed>>

TakeBackup ==
  /\ op = Idle
  /\ current # None
  /\ KeepBackup
  /\ UNCHANGED <<file, stack, database, op, report, passed>>

-----------------------------------------------------------------------------
(* restore *)

StartRestore(i) ==
  /\ Begin("restore", "load", i, None)
  /\ UNCHANGED <<file, stack, database, server, passed>>

\* Only into a database without tables; pg_restore runs in one transaction.
LoadDump ==
  /\ During("load")
  /\ schema = 0
  /\ schema' = dump.schema /\ sealed' = dump.sealed
  /\ GoTo("migrate")
  /\ UNCHANGED <<file, stack, server, passed>>

\* verify_decrypt: every value must decrypt; --allow-empty is for a backup
\* that holds none.
\* (Mutant of Decrypts: one value is enough.)
DecryptsOne == sealed = {} \/ sealed \cap Configured # {}
Decrypts == sealed \subseteq Configured

Verify ==
  /\ During("verify")
  /\ Decrypts
  /\ GoTo("switch")
  /\ UNCHANGED <<file, stack, database, server, passed>>

-----------------------------------------------------------------------------
(* The operator, who keeps to the runbooks, and the open site *)

\* "Migrations the previous image survives": a migration keeps every image that
\* can still return working.
Survivable(i) == \A r \in Recorded \cup {i} : Works(r, Larger(schema, i))

DeployByTheBook(i) == ~restoring /\ Survivable(i) /\ StartDeploy(i)

RollbackByTheBook == ~restoring /\ StartRollback

BackupByTheBook == ~restoring /\ TakeBackup

\* The operator stops the stack and removes the volume, on the server itself or
\* by moving to a new machine, and writes the environment file by hand.
PrepareRestore ==
  /\ op = Idle
  /\ web' = None /\ worker' = None
  /\ schema' = 0 /\ sealed' = {}
  /\ env' \in Environments
  /\ restoring' = TRUE
  /\ report' = Silent
  /\ \/ UNCHANGED file
     \/ current' = None /\ previous' = None
  /\ UNCHANGED <<dump, op, passed>>

\* "The one the state file records as current, or the latest green main."
Restorable(i) == i = current \/ i >= dump.schema

RestoreByTheBook(i) == Restorable(i) /\ StartRestore(i)

\* The open site stores an encrypted value (EncryptedTextField.get_prep_value).
Serve ==
  /\ web # None
  /\ sealed' = sealed \cup {env.active}
  /\ UNCHANGED <<file, stack, schema, server, op, report, passed>>

Init ==
  /\ current = None /\ previous = None
  /\ web = None /\ worker = None
  /\ schema = 0 /\ sealed = {}
  /\ env \in Environments
  /\ dump = [schema |-> 0, sealed |-> {}]
  /\ restoring = FALSE
  /\ op = Idle /\ report = Silent /\ passed = {}

Next ==
  \/ \E i \in Releases : DeployByTheBook(i) \/ RestoreByTheBook(i)
  \/ RollbackByTheBook \/ BackupByTheBook \/ PrepareRestore
  \/ Backup \/ LoadDump \/ Migrate \/ MigrateFails \/ Verify
  \/ Switch \/ SwitchFails \/ Check \/ CheckFails
  \/ Return \/ ReturnFails \/ CheckReturn \/ Write
  \/ Stop \/ Serve

Spec == Init /\ [][Next]_vars

-----------------------------------------------------------------------------
\* The state file names only images that have passed the health check, however
\* commands failed or were interrupted ("the state file changes only after a
\* health check passes", docs/runbooks/deploy.md).
RecordedPassed == Recorded \subseteq passed

\* A failed deploy and a rollback find an image that runs on the schema as it
\* is, also after failed deploys migrated it further, rollbacks, and restores
\* of older databases.
ReturnWorks == ~restoring => \A r \in Recorded : Works(r, schema)

\* While nothing runs, the last line printed is the truth: web and worker run
\* that image, and it is the one on record as current.
ReportsAreTrue ==
  op = Idle /\ report # Silent =>
    web = report.image /\ worker = report.image /\ current = report.image

\* The site is open only on a database it can read in full: under a wrong key it
\* would go on to write values the right key cannot read.
OpenOnlyReadable == web # None => sealed \subseteq Configured

=============================================================================
