----------------------------- MODULE DeployProofs -----------------------------
(* Proofs that Deploy has the properties its run checks, for any number of     *)
(* releases, any migrations and any keys.                                      *)
EXTENDS Deploy, TLAPS

-----------------------------------------------------------------------------
(* The inductive invariant *)

\* No command may bring back an image that the kept backup's schema breaks.
DumpServes ==
  \A r \in Recorded, b \in Breaks : b[1] = r => b[2] > dump.schema

\* Unless a database is missing, it is at least as new as the kept backup, and
\* the server has every key it needs.
Whole == ~restoring => dump.schema <= schema /\ sealed \subseteq Configured

\* Only a database with tables is served, and only tables hold values.
TablesFirst ==
  /\ web # None => schema # 0
  /\ schema = 0 => sealed = {}
  /\ dump.schema = 0 => dump.sealed = {}

\* The way back, which a restore does not have.
WayBack ==
  op # Idle =>
    /\ op.command # "restore" => op.back = current /\ ~restoring
    /\ op.command = "restore" => op.back = None
    /\ op.step \in {"return", "checkReturn"} => op.back # None

\* Which commands have which steps.
OwnSteps ==
  op # Idle =>
    /\ op.step = "backup" => op.command = "deploy"
    /\ op.step = "migrate" => op.command # "rollback"
    /\ op.step \in {"load", "verify"} => op.command = "restore"

\* What the containers run after a switch.
Switched ==
  op # Idle =>
    /\ op.step \in {"check", "write"} => web = op.image /\ worker = op.image
    /\ op.step = "checkReturn" => web = op.back /\ worker = op.back
    /\ op.step = "write" => op.image \in passed

\* The image to come works once its migrations are applied.
ImageWorks ==
  op # Idle =>
    /\ op.step \in {"verify", "switch", "check", "write"} => Works(op.image, schema)
    /\ op.command = "deploy" /\ op.step \in {"backup", "migrate"} =>
         \A r \in Recorded \cup {op.image} : Works(r, Larger(schema, op.image))

\* A restore loads the kept backup into an empty database, migrates and verifies.
Restoring ==
  op # Idle /\ op.command = "restore" =>
    /\ op.step \in {"load", "migrate"} => op.image = current \/ op.image >= dump.schema
    /\ op.step = "migrate" => schema = dump.schema /\ (restoring \/ schema = 0)
    /\ op.step \in {"verify", "switch", "check", "write"} => dump.schema <= schema
    /\ op.step \in {"switch", "check", "write"} => sealed \subseteq Configured

Properties ==
  RecordedPassed /\ ReturnWorks /\ ReportsAreTrue /\ OpenOnlyReadable
Inv ==
  /\ TypeOK /\ Properties /\ DumpServes /\ Whole /\ TablesFirst
  /\ WayBack /\ OwnSteps /\ Switched /\ ImageWorks /\ Restoring

-----------------------------------------------------------------------------

LEMMA LargerIsLarger ==
  ASSUME NEW m \in Nat, NEW n \in Nat
  PROVE  Larger(m, n) \in {m, n} /\ m <= Larger(m, n) /\ n <= Larger(m, n)
BY DEF Larger

\* An image works on the schema it brings.
LEMMA WorksOnItsOwn ==
  ASSUME NEW i \in Releases
  PROVE  Works(i, i)
BY BreaksLater DEF Works, Releases

\* An image that works before and after migrations works in between.
LEMMA WorksBetween ==
  ASSUME NEW i \in Releases, NEW m \in 0..MaxRelease, NEW n \in 0..MaxRelease,
         NEW k \in m..n, Works(i, m), Works(i, n)
  PROVE  Works(i, k)
BY BreaksLater DEF Works, Releases

LEMMA StartInv == Init => Inv
<1> SUFFICES ASSUME Init PROVE Inv
  OBVIOUS
<1> USE DEF Init
<1>1. TypeOK
  <2>1. dump \in [schema : 0..MaxRelease, sealed : SUBSET Keys] /\ schema \in 0..MaxRelease
    BY MaxReleaseIsNat
  <2>2. QED
    BY <2>1 DEF TypeOK, Images, Reports, Silent
<1>2. Recorded = {}
  BY DEF Recorded
<1>3. Properties
  BY <1>2 DEF Properties, RecordedPassed, ReturnWorks, ReportsAreTrue, OpenOnlyReadable
<1>4. DumpServes /\ Whole /\ TablesFirst
  BY <1>2 DEF DumpServes, Whole, TablesFirst
<1>5. QED
  BY <1>1, <1>3, <1>4 DEF Inv, WayBack, OwnSteps, Switched, ImageWorks, Restoring

-----------------------------------------------------------------------------
(* What a step leaves alone *)

\* Which actions change the state file, the containers, the database and what
\* the operator keeps.
LEMMA Frames ==
  ASSUME [Next]_vars
  PROVE  /\ UNCHANGED file \/ PrepareRestore \/ Write
         /\ passed \subseteq passed'
         /\ UNCHANGED stack \/ Switch \/ SwitchFails \/ Return \/ ReturnFails \/ PrepareRestore
         /\ UNCHANGED schema \/ Migrate \/ MigrateFails \/ LoadDump \/ PrepareRestore
         /\ UNCHANGED sealed \/ LoadDump \/ Serve \/ PrepareRestore
         /\ UNCHANGED dump \/ Backup \/ BackupByTheBook
         /\ UNCHANGED env \/ PrepareRestore
         /\ UNCHANGED restoring \/ PrepareRestore \/ Write
<1> USE DEF file, stack, database, server
<1>1. CASE \E i \in Releases : DeployByTheBook(i)
  BY <1>1 DEF DeployByTheBook, StartDeploy
<1>2. CASE \E i \in Releases : RestoreByTheBook(i)
  BY <1>2 DEF RestoreByTheBook, StartRestore
<1>3. CASE RollbackByTheBook
  BY <1>3 DEF RollbackByTheBook, StartRollback
<1>4. CASE BackupByTheBook
  BY <1>4 DEF BackupByTheBook, TakeBackup, KeepBackup
<1>5. CASE PrepareRestore
  BY <1>5 DEF PrepareRestore
<1>6. CASE Backup
  BY <1>6 DEF Backup, KeepBackup
<1>7. CASE LoadDump
  BY <1>7 DEF LoadDump
<1>8. CASE Migrate
  BY <1>8 DEF Migrate
<1>9. CASE MigrateFails
  BY <1>9 DEF MigrateFails
<1>10. CASE Verify
  BY <1>10 DEF Verify
<1>11. CASE Switch
  BY <1>11 DEF Switch
<1>12. CASE SwitchFails
  BY <1>12 DEF SwitchFails
<1>13. CASE Check
  BY <1>13 DEF Check
<1>14. CASE CheckFails
  BY <1>14 DEF CheckFails
<1>15. CASE Return
  BY <1>15 DEF Return
<1>16. CASE ReturnFails
  BY <1>16 DEF ReturnFails
<1>17. CASE CheckReturn
  BY <1>17 DEF CheckReturn
<1>18. CASE Write
  BY <1>18 DEF Write
<1>19. CASE Stop
  BY <1>19 DEF Stop
<1>20. CASE Serve
  BY <1>20 DEF Serve
<1>21. CASE UNCHANGED vars
  BY <1>21 DEF vars
<1>22. QED
  BY <1>1, <1>2, <1>3, <1>4, <1>5, <1>6, <1>7, <1>8, <1>9, <1>10, <1>11, <1>12, <1>13,
     <1>14, <1>15, <1>16, <1>17, <1>18, <1>19, <1>20, <1>21 DEF Next

\* Which actions leave a command running.
LEMMA Running ==
  ASSUME TypeOK, [Next]_vars
  PROVE  \/ op' = Idle
         \/ (\E i \in Releases : DeployByTheBook(i) \/ RestoreByTheBook(i))
         \/ RollbackByTheBook
         \/ Backup
         \/ LoadDump
         \/ Migrate
         \/ Verify
         \/ Switch
         \/ SwitchFails
         \/ Check
         \/ CheckFails
         \/ Return
         \/ Serve \/ UNCHANGED vars
BY DEF Next, MigrateFails, ReturnFails, CheckReturn, Write, Stop, BackupByTheBook,
   TakeBackup,
   PrepareRestore, End

-----------------------------------------------------------------------------
(* What a step preserves *)

LEMMA TypeStep ==
  ASSUME TypeOK, WayBack, [Next]_vars
  PROVE  TypeOK'
<1> USE MaxReleaseIsNat DEF TypeOK, Releases, Images, Reports, Silent, file, stack,
        database, server
<1>1. ASSUME NEW i \in Releases, DeployByTheBook(i) PROVE TypeOK'
  BY <1>1 DEF Commands, Steps, DeployByTheBook, StartDeploy, Begin
<1>2. ASSUME NEW i \in Releases, RestoreByTheBook(i) PROVE TypeOK'
  BY <1>2 DEF Commands, Steps, RestoreByTheBook, StartRestore, Begin
<1>3. CASE RollbackByTheBook
  BY <1>3 DEF Commands, Steps, RollbackByTheBook, StartRollback, Begin
<1>4. CASE BackupByTheBook
  BY <1>4 DEF BackupByTheBook, TakeBackup, KeepBackup
<1>5. CASE PrepareRestore
  BY <1>5 DEF PrepareRestore
<1>6. CASE Backup
  <2>1. dump' \in [schema : 0..MaxRelease, sealed : SUBSET Keys]
    BY <1>6 DEF Backup, KeepBackup
  <2>2. op' \in Commands
    BY <1>6 DEF Backup, At, GoTo, Commands, Steps, Idle
  <2>3. QED
    BY <1>6, <2>1, <2>2 DEF Backup, KeepBackup, GoTo
<1>7. CASE LoadDump
  BY <1>7 DEF Commands, Steps, LoadDump, During, GoTo
<1>8. CASE Migrate
  BY <1>8, LargerIsLarger DEF Commands, Steps, Migrate, During, GoTo
<1>9. CASE MigrateFails
  BY <1>9, LargerIsLarger DEF Commands, MigrateFails, During, End
<1>10. CASE Verify
  BY <1>10 DEF Commands, Steps, Verify, During, GoTo
<1>11. CASE Switch
  BY <1>11 DEF Commands, Steps, Switch, During, GoTo
<1>12. CASE SwitchFails
  BY <1>12 DEF Commands, Steps, SwitchFails, During, GoTo, End, FailedSwitch, GiveUpOrReturn
<1>13. CASE Check
  BY <1>13 DEF Commands, Steps, Check, During, GoTo
<1>14. CASE CheckFails
  BY <1>14 DEF Commands, Steps, CheckFails, During, GoTo, End, FailedCheck, GiveUpOrReturn
<1>15. CASE Return
  BY <1>15 DEF Commands, Steps, Return, During, GoTo
<1>16. CASE ReturnFails
  BY <1>16 DEF Commands, ReturnFails, During, End
<1>17. CASE CheckReturn
  <2>1. report' \in Reports
    <3>1. op.back \in Releases
      BY <1>17 DEF CheckReturn, During, WayBack
    <3>2. QED
      BY <1>17, <3>1 DEF CheckReturn, End
  <2>2. QED
    BY <1>17, <2>1 DEF CheckReturn, End
<1>18. CASE Write
  BY <1>18 DEF Commands, Write, During, End, Ended, Before
<1>19. CASE Stop
  BY <1>19 DEF Stop, End
<1>20. CASE Serve
  <2>1. env.active \in Keys
    BY DEF Environments
  <2>2. QED
    BY <1>20, <2>1 DEF Serve
<1>21. CASE UNCHANGED vars
  BY <1>21 DEF vars
<1>22. QED
  BY <1>1, <1>2, <1>3, <1>4, <1>5, <1>6, <1>7, <1>8, <1>9, <1>10, <1>11, <1>12, <1>13,
     <1>14, <1>15, <1>16, <1>17, <1>18, <1>19, <1>20, <1>21 DEF Next

LEMMA RecordedStep ==
  ASSUME Inv, [Next]_vars
  PROVE  RecordedPassed'
<1> USE DEF Inv, Properties, TypeOK
<1>1. CASE PrepareRestore
  BY <1>1 DEF RecordedPassed, Recorded, PrepareRestore, file
<1>2. CASE Write
  BY <1>2 DEF RecordedPassed, Recorded, Switched, Write, During, Before
<1>3. CASE UNCHANGED file
  BY <1>3, Frames DEF RecordedPassed, Recorded, file
<1>4. QED
  BY <1>1, <1>2, <1>3, Frames

LEMMA DumpServesStep ==
  ASSUME Inv, [Next]_vars
  PROVE  DumpServes'
<1> USE DEF Inv, Properties, TypeOK
<1>1. CASE PrepareRestore
  BY <1>1 DEF DumpServes, Recorded, PrepareRestore, file
<1>2. CASE Write
  BY <1>2, BreaksLater DEF DumpServes, Recorded, WayBack, ImageWorks, Whole, Restoring,
     Works, Releases, Write, During, Before
<1>3. CASE Backup
  <2>1. ~restoring
    BY <1>3 DEF Backup, At, WayBack, Idle
  <2>2. \A r \in Recorded : Works(r, schema)
    BY <2>1 DEF ReturnWorks
  <2>3. dump'.schema \in {dump.schema, schema} /\ Recorded' = Recorded
    BY <1>3 DEF Backup, KeepBackup, Recorded, file
  <2>4. QED
    BY <2>2, <2>3 DEF DumpServes, Works
<1>4. CASE BackupByTheBook
  BY <1>4 DEF DumpServes, Recorded, ReturnWorks, Works, BackupByTheBook, TakeBackup,
     KeepBackup, file
<1>5. CASE UNCHANGED <<file, dump>>
  BY <1>5 DEF DumpServes, Recorded, file
<1>6. QED
  BY <1>1, <1>2, <1>3, <1>4, <1>5, Frames

LEMMA WholeStep ==
  ASSUME Inv, [Next]_vars
  PROVE  Whole'
<1> USE DEF Inv, Properties, TypeOK
<1>1. CASE PrepareRestore
  BY <1>1 DEF Whole, PrepareRestore
<1>2. CASE Write
  BY <1>2 DEF Whole, WayBack, Restoring, Configured, Write, During, database
<1>3. CASE Backup
  BY <1>3 DEF Whole, Configured, Backup, KeepBackup, database
<1>4. CASE BackupByTheBook
  BY <1>4 DEF Whole, Configured, BackupByTheBook, TakeBackup, KeepBackup, database
<1>5. CASE Migrate
  BY <1>5, LargerIsLarger DEF Whole, Configured, Commands, Releases, Migrate, During, server
<1>6. CASE MigrateFails
  BY <1>6 DEF Whole, Configured, MigrateFails, server
<1>7. CASE LoadDump
  BY <1>7 DEF Whole, TablesFirst, LoadDump, server
<1>8. CASE Serve
  BY <1>8 DEF Whole, Configured, Serve, server
<1>9. CASE UNCHANGED <<restoring, dump, schema, sealed, env>>
  BY <1>9 DEF Whole, Configured
<1>10. QED
  BY <1>1, <1>2, <1>3, <1>4, <1>5, <1>6, <1>7, <1>8, <1>9, Frames

LEMMA TablesFirstStep ==
  ASSUME Inv, [Next]_vars
  PROVE  TablesFirst'
<1> USE DEF Inv, Properties, TypeOK
<1>1. CASE Switch
  BY <1>1 DEF TablesFirst, ImageWorks, Works, Commands, Releases, Switch, During, database,
     server
<1>2. CASE SwitchFails
  BY <1>2 DEF TablesFirst, ImageWorks, Works, Commands, Releases, SwitchFails, During,
     database, server
<1>3. CASE Return
  BY <1>3 DEF TablesFirst, WayBack, ReturnWorks, Recorded, Works, Releases, Images, Return,
     During, database, server
<1>4. CASE ReturnFails
  BY <1>4 DEF TablesFirst, WayBack, ReturnWorks, Recorded, Works, Releases, Images,
     ReturnFails, During, database, server
<1>5. CASE PrepareRestore
  BY <1>5 DEF TablesFirst, PrepareRestore
<1>6. CASE Migrate
  BY <1>6, LargerIsLarger DEF TablesFirst, Commands, Releases, Migrate, During, server
<1>7. CASE MigrateFails
  BY <1>7 DEF TablesFirst, MigrateFails, stack, server
<1>8. CASE LoadDump
  BY <1>8 DEF TablesFirst, LoadDump, stack, server
<1>9. CASE Serve
  BY <1>9 DEF TablesFirst, Serve, server
<1>10. CASE Backup
  BY <1>10 DEF TablesFirst, Backup, KeepBackup, stack, database
<1>11. CASE BackupByTheBook
  BY <1>11 DEF TablesFirst, BackupByTheBook, TakeBackup, KeepBackup, stack, database
<1>12. CASE UNCHANGED <<stack, dump, schema, sealed>>
  BY <1>12 DEF TablesFirst, stack
<1>13. QED
  BY <1>1, <1>2, <1>3, <1>4, <1>5, <1>6, <1>7, <1>8, <1>9, <1>10, <1>11, <1>12, Frames

\* Nothing is recorded while there is no table and none is missing.
LEMMA NothingRecorded ==
  ASSUME TypeOK, ReturnWorks, ~restoring, schema = 0
  PROVE  Recorded = {}
BY DEF TypeOK, ReturnWorks, Works, Recorded, Images, Releases

LEMMA ReturnWorksStep ==
  ASSUME Inv, [Next]_vars
  PROVE  ReturnWorks'
<1> USE DEF Inv, Properties, TypeOK
<1>1. CASE PrepareRestore
  BY <1>1 DEF ReturnWorks, PrepareRestore
<1>2. CASE Write
  BY <1>2 DEF ReturnWorks, Recorded, WayBack, ImageWorks, Write, During, Before, database
<1>3. CASE Migrate
  <2>1. CASE op.command = "deploy"
    BY <1>3, <2>1 DEF ReturnWorks, Recorded, ImageWorks, Migrate, During, file
  <2>2. CASE op.command = "restore"
    BY <1>3, <2>2, NothingRecorded
       DEF ReturnWorks, Recorded, Restoring, Migrate, During, GoTo, file, server
  <2>3. QED
    BY <1>3, <2>1, <2>2 DEF OwnSteps, Migrate, During, Commands
<1>4. CASE MigrateFails
  <2>1. CASE op.command = "deploy"
    <3>1. ASSUME ~restoring, NEW r \in Recorded PROVE Works(r, schema')
      <4>1. Works(r, schema) /\ Works(r, Larger(schema, op.image))
        BY <1>4, <2>1, <3>1 DEF ReturnWorks, ImageWorks, MigrateFails, During
      <4>2. schema' \in schema..Larger(schema, op.image) /\ op.image \in Releases /\ r \in Releases
        BY <1>4 DEF MigrateFails, During, Commands, Recorded, Images
      <4>3. QED
        BY <4>1, <4>2, WorksBetween, LargerIsLarger DEF Releases
    <3>2. QED
      BY <1>4, <3>1 DEF ReturnWorks, Recorded, MigrateFails, file, server
  <2>2. CASE op.command = "restore"
    BY <1>4, <2>2, NothingRecorded DEF ReturnWorks, Recorded, Restoring, MigrateFails,
       During, file, server
  <2>3. QED
    BY <1>4, <2>1, <2>2 DEF OwnSteps, MigrateFails, During, Commands
<1>5. CASE LoadDump
  BY <1>5 DEF ReturnWorks, Recorded, Whole, LoadDump, file, server
<1>6. CASE UNCHANGED <<file, restoring, schema>>
  BY <1>6 DEF ReturnWorks, Recorded, file
<1>7. QED
  BY <1>1, <1>2, <1>3, <1>4, <1>5, <1>6, Frames

LEMMA OpenStep ==
  ASSUME Inv, [Next]_vars
  PROVE  OpenOnlyReadable'
<1> USE DEF Inv, Properties, TypeOK
<1>1. CASE Switch
  BY <1>1 DEF OpenOnlyReadable, Configured, Whole, WayBack, Restoring, Switch, During,
     database, server
<1>2. CASE SwitchFails
  BY <1>2 DEF OpenOnlyReadable, Configured, Whole, WayBack, Restoring, SwitchFails, During,
     database, server
<1>3. CASE Return
  BY <1>3 DEF OpenOnlyReadable, Configured, Whole, WayBack, Return, During, database, server
<1>4. CASE ReturnFails
  BY <1>4 DEF OpenOnlyReadable, Configured, Whole, WayBack, ReturnFails, During, database,
     server
<1>5. CASE PrepareRestore
  BY <1>5 DEF OpenOnlyReadable, PrepareRestore
<1>6. CASE LoadDump
  BY <1>6 DEF OpenOnlyReadable, TablesFirst, LoadDump, stack
<1>7. CASE Serve
  BY <1>7 DEF OpenOnlyReadable, Configured, Serve, server
<1>8. CASE UNCHANGED <<stack, sealed, env>>
  BY <1>8 DEF OpenOnlyReadable, Configured, stack
<1>9. QED
  BY <1>1, <1>2, <1>3, <1>4, <1>5, <1>6, <1>7, <1>8, Frames

LEMMA WayBackStep ==
  ASSUME Inv, [Next]_vars
  PROVE  WayBack'
<1> USE DEF Inv, Properties, TypeOK, WayBack
<1>1. CASE op' = Idle
  BY <1>1
<1>2. ASSUME NEW i \in Releases, DeployByTheBook(i) PROVE WayBack'
  BY <1>2 DEF DeployByTheBook, StartDeploy, Begin, file, server
<1>3. ASSUME NEW i \in Releases, RestoreByTheBook(i) PROVE WayBack'
  BY <1>3 DEF RestoreByTheBook, StartRestore, Begin
<1>4. CASE RollbackByTheBook
  BY <1>4 DEF RollbackByTheBook, StartRollback, Begin, file, server
<1>5. CASE Backup
  BY <1>5 DEF Idle, Backup, KeepBackup, GoTo, file
<1>6. CASE LoadDump
  BY <1>6 DEF Idle, LoadDump, GoTo, file, server
<1>7. CASE Migrate
  BY <1>7 DEF Idle, Migrate, GoTo, file, server
<1>8. CASE Verify
  BY <1>8 DEF Idle, Verify, GoTo, file, server
<1>9. CASE Switch
  BY <1>9 DEF Idle, Switch, GoTo, file, server
<1>10. CASE SwitchFails
  BY <1>10 DEF Commands, Idle, SwitchFails, GoTo, End, FailedSwitch, GiveUpOrReturn, file,
     server
<1>11. CASE Check
  BY <1>11 DEF Idle, Check, GoTo, file, server
<1>12. CASE CheckFails
  BY <1>12 DEF Commands, Idle, CheckFails, GoTo, End, FailedCheck, GiveUpOrReturn, file,
     server
<1>13. CASE Return
  BY <1>13 DEF Return, During, GoTo, file, server
<1>14. CASE Serve
  BY <1>14 DEF Serve, file, server
<1>15. CASE UNCHANGED vars
  BY <1>15 DEF vars, file, server
<1>16. QED
  BY <1>1, <1>2, <1>3, <1>4, <1>5, <1>6, <1>7, <1>8, <1>9, <1>10, <1>11, <1>12, <1>13,
     <1>14, <1>15, Running

LEMMA OwnStepsStep ==
  ASSUME Inv, [Next]_vars
  PROVE  OwnSteps'
<1> USE DEF Inv, Properties, TypeOK, OwnSteps
<1>1. CASE op' = Idle
  BY <1>1
<1>2. ASSUME NEW i \in Releases, DeployByTheBook(i) PROVE OwnSteps'
  BY <1>2 DEF DeployByTheBook, StartDeploy, Begin
<1>3. ASSUME NEW i \in Releases, RestoreByTheBook(i) PROVE OwnSteps'
  BY <1>3 DEF RestoreByTheBook, StartRestore, Begin
<1>4. CASE RollbackByTheBook
  BY <1>4 DEF RollbackByTheBook, StartRollback, Begin
<1>5. CASE Backup
  BY <1>5 DEF Backup, At, GoTo
<1>6. CASE LoadDump
  BY <1>6 DEF LoadDump, During, GoTo
<1>7. CASE Migrate
  BY <1>7 DEF Migrate, GoTo
<1>8. CASE Verify
  BY <1>8 DEF Verify, GoTo
<1>9. CASE Switch
  BY <1>9 DEF Switch, GoTo
<1>10. CASE SwitchFails
  BY <1>10 DEF Commands, SwitchFails, During, GoTo, End, FailedSwitch, GiveUpOrReturn
<1>11. CASE Check
  BY <1>11 DEF Check, GoTo
<1>12. CASE CheckFails
  BY <1>12 DEF Commands, CheckFails, During, GoTo, End, FailedCheck, GiveUpOrReturn
<1>13. CASE Return
  BY <1>13 DEF Return, GoTo
<1>14. CASE Serve
  BY <1>14 DEF Serve
<1>15. CASE UNCHANGED vars
  BY <1>15 DEF vars
<1>16. QED
  BY <1>1, <1>2, <1>3, <1>4, <1>5, <1>6, <1>7, <1>8, <1>9, <1>10, <1>11, <1>12, <1>13,
     <1>14, <1>15, Running

LEMMA SwitchedStep ==
  ASSUME Inv, [Next]_vars
  PROVE  Switched'
<1> USE DEF Inv, Properties, TypeOK, Switched
<1>1. CASE op' = Idle
  BY <1>1
<1>2. ASSUME NEW i \in Releases, DeployByTheBook(i) PROVE Switched'
  BY <1>2 DEF DeployByTheBook, StartDeploy, Begin
<1>3. ASSUME NEW i \in Releases, RestoreByTheBook(i) PROVE Switched'
  BY <1>3 DEF RestoreByTheBook, StartRestore, Begin
<1>4. CASE RollbackByTheBook
  BY <1>4 DEF RollbackByTheBook, StartRollback, Begin
<1>5. CASE Backup
  BY <1>5 DEF Backup, GoTo
<1>6. CASE LoadDump
  BY <1>6 DEF LoadDump, GoTo
<1>7. CASE Migrate
  BY <1>7 DEF Migrate, GoTo
<1>8. CASE Verify
  BY <1>8 DEF Verify, GoTo
<1>9. CASE Switch
  BY <1>9 DEF Switch, GoTo
<1>10. CASE SwitchFails
  BY <1>10 DEF Commands, Idle, SwitchFails, GoTo, End, FailedSwitch, GiveUpOrReturn
<1>11. CASE Check
  BY <1>11 DEF Check, During, GoTo, stack
<1>12. CASE CheckFails
  BY <1>12 DEF Commands, Idle, CheckFails, GoTo, End, FailedCheck, GiveUpOrReturn
<1>13. CASE Return
  BY <1>13 DEF Return, GoTo
<1>14. CASE Serve
  BY <1>14 DEF Serve, stack
<1>15. CASE UNCHANGED vars
  BY <1>15 DEF vars, stack
<1>16. QED
  BY <1>1, <1>2, <1>3, <1>4, <1>5, <1>6, <1>7, <1>8, <1>9, <1>10, <1>11, <1>12, <1>13,
     <1>14, <1>15, Running

LEMMA ImageWorksStep ==
  ASSUME Inv, [Next]_vars
  PROVE  ImageWorks'
<1> USE DEF Inv, Properties, TypeOK, ImageWorks
<1>1. CASE op' = Idle
  BY <1>1
<1>2. ASSUME NEW i \in Releases, DeployByTheBook(i) PROVE ImageWorks'
  BY <1>2 DEF Recorded, DeployByTheBook, StartDeploy, Begin, Survivable, file, database
<1>3. ASSUME NEW i \in Releases, RestoreByTheBook(i) PROVE ImageWorks'
  BY <1>3 DEF RestoreByTheBook, StartRestore, Begin
<1>4. CASE RollbackByTheBook
  BY <1>4 DEF ReturnWorks, Recorded, RollbackByTheBook, StartRollback, Begin, database
<1>5. CASE Backup
  BY <1>5 DEF Idle, Recorded, Backup, At, GoTo, file, database
<1>6. CASE LoadDump
  BY <1>6 DEF OwnSteps, LoadDump, During, GoTo
<1>7. CASE Migrate
  <2> DEFINE m == Larger(schema, op.image)
  <2>1. schema' = m /\ op'.image = op.image /\ op'.step \in {"verify", "switch"} /\ op # Idle
    BY <1>7 DEF Migrate, During, GoTo
  <2>2. CASE op.command = "deploy"
    BY <1>7, <2>1, <2>2 DEF Migrate, During
  <2>3. CASE op.command = "restore"
    <3>1. op.image \in Releases /\ schema = dump.schema /\ (op.image = current \/ op.image >= schema)
      BY <1>7, <2>3 DEF Restoring, Migrate, During, Commands
    <3>2. CASE op.image >= schema
      <4>1. m = op.image
        BY <3>1, <3>2 DEF Larger, Releases
      <4>2. QED
        BY <2>1, <3>1, <4>1, WorksOnItsOwn
    <3>3. CASE op.image = current /\ ~(op.image >= schema)
      <4>1. m = dump.schema
        BY <3>1, <3>3 DEF Larger, Releases
      <4>2. op.image \in Recorded
        BY <3>1, <3>3, NoneIsNoRelease DEF Recorded
      <4>3. Works(op.image, m)
        BY <3>1, <3>3, <4>1, <4>2 DEF DumpServes, Works, Releases
      <4>4. QED
        BY <2>1, <4>3
    <3>4. QED
      BY <3>1, <3>2, <3>3
  <2>4. QED
    BY <1>7, <2>2, <2>3 DEF OwnSteps, Migrate, During, Commands
<1>8. CASE Verify
  BY <1>8 DEF Verify, During, GoTo, database
<1>9. CASE Switch
  BY <1>9 DEF Switch, During, GoTo, database
<1>10. CASE SwitchFails
  BY <1>10 DEF Commands, SwitchFails, During, GoTo, End, FailedSwitch, GiveUpOrReturn
<1>11. CASE Check
  BY <1>11 DEF Check, During, GoTo, database
<1>12. CASE CheckFails
  BY <1>12 DEF Commands, CheckFails, During, GoTo, End, FailedCheck, GiveUpOrReturn
<1>13. CASE Return
  BY <1>13 DEF Return, GoTo
<1>14. CASE Serve
  BY <1>14 DEF Recorded, Serve, file
<1>15. CASE UNCHANGED vars
  BY <1>15 DEF Recorded, vars, file, database
<1>16. QED
  BY <1>1, <1>2, <1>3, <1>4, <1>5, <1>6, <1>7, <1>8, <1>9, <1>10, <1>11, <1>12, <1>13,
     <1>14, <1>15, Running

LEMMA RestoringStep ==
  ASSUME Inv, [Next]_vars
  PROVE  Restoring'
<1> USE DEF Inv, Properties, TypeOK, Restoring
<1>1. CASE op' = Idle
  BY <1>1
<1>2. ASSUME NEW i \in Releases, DeployByTheBook(i) PROVE Restoring'
  BY <1>2 DEF DeployByTheBook, StartDeploy, Begin
<1>3. ASSUME NEW i \in Releases, RestoreByTheBook(i) PROVE Restoring'
  BY <1>3 DEF RestoreByTheBook, StartRestore, Begin, Restorable, file, server
<1>4. CASE RollbackByTheBook
  BY <1>4 DEF RollbackByTheBook, StartRollback, Begin
<1>5. CASE Backup
  BY <1>5 DEF Backup, At, GoTo
<1>6. CASE LoadDump
  BY <1>6 DEF Whole, LoadDump, During, GoTo, file, server
<1>7. CASE Migrate
  BY <1>7, LargerIsLarger DEF Commands, Releases, Migrate, During, GoTo, server
<1>8. CASE Verify
  BY <1>8 DEF Configured, Verify, During, GoTo, Decrypts, database, server
<1>9. CASE Switch
  BY <1>9 DEF Configured, Switch, During, GoTo, database, server
<1>10. CASE SwitchFails
  BY <1>10 DEF Commands, SwitchFails, During, GoTo, End, FailedSwitch, GiveUpOrReturn
<1>11. CASE Check
  BY <1>11 DEF Configured, Check, During, GoTo, database, server
<1>12. CASE CheckFails
  BY <1>12 DEF Commands, CheckFails, During, GoTo, End, FailedCheck, GiveUpOrReturn
<1>13. CASE Return
  BY <1>13 DEF Return, GoTo
<1>14. CASE Serve
  BY <1>14 DEF Configured, Serve, file, server
<1>15. CASE UNCHANGED vars
  BY <1>15 DEF Configured, vars, file, database, server
<1>16. QED
  BY <1>1, <1>2, <1>3, <1>4, <1>5, <1>6, <1>7, <1>8, <1>9, <1>10, <1>11, <1>12, <1>13,
     <1>14, <1>15, Running

LEMMA ReportsStep ==
  ASSUME Inv, [Next]_vars
  PROVE  ReportsAreTrue'
<1> USE DEF Inv, Properties, TypeOK, ReportsAreTrue
<1>1. CASE CheckReturn
  BY <1>1 DEF CheckReturn, During, End, WayBack, Switched, file, stack
<1>2. CASE Write
  BY <1>2 DEF Write, During, End, Ended, Switched, stack
<1>3. CASE op' # Idle \/ report' = Silent
  BY <1>3
<1>4. CASE UNCHANGED <<op, report, stack, file>>
  BY <1>4 DEF stack, file
<1>5. [Next]_vars => \/ CheckReturn \/ Write \/ op' # Idle \/ report' = Silent
                    \/ UNCHANGED <<op, report, stack, file>>
  <2>1. CASE \E i \in Releases : DeployByTheBook(i)
    BY <2>1 DEF DeployByTheBook, StartDeploy, Begin
  <2>2. CASE \E i \in Releases : RestoreByTheBook(i)
    BY <2>2 DEF RestoreByTheBook, StartRestore, Begin
  <2>3. CASE RollbackByTheBook
    BY <2>3 DEF RollbackByTheBook, StartRollback, Begin
  <2>4. CASE BackupByTheBook
    BY <2>4 DEF BackupByTheBook, TakeBackup
  <2>5. CASE PrepareRestore
    BY <2>5 DEF PrepareRestore
  <2>6. CASE Backup
    BY <2>6 DEF Backup, GoTo, Commands, Idle
  <2>7. CASE LoadDump
    BY <2>7 DEF LoadDump, GoTo, Commands, Idle
  <2>8. CASE Migrate
    BY <2>8 DEF Migrate, GoTo, Commands, Idle
  <2>9. CASE MigrateFails
    BY <2>9 DEF MigrateFails, End
  <2>10. CASE Verify
    BY <2>10 DEF Verify, GoTo, Commands, Idle
  <2>11. CASE Switch
    BY <2>11 DEF Switch, During, GoTo, Commands, Idle
  <2>12. CASE SwitchFails
    BY <2>12 DEF SwitchFails, During, GoTo, End, FailedSwitch, GiveUpOrReturn, Commands,
       Idle
  <2>13. CASE Check
    BY <2>13 DEF Check, GoTo, Commands, Idle
  <2>14. CASE CheckFails
    BY <2>14 DEF CheckFails, GoTo, End, FailedCheck, GiveUpOrReturn, Commands, Idle
  <2>15. CASE Return
    BY <2>15 DEF Return, During, GoTo, Commands, Idle
  <2>16. CASE ReturnFails
    BY <2>16 DEF ReturnFails, End
  <2>17. CASE Stop
    BY <2>17 DEF Stop, End
  <2>18. CASE Serve
    BY <2>18 DEF Serve
  <2>19. CASE UNCHANGED vars
    BY <2>19 DEF vars
  <2>20. QED
    BY <2>1, <2>2, <2>3, <2>4, <2>5, <2>6, <2>7, <2>8, <2>9, <2>10, <2>11, <2>12, <2>13,
       <2>14, <2>15, <2>16, <2>17, <2>18, <2>19 DEF Next
<1>6. QED
  BY <1>1, <1>2, <1>3, <1>4, <1>5

-----------------------------------------------------------------------------
(* The theorems *)

LEMMA DeployInvariant == Spec => []Inv
<1>1. Init => Inv
  BY StartInv
<1>2. Inv /\ [Next]_vars => Inv'
  <2> SUFFICES ASSUME Inv, [Next]_vars
               PROVE  Inv'
    OBVIOUS
  <2>1. TypeOK' /\ Properties'
    BY TypeStep, RecordedStep, ReturnWorksStep, ReportsStep, OpenStep DEF Inv, Properties
  <2>2. DumpServes' /\ Whole' /\ TablesFirst'
    BY DumpServesStep, WholeStep, TablesFirstStep
  <2>3. WayBack' /\ OwnSteps' /\ Switched' /\ ImageWorks' /\ Restoring'
    BY WayBackStep, OwnStepsStep, SwitchedStep, ImageWorksStep, RestoringStep
  <2>4. QED
    BY <2>1, <2>2, <2>3 DEF Inv
<1>3. QED
  BY <1>1, <1>2, PTL DEF Spec

\* Every variable of Deploy keeps its type.
THEOREM DeployTypeCorrect == Spec => []TypeOK
BY DeployInvariant, PTL DEF Inv

\* The state file names only images that have been healthy, wherever a command
\* fails or is interrupted.
THEOREM OnlyHealthyImagesRecorded == Spec => []RecordedPassed
BY DeployInvariant, PTL DEF Inv, Properties

\* A recorded image works on the database as it is, after any sequence of failed
\* deploys, rollbacks and restores: there is always something to return to.
THEOREM RecordedImagesWork == Spec => []ReturnWorks
BY DeployInvariant, PTL DEF Inv, Properties

\* What a command says runs when it ends does run, web and worker, and is the one
\* on record.
THEOREM LastLineIsTrue == Spec => []ReportsAreTrue
BY DeployInvariant, PTL DEF Inv, Properties

\* The site never opens on, nor adds to, values its keys cannot read.
THEOREM SiteReadsItsValues == Spec => []OpenOnlyReadable
BY DeployInvariant, PTL DEF Inv, Properties

=============================================================================
