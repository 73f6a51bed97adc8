----------------------------- MODULE ServerProofs -----------------------------
(***************************************************************************)
(* What holds of ServerProcess for every number of migrations, crashes and *)
(* writes: what is served is whole, an upgrade is backed up, resources are *)
(* closed after all that the close hook waits for, and no wake of the      *)
(* dispatcher is lost.                                                     *)
(***************************************************************************)
EXTENDS ServerProcess, TLAPS

-----------------------------------------------------------------------------
(* The inductive invariant *)

Past == {"connected", "migrating", "copying", "qualifying", "migrated"}
          \cup RunPhases \cup ClosePhases

\* Where the process is tells what is at the database's path.
FileFollowsPhase ==
  /\ phase \in Past => db.file = "there"
  /\ phase = "creating" => db.file = "empty"
  /\ phase = "booted" /\ db.file # "absent" => db.file = "there"
  /\ phase \notin {"off", "qualifying"} => db.sound
  /\ db.file = "absent" => db = NoDatabase

\* The whole schema is there from the verification of the ledger on.
VersionFollowsPhase ==
  phase = "migrated" \/ Ready => db.version = Target

\* The local database is never behind its replica, unless it is missing.
ReplicaIsBehind ==
  /\ replica.file = "absent" => replica = NoDatabase
  /\ replica.file # "empty"
  /\ phase \in {"booted", "creating"} /\ db.file # "there"
       => replica = NoDatabase
  /\ db.file # "absent" => replica.data <= db.data

\* A file without schema holds nothing.
SchemaBeforeData ==
  /\ db.version = 0 => db.data = 0
  /\ replica.version = 0 => replica.data = 0

HasBackup ==
  \E b \in backups : b.verified /\ b.data = db.data /\ b.version <= db.version

\* What this life remembers of how it may upgrade is true.
LifeIsTrue ==
  /\ fresh /\ phase \in StartPhases => db.data = 0
  /\ backed /\ phase \in StartPhases => HasBackup
  /\ phase \in {"off", "booted", "creating"} => ~fresh /\ ~backed
  /\ phase = "copying" => ~backed

\* The loops run from their start to the end of the close hook.
LoopsFollowPhase ==
  /\ phase \in StartPhases => ~preview
  /\ phase \in StartPhases \cup {"starting"} => LoopIdle /\ ~outbox
  /\ phase \in {"draining", "settling", "closed"} => ~preview
  /\ phase \in {"settling", "closed"} => ~outbox
  /\ stopping <=> phase \in {"settling", "closed"}
  /\ stopping => timer = "none" /\ ~wakeRequested
  /\ ticking => timer = "none"
  /\ wakeRequested => ticking

StartInductive ==
  /\ FileFollowsPhase /\ VersionFollowsPhase /\ ReplicaIsBehind
  /\ SchemaBeforeData /\ LifeIsTrue

Inductive == TypeOK /\ StartInductive /\ LoopsFollowPhase

-----------------------------------------------------------------------------
(* Records *)

LEMMA NoDatabaseFields ==
  /\ NoDatabase \in Databases
  /\ NoDatabase.file = "absent" /\ NoDatabase.version = 0
  /\ NoDatabase.data = 0 /\ NoDatabase.sound = TRUE
  /\ NoDatabase.litestream = FALSE
BY StartupAssumption DEF NoDatabase, Database, Databases, Versions

-----------------------------------------------------------------------------
(* The first state *)

LEMMA EmptyTyped == Database("empty", 0, 0, FALSE) \in Databases
BY StartupAssumption DEF Database, Databases, Versions

LEMMA InitInductive == Init => Inductive
<1> SUFFICES ASSUME Init PROVE Inductive
  OBVIOUS
<1>1. /\ db \in Databases /\ db.sound /\ (db.version = 0 => db.data = 0)
      /\ db.file \in {"absent", "there"}
      /\ db.file = "absent" => db = NoDatabase
  <2>1. CASE db = NoDatabase
    BY <2>1, NoDatabaseFields
  <2>2. ASSUME NEW v \in 1..Target + 1, NEW d \in 0..1, NEW l \in BOOLEAN,
               db = Database("there", v, d, l)
        PROVE  /\ db \in Databases /\ db.sound
               /\ db.version # 0 /\ db.file = "there"
    BY <2>2, StartupAssumption DEF Database, Databases, Versions
  <2>3. \/ db = NoDatabase
        \/ \E v \in 1..Target + 1, d \in 0..1, l \in BOOLEAN :
             db = Database("there", v, d, l)
    BY DEF Init, StartupInit
  <2> QED
    BY <2>1, <2>2, <2>3
<1>2. /\ replica \in Databases /\ (replica.version = 0 => replica.data = 0)
      /\ replica.file # "empty"
      /\ replica.file = "absent" => replica = NoDatabase
      /\ db.file # "absent" => replica.data <= db.data
  <2>1. replica = NoDatabase \/ replica = db
    BY DEF Init, StartupInit
  <2>2. CASE replica = NoDatabase
    BY <2>2, <1>1, NoDatabaseFields DEF Databases
  <2>3. CASE replica = db
    BY <2>3, <1>1 DEF Databases
  <2> QED
    BY <2>1, <2>2, <2>3
<1>3. TypeOK
  <2>1. /\ backups \subseteq [version : Versions, data : Nat,
                              verified : BOOLEAN]
        /\ mode \in Modes /\ crashes \in 0..CrashBound
        /\ phase \in StartPhases
    BY StartupAssumption DEF Init, StartupInit, StartPhases
  <2>2. /\ fresh = FALSE /\ backed = FALSE /\ timer = "none" /\ active = 0
        /\ ticking = FALSE /\ wakeRequested = FALSE /\ stopping = FALSE
        /\ preview = FALSE /\ outbox = FALSE /\ survey = FALSE
    BY DEF Init, StartupInit, LoopIdle
  <2> QED
    BY <1>1, <1>2, <2>1, <2>2 DEF TypeOK
<1>4. StartInductive
  BY <1>1, <1>2
     DEF Init, StartupInit, StartInductive, FileFollowsPhase,
         VersionFollowsPhase, ReplicaIsBehind, SchemaBeforeData, LifeIsTrue,
         StartPhases, RunPhases, ClosePhases, Past, Ready
<1>5. LoopsFollowPhase
  BY DEF Init, StartupInit, LoopIdle, LoopsFollowPhase, StartPhases
<1> QED
  BY <1>3, <1>4, <1>5 DEF Inductive

-----------------------------------------------------------------------------
(* The start *)

LEMMA BackupTyped ==
  ASSUME TypeOK, NEW verified \in BOOLEAN
  PROVE  /\ Backup(verified)
              \in [version : Versions, data : Nat, verified : BOOLEAN]
         /\ Backup(verified).verified = verified
         /\ Backup(verified).data = db.data
         /\ Backup(verified).version = db.version
BY DEF TypeOK, Databases, Backup

LEMMA StartupTyped ==
  ASSUME TypeOK, StartupStep, UNCHANGED <<loopVars, passVars>>
  PROVE  TypeOK'
<1> USE StartupAssumption
    DEF TypeOK, loopVars, passVars, diskVars, lifeVars, StartPhases, Databases,
        Versions, Database, Exit
<1>1. CASE UseExisting BY <1>1 DEF UseExisting
<1>2. CASE Restore BY <1>2 DEF Restore
<1>3. CASE StartFresh BY <1>3 DEF StartFresh
<1>4. CASE Connect
  <2>1. CASE Present(db) BY <1>4, <2>1 DEF Connect
  <2>2. CASE ~Present(db) BY <1>4, <2>2, EmptyTyped DEF Connect
  <2> QED BY <2>1, <2>2
<1>5. CASE Initialise BY <1>5 DEF Initialise
<1>6. CASE Foundation BY <1>6 DEF Foundation
<1>7. CASE RefuseNewer BY <1>7 DEF RefuseNewer
<1>8. CASE CopyBackup BY <1>8, BackupTyped DEF CopyBackup
<1>9. CASE VerifyBackup
  <2>1. backups' \subseteq [version : Versions, data : Nat,
                            verified : BOOLEAN]
    BY <1>9, BackupTyped DEF VerifyBackup
  <2> QED
    BY <1>9, <2>1 DEF VerifyBackup
<1>10. CASE RefuseLegacy BY <1>10 DEF RefuseLegacy
<1>11. CASE Migrate
  <2>1. PICK sound \in BOOLEAN :
          db' = [db EXCEPT !.version = @ + 1, !.sound = @ /\ sound]
    BY <1>11 DEF Migrate
  <2>2. db.version + 1 \in Versions /\ (db.sound /\ sound) \in BOOLEAN
    BY <1>11 DEF Migrate, Pending
  <2>3. db' \in Databases
    BY <2>1, <2>2
  <2> QED
    BY <1>11, <2>3 DEF Migrate
<1>12. CASE Qualify BY <1>12 DEF Qualify
<1>13. CASE VerifyLedger BY <1>13 DEF VerifyLedger
<1>14. CASE RefuseUnknown BY <1>14 DEF RefuseUnknown
<1>15. CASE KnownSchema BY <1>15 DEF KnownSchema
<1> QED
  BY <1>1, <1>2, <1>3, <1>4, <1>5, <1>6, <1>7, <1>8, <1>9, <1>10, <1>11,
     <1>12, <1>13, <1>14, <1>15 DEF StartupStep

LEMMA StartupInductive ==
  ASSUME TypeOK, StartInductive, StartupStep
  PROVE  /\ StartInductive'
         /\ phase \in StartPhases /\ phase' \in StartPhases
<1> USE StartupAssumption
    DEF TypeOK, StartInductive, FileFollowsPhase, VersionFollowsPhase,
        ReplicaIsBehind, SchemaBeforeData, LifeIsTrue, HasBackup, diskVars,
        lifeVars, StartPhases, Past, RunPhases, ClosePhases, Databases,
        Versions, Database, NoDatabase, Exit, Present, Whole, Ready
<1>1. CASE UseExisting BY <1>1 DEF UseExisting
<1>2. CASE Restore BY <1>2 DEF Restore
<1>3. CASE StartFresh BY <1>3 DEF StartFresh
<1>4. CASE Connect BY <1>4 DEF Connect
<1>5. CASE Initialise BY <1>5 DEF Initialise
<1>6. CASE Foundation BY <1>6 DEF Foundation
<1>7. CASE RefuseNewer BY <1>7 DEF RefuseNewer
<1>8. CASE CopyBackup BY <1>8 DEF CopyBackup
<1>9. CASE VerifyBackup
  <2>1. Backup(TRUE) \in backups' /\ db' = db
    BY <1>9 DEF VerifyBackup
  <2>2. /\ Backup(TRUE).verified /\ Backup(TRUE).data = db.data
        /\ Backup(TRUE).version = db.version /\ db.version <= db.version
    BY DEF Backup
  <2>3. HasBackup'
    BY <2>1, <2>2
  <2> QED
    BY <1>9, <2>1, <2>3 DEF VerifyBackup
<1>10. CASE RefuseLegacy BY <1>10 DEF RefuseLegacy
<1>11. CASE Migrate BY <1>11 DEF Migrate, Pending, Upgradable
<1>12. CASE Qualify BY <1>12 DEF Qualify
<1>13. CASE VerifyLedger BY <1>13 DEF VerifyLedger
<1>14. CASE RefuseUnknown BY <1>14 DEF RefuseUnknown
<1>15. CASE KnownSchema BY <1>15 DEF KnownSchema
<1> QED
  BY <1>1, <1>2, <1>3, <1>4, <1>5, <1>6, <1>7, <1>8, <1>9, <1>10, <1>11,
     <1>12, <1>13, <1>14, <1>15 DEF StartupStep

LEMMA SurroundingsInductive ==
  ASSUME Inductive, Surroundings
  PROVE  Inductive'
<1> USE StartupAssumption
    DEF Inductive, TypeOK, StartInductive, FileFollowsPhase,
        VersionFollowsPhase, ReplicaIsBehind, SchemaBeforeData, LifeIsTrue,
        HasBackup, diskVars, lifeVars, loopVars, passVars, StartPhases, Past,
        RunPhases, ClosePhases, Databases, Versions, Database, NoDatabase,
        Exit, Ready, LoopsFollowPhase, LoopIdle
<1>1. CASE Replicate /\ UNCHANGED <<loopVars, passVars>>
  BY <1>1 DEF Replicate
<1>2. CASE LoseDisk /\ UNCHANGED <<loopVars, passVars>>
  BY <1>2 DEF LoseDisk
<1>3. CASE FailBackup /\ UNCHANGED <<loopVars, passVars>>
  <2>1. TypeOK'
    <3> HIDE DEF Databases, Versions, Database, NoDatabase
    <3>1. backups' \subseteq backups
      BY <1>3 DEF FailBackup
    <3>2. crashes' \in 0..CrashBound
      BY <1>3 DEF FailBackup
    <3> QED
      BY <1>3, <3>1, <3>2 DEF FailBackup
  <2>2. StartInductive'
    BY <1>3 DEF FailBackup
  <2>3. LoopsFollowPhase'
    BY <1>3 DEF FailBackup
  <2> QED
    BY <2>1, <2>2, <2>3
<1>4. CASE Litestream /\ UNCHANGED <<loopVars, passVars>>
  <2>1. UNCHANGED <<replica, backups, phase, lifeVars>>
    BY <1>4 DEF Litestream
  <2>2. /\ db'.file = db.file /\ db'.version = db.version
        /\ db'.data = db.data /\ db'.sound = db.sound
        /\ db' \in Databases /\ db.file = "there"
    BY <1>4 DEF Litestream
  <2>3. TypeOK' /\ LoopsFollowPhase'
    <3> HIDE DEF Databases, Versions, Database, NoDatabase
    <3> QED
      BY <1>4, <2>2 DEF Litestream
  <2>4. StartInductive'
    <3> HIDE DEF Databases, Versions, Database, NoDatabase
    <3> QED
      BY <2>1, <2>2
  <2> QED
    BY <2>3, <2>4
<1> QED
  BY <1>1, <1>2, <1>3, <1>4 DEF Surroundings

-----------------------------------------------------------------------------
(* Running and closing *)

Served == RunPhases \cup ClosePhases

\* These steps leave the disk alone: they move on, end the process, or stay.
QuietStep ==
  /\ UNCHANGED <<diskVars, mode>>
  /\ crashes' \in 0..CrashBound
  /\ \/ UNCHANGED startupVars
     \/ Exit
     \/ /\ phase \in {"migrated"} \cup Served /\ phase' \in Served
        /\ UNCHANGED lifeVars

LEMMA QuietStepInductive ==
  ASSUME StartInductive, QuietStep
  PROVE  StartInductive'
BY DEF StartInductive, QuietStep, Served, FileFollowsPhase,
       VersionFollowsPhase, ReplicaIsBehind, SchemaBeforeData, LifeIsTrue,
       HasBackup, diskVars, lifeVars, startupVars, StartPhases, Past,
       RunPhases, ClosePhases, Exit, Ready

RunStep ==
  \/ Runs \/ Closes \/ StorageFails \/ PreviewPass \/ OutboxPass
  \/ OutboxWakes \/ AssetPass \/ Signal \/ PreviewOutlasts \/ Crash

LEMMA RunStepQuiet ==
  ASSUME TypeOK, RunStep
  PROVE  QuietStep
<1> USE DEF TypeOK, QuietStep, Served, RunPhases, ClosePhases, StartPhases,
            startupVars, diskVars, lifeVars, Exit
<1>1. CASE StorageReady BY <1>1, StartupAssumption DEF StorageReady, To
<1>2. CASE StorageFails BY <1>2, StartupAssumption DEF StorageFails, Gone
<1>3. CASE StartLoops BY <1>3, StartupAssumption DEF StartLoops, To
<1>4. CASE Listen BY <1>4, StartupAssumption DEF Listen, To
<1>5. CASE PreviewPass BY <1>5, StartupAssumption DEF PreviewPass
<1>6. CASE PreviewEnds BY <1>6, StartupAssumption DEF PreviewEnds
<1>7. CASE OutboxPass BY <1>7, StartupAssumption DEF OutboxPass
<1>8. CASE OutboxWakes BY <1>8, StartupAssumption DEF OutboxWakes
<1>9. CASE OutboxEnds BY <1>9, StartupAssumption DEF OutboxEnds
<1>10. CASE LoopTick BY <1>10, StartupAssumption DEF LoopTick
<1>11. CASE LoopEndTick BY <1>11, StartupAssumption DEF LoopEndTick
<1>12. CASE Signal BY <1>12, StartupAssumption DEF Signal, To
<1>13. CASE PreviewStopped BY <1>13, StartupAssumption DEF PreviewStopped, To
<1>14. CASE PreviewOutlasts BY <1>14, StartupAssumption DEF PreviewOutlasts, Gone
<1>15. CASE OutboxStopped BY <1>15, StartupAssumption DEF OutboxStopped, To
<1>16. CASE CloseResources BY <1>16, StartupAssumption DEF CloseResources, To
<1>17. CASE Leave BY <1>17, StartupAssumption DEF Leave, Gone
<1>18. CASE Crash BY <1>18, StartupAssumption DEF Crash, Gone
<1>19. CASE AssetPass BY <1>19, StartupAssumption DEF AssetPass
<1>20. CASE AssetPassEnds BY <1>20, StartupAssumption DEF AssetPassEnds
<1> QED
  BY <1>1, <1>2, <1>3, <1>4, <1>5, <1>6, <1>7, <1>8, <1>9, <1>10, <1>11,
     <1>12, <1>13, <1>14, <1>15, <1>16, <1>17, <1>18, <1>19, <1>20
     DEF RunStep, Runs, Closes

LEMMA RunStepTyped ==
  ASSUME TypeOK, RunStep
  PROVE  TypeOK'
<1>1. /\ db' \in Databases /\ replica' \in Databases
      /\ backups' \subseteq [version : Versions, data : Nat,
                             verified : BOOLEAN]
      /\ mode' \in Modes /\ crashes' \in 0..CrashBound
      /\ phase' \in StartPhases \cup RunPhases \cup ClosePhases
      /\ fresh' \in BOOLEAN /\ backed' \in BOOLEAN
  BY RunStepQuiet
     DEF TypeOK, QuietStep, Served, diskVars, lifeVars, startupVars, Exit,
         StartPhases
<1>2. /\ timer' \in {"none", "now", "poll"} /\ active' \in {0, 1}
      /\ ticking' \in BOOLEAN /\ wakeRequested' \in BOOLEAN
      /\ stopping' \in BOOLEAN /\ preview' \in BOOLEAN /\ outbox' \in BOOLEAN
      /\ survey' \in BOOLEAN
  <2> USE DEF TypeOK, loopVars, passVars, startupVars
  <2>1. CASE StorageReady BY <2>1 DEF StorageReady
  <2>2. CASE StorageFails BY <2>2 DEF StorageFails, Gone, LoopGone
  <2>3. CASE StartLoops BY <2>3 DEF StartLoops, Start, Wake
  <2>4. CASE Listen BY <2>4 DEF Listen
  <2>5. CASE PreviewPass BY <2>5 DEF PreviewPass
  <2>6. CASE PreviewEnds BY <2>6 DEF PreviewEnds
  <2>7. CASE OutboxPass BY <2>7 DEF OutboxPass
  <2>8. CASE OutboxWakes BY <2>8 DEF OutboxWakes, Wake
  <2>9. CASE OutboxEnds BY <2>9 DEF OutboxEnds
  <2>10. CASE LoopTick BY <2>10 DEF LoopTick, Tick
  <2>11. CASE LoopEndTick BY <2>11 DEF LoopEndTick, EndTick
  <2>12. CASE Signal BY <2>12 DEF Signal
  <2>13. CASE PreviewStopped BY <2>13 DEF PreviewStopped
  <2>14. CASE PreviewOutlasts BY <2>14 DEF PreviewOutlasts, Gone, LoopGone
  <2>15. CASE OutboxStopped BY <2>15 DEF OutboxStopped, Stop
  <2>16. CASE CloseResources BY <2>16 DEF CloseResources
  <2>17. CASE Leave BY <2>17 DEF Leave, Gone, LoopGone
  <2>18. CASE Crash BY <2>18 DEF Crash, Gone, LoopGone
  <2>19. CASE AssetPass BY <2>19 DEF AssetPass
  <2>20. CASE AssetPassEnds BY <2>20 DEF AssetPassEnds
  <2> QED
    BY <2>1, <2>2, <2>3, <2>4, <2>5, <2>6, <2>7, <2>8, <2>9, <2>10, <2>11,
       <2>12, <2>13, <2>14, <2>15, <2>16, <2>17, <2>18, <2>19, <2>20
       DEF RunStep, Runs, Closes
<1> QED
  BY <1>1, <1>2 DEF TypeOK

LEMMA RunStepLoops ==
  ASSUME TypeOK, LoopsFollowPhase, RunStep
  PROVE  LoopsFollowPhase'
<1> USE DEF TypeOK, LoopsFollowPhase, LoopIdle, StartPhases, RunPhases,
            ClosePhases, loopVars, passVars, startupVars, diskVars
<1>1. CASE StorageReady BY <1>1 DEF StorageReady, To
<1>2. CASE StorageFails BY <1>2 DEF StorageFails, Gone, LoopGone, Exit
<1>3. CASE StartLoops BY <1>3 DEF StartLoops, To, Start, Wake
<1>4. CASE Listen BY <1>4 DEF Listen, To
<1>5. CASE PreviewPass BY <1>5 DEF PreviewPass
<1>6. CASE PreviewEnds BY <1>6 DEF PreviewEnds
<1>7. CASE OutboxPass BY <1>7 DEF OutboxPass
<1>8. CASE OutboxWakes BY <1>8 DEF OutboxWakes, Wake
<1>9. CASE OutboxEnds BY <1>9 DEF OutboxEnds
<1>10. CASE LoopTick BY <1>10 DEF LoopTick, Tick
<1>11. CASE LoopEndTick BY <1>11 DEF LoopEndTick, EndTick
<1>12. CASE Signal BY <1>12 DEF Signal, To
<1>13. CASE PreviewStopped BY <1>13 DEF PreviewStopped, To
<1>14. CASE PreviewOutlasts BY <1>14 DEF PreviewOutlasts, Gone, LoopGone, Exit
<1>15. CASE OutboxStopped BY <1>15 DEF OutboxStopped, To, Stop
<1>16. CASE CloseResources BY <1>16 DEF CloseResources, To
<1>17. CASE Leave BY <1>17 DEF Leave, Gone, LoopGone, Exit
<1>18. CASE Crash BY <1>18 DEF Crash, Gone, LoopGone, Exit
<1>19. CASE AssetPass BY <1>19 DEF AssetPass
<1>20. CASE AssetPassEnds BY <1>20 DEF AssetPassEnds
<1> QED
  BY <1>1, <1>2, <1>3, <1>4, <1>5, <1>6, <1>7, <1>8, <1>9, <1>10, <1>11,
     <1>12, <1>13, <1>14, <1>15, <1>16, <1>17, <1>18, <1>19, <1>20
     DEF RunStep, Runs, Closes

LEMMA WriteInductive ==
  ASSUME Inductive, Write
  PROVE  Inductive'
<1>1. /\ db.data + 1 \in Nat /\ phase = "serving" /\ phase' = phase
      /\ db' \in Databases
  BY DEF Inductive, TypeOK, Databases, Write
<1>2. /\ db'.data = db.data + 1 /\ db'.version = db.version
      /\ db'.file = db.file /\ db'.sound = db.sound
  BY DEF Inductive, TypeOK, Databases, Write
<1>3. TypeOK' /\ LoopsFollowPhase'
  BY <1>1
     DEF Inductive, TypeOK, Write, lifeVars, loopVars, passVars,
         LoopsFollowPhase, LoopIdle
<1>4. StartInductive'
  <2>1. db.version = Target /\ db.file = "there" /\ db.sound
    BY <1>1
       DEF Inductive, StartInductive, VersionFollowsPhase, FileFollowsPhase,
           Ready, StartPhases, Past, RunPhases
  <2>2. UNCHANGED <<replica, fresh, backed>> /\ phase' \notin StartPhases
    BY <1>1 DEF Write, lifeVars, StartPhases
  <2>3. replica.data <= db.data /\ replica.data \in Nat /\ db.data \in Nat
    BY <2>1
       DEF Inductive, TypeOK, Databases, StartInductive, ReplicaIsBehind
  <2>4. replica.data <= db.data + 1
    BY <2>3
  <2> QED
    BY <1>1, <1>2, <2>1, <2>2, <2>4, StartupAssumption
       DEF Inductive, StartInductive, FileFollowsPhase, VersionFollowsPhase,
           ReplicaIsBehind, SchemaBeforeData, LifeIsTrue, Ready, StartPhases,
           Past
<1> QED
  BY <1>3, <1>4 DEF Inductive

LEMMA Steps ==
  [Next]_vars => \/ UNCHANGED vars \/ Begins \/ Surroundings \/ RunStep \/ Write
BY DEF Next, RunStep

LEMMA StepInductive == Inductive /\ [Next]_vars => Inductive'
<1> SUFFICES ASSUME Inductive, [Next]_vars PROVE Inductive'
  OBVIOUS
<1>1. CASE UNCHANGED vars
  BY <1>1
     DEF vars, startupVars, diskVars, lifeVars, loopVars, passVars, Inductive,
         TypeOK, StartInductive, FileFollowsPhase, VersionFollowsPhase,
         ReplicaIsBehind, SchemaBeforeData, LifeIsTrue, HasBackup, Ready,
         LoopsFollowPhase, LoopIdle
<1>2. CASE Begins
  <2>1. /\ TypeOK' /\ StartInductive'
        /\ phase \in StartPhases /\ phase' \in StartPhases
    BY <1>2, StartupTyped, StartupInductive DEF Begins, Inductive
  <2>2. LoopsFollowPhase'
    BY <1>2, <2>1
       DEF Begins, Inductive, LoopsFollowPhase, LoopIdle, loopVars, passVars,
           StartPhases
  <2> QED
    BY <2>1, <2>2 DEF Inductive
<1>3. CASE Surroundings
  BY <1>3, SurroundingsInductive
<1>4. CASE RunStep
  BY <1>4, RunStepQuiet, QuietStepInductive, RunStepTyped, RunStepLoops
     DEF Inductive
<1>5. CASE Write
  BY <1>5, WriteInductive
<1> QED
  BY <1>1, <1>2, <1>3, <1>4, <1>5, Steps

LEMMA AlwaysInductive == Spec => []Inductive
BY InitInductive, StepInductive, PTL DEF Spec

-----------------------------------------------------------------------------
(* The theorems *)

\* Files, backups, phases and flags have their types (sqlite-system-database,
\* durable-job-dispatcher and the wiring of app.ts).
THEOREM TypeCorrect == Spec => []TypeOK
<1>1. Inductive => TypeOK
  BY DEF Inductive
<1> QED
  BY <1>1, AlwaysInductive, PTL

\* A process that serves has the whole schema, no dangling reference, and all
\* that its replica has, wherever crashes struck the start or the migration.
THEOREM ServedIsWhole == Spec => []ServedDatabaseIsWhole
<1>1. Inductive => ServedDatabaseIsWhole
  <2> SUFFICES ASSUME Inductive, Ready PROVE ServedDatabaseIsWhole
    BY DEF ServedDatabaseIsWhole
  <2>1. phase \in RunPhases \cup ClosePhases
    BY DEF Inductive, TypeOK, Ready
  <2>2. Whole(db) /\ db.version = Target
    BY <2>1
       DEF Inductive, StartInductive, FileFollowsPhase, VersionFollowsPhase,
           Past, RunPhases, ClosePhases, Whole
  <2>3. replica.data <= db.data /\ db.data \in Nat /\ replica.data \in Nat
    BY <2>2
       DEF Inductive, StartInductive, ReplicaIsBehind, Whole, TypeOK, Databases
  <2> QED
    BY <2>2, <2>3 DEF ServedDatabaseIsWhole
<1> QED
  BY <1>1, AlwaysInductive, PTL

\* When the close hook has closed the shared resources, the passes that it
\* waits for, of preview maintenance and of the outbox, have ended, and the
\* dispatcher begins no more rounds.  A pass of Asset maintenance, for which it
\* does not wait, may go on.
THEOREM AwaitedHaveEnded == Spec => []ClosedAfterAwaited
<1>1. Inductive => ClosedAfterAwaited
  BY DEF Inductive, LoopsFollowPhase, ClosedAfterAwaited
<1> QED
  BY <1>1, AlwaysInductive, PTL

-----------------------------------------------------------------------------
(* Upgrades *)

UpgradeStep ==
  db.file = "there" /\ db.data > 0 /\ db'.version > db.version => HasBackup

LEMMA UpgradeHasBackup ==
  ASSUME Inductive, [Next]_vars
  PROVE  UpgradeStep
<1> SUFFICES ASSUME db.file = "there", db.data > 0, db'.version > db.version
             PROVE  HasBackup
  BY DEF UpgradeStep
<1>1. db \in Databases /\ replica \in Databases
  BY DEF Inductive, TypeOK
<1>2. db' # db
  BY <1>1 DEF Databases, Versions
<1>3. ~(\/ UNCHANGED vars \/ RunStep)
  BY <1>2, RunStepQuiet
     DEF vars, startupVars, diskVars, QuietStep, Inductive
<1>4. ~Write
  BY <1>1, <1>2 DEF Write, Databases, Versions
<1>5. ~Surroundings
  <2>1. db.version \in Versions
    BY <1>1 DEF Databases
  <2>2. ~(db' = NoDatabase)
    BY <2>1, NoDatabaseFields DEF Versions
  <2>3. ~Litestream
    BY <1>1 DEF Litestream, Databases, Versions
  <2>4. QED
    BY <1>2, <2>2, <2>3
       DEF Surroundings, Replicate, LoseDisk, FailBackup
<1>6. StartupStep
  BY <1>3, <1>4, <1>5, Steps DEF Begins
<1>7. CASE Foundation
  BY <1>7, <1>1
     DEF Foundation, Inductive, StartInductive, SchemaBeforeData, Databases
<1>8. CASE Migrate
  BY <1>8, <1>1
     DEF Migrate, Upgradable, Inductive, StartInductive, LifeIsTrue,
         StartPhases, Databases
<1>9. CASE ~Foundation /\ ~Migrate
  BY <1>6, <1>9, <1>2
     DEF StartupStep, UseExisting, Restore, StartFresh, Connect, Initialise,
         RefuseUnknown, KnownSchema, RefuseNewer, CopyBackup, VerifyBackup, RefuseLegacy, Qualify,
         VerifyLedger, diskVars, Present, Inductive, StartInductive,
         FileFollowsPhase
<1> QED
  BY <1>7, <1>8, <1>9

\* No step changes the schema of a database with contents unless a verified
\* backup holds them, in whichever life the upgrade was begun.
THEOREM UpgradesHaveBackups == Spec => UpgradesAreBackedUp
<1>1. Inductive /\ [Next]_vars
        => [db.file = "there" /\ db.data > 0 /\ db'.version > db.version
              => \E b \in backups :
                   b.verified /\ b.data = db.data
                   /\ b.version <= db.version]_startupVars
  BY UpgradeHasBackup DEF UpgradeStep, HasBackup
<1> QED
  BY <1>1, AlwaysInductive, PTL DEF Spec, UpgradesAreBackedUp

-----------------------------------------------------------------------------
(* The dispatcher's promise *)

LEMMA PromiseInit == Init => Promise!Init
BY DEF Init, StartupInit, LoopIdle, Promise!Init

LEMMA PromiseStep ==
  ASSUME Inductive, [Next]_vars
  PROVE  [Promise!Next]_(Promise!wakeupVars)
<1> USE DEF Promise!Next, Promise!Open, Promise!Ask, Promise!Begin,
            Promise!End, Promise!Stop, Promise!wakeupVars
<1>1. TypeOK /\ LoopsFollowPhase
  BY DEF Inductive
<1>2. CASE UNCHANGED <<phase, loopVars>>
  BY <1>2 DEF loopVars
<1>3. CASE Begins
  <2>1. phase \in StartPhases /\ phase' \in StartPhases
    BY <1>3, StartupInductive DEF Begins, Inductive
  <2> QED
    BY <1>1, <1>3, <2>1
       DEF Begins, LoopsFollowPhase, LoopIdle, loopVars, passVars, StartPhases
<1>4. CASE Surroundings
  BY <1>1, <1>4
     DEF Surroundings, Litestream, Replicate, LoseDisk, FailBackup, Exit, loopVars,
         passVars, LoopsFollowPhase, LoopIdle, StartPhases
<1>5. CASE Write
  BY <1>2, <1>5 DEF Write
<1>6. CASE RunStep
  <2> USE <1>1 DEF TypeOK, LoopsFollowPhase, LoopIdle, StartPhases, RunPhases,
                   ClosePhases, loopVars, passVars, startupVars, diskVars
  <2>1. CASE StorageReady BY <2>1 DEF StorageReady, To
  <2>2. CASE StorageFails BY <2>2 DEF StorageFails, Gone, LoopGone, Exit
  <2>3. CASE StartLoops BY <2>3 DEF StartLoops, To, Start, Wake
  <2>4. CASE Listen BY <2>4 DEF Listen, To
  <2>5. CASE PreviewPass BY <2>5 DEF PreviewPass
  <2>6. CASE PreviewEnds BY <2>6 DEF PreviewEnds
  <2>7. CASE OutboxPass BY <2>7 DEF OutboxPass
  <2>8. CASE OutboxWakes BY <2>8 DEF OutboxWakes, Wake
  <2>9. CASE OutboxEnds BY <2>9 DEF OutboxEnds
  <2>10. CASE LoopTick BY <2>10 DEF LoopTick, Tick
  <2>11. CASE LoopEndTick BY <2>11 DEF LoopEndTick, EndTick
  <2>12. CASE Signal BY <2>12 DEF Signal, To
  <2>13. CASE PreviewStopped BY <2>13 DEF PreviewStopped, To
  <2>14. CASE PreviewOutlasts BY <2>14 DEF PreviewOutlasts, Gone, LoopGone, Exit
  <2>15. CASE OutboxStopped BY <2>15 DEF OutboxStopped, To, Stop
  <2>16. CASE CloseResources BY <2>16 DEF CloseResources, To
  <2>17. CASE Leave BY <2>17 DEF Leave, Gone, LoopGone, Exit
  <2>18. CASE Crash BY <2>18 DEF Crash, Gone, LoopGone, Exit
  <2>19. CASE AssetPass BY <2>19 DEF AssetPass
  <2>20. CASE AssetPassEnds BY <2>20 DEF AssetPassEnds
  <2> QED
    BY <1>6, <2>1, <2>2, <2>3, <2>4, <2>5, <2>6, <2>7, <2>8, <2>9, <2>10, <2>11,
       <2>12, <2>13, <2>14, <2>15, <2>16, <2>17, <2>18, <2>19, <2>20
       DEF RunStep, Runs, Closes
<1>7. CASE UNCHANGED vars
  BY <1>2, <1>7 DEF vars, startupVars
<1> QED
  BY <1>3, <1>4, <1>5, <1>6, <1>7, Steps

\* Each step of the loop is a step of its promise: no wake is forgotten but by
\* the round that follows it, by a stop, or by the end of the process, and no
\* round begins while another one runs.
THEOREM WakeupsAreKept ==
  Spec => Promise!Init /\ [][Promise!Next]_(Promise!wakeupVars)
BY PromiseInit, PromiseStep, AlwaysInductive, PTL DEF Spec
=============================================================================
