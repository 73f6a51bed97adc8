------------------------------- MODULE Startup -------------------------------
(***************************************************************************)
(* How one server process comes to its database: the bootstrap script that *)
(* restores a missing file from the replica, the migration of the schema   *)
(* with the backup before it, and what crashes leave behind.  The contents *)
(* of a database are the number of writes that were served; its references *)
(* are sound or not.  Litestream makes tables of its own in the file and   *)
(* copies it to the replica when it likes; the platform may take the local *)
(* disk away between two lives.  Of the list of tables a start compares,   *)
(* only those of Litestream are kept, and of the ledger, whose names and   *)
(* checksums are left out, the version it ends with.                       *)
(***************************************************************************)
EXTENDS Integers, FiniteSets

CONSTANTS
  Target,        \* the newest migration of this build
  Modes,         \* the bootstrap modes that the operator may set
  CrashBound,    \* bound: crashes and losses of the disk
  DataBound      \* bound: writes served

ASSUME StartupAssumption ==
  /\ Target \in Nat /\ Target > 2
  /\ Modes \subseteq {"fresh-if-replica-missing", "restore-required"}
  /\ CrashBound \in Nat /\ DataBound \in Nat

VARIABLES
  db,        \* the local database file
  replica,   \* what Litestream has copied of it
  backups,   \* the backup sets under /data
  mode,      \* DATABASE_BOOTSTRAP_MODE
  phase,     \* how far this process is
  fresh,     \* this process found no tables
  backed,    \* this process has made its backup
  crashes

diskVars == <<db, replica, backups>>
lifeVars == <<fresh, backed>>
startupVars == <<diskVars, mode, phase, lifeVars, crashes>>

-----------------------------------------------------------------------------
Versions == 0..Target + 1

(* Of Litestream's tables, _litestream_lock and _litestream_seq, a database *)
(* has both or none.                                                        *)
Database(file, version, data, litestream) ==
  [file |-> file, version |-> version, data |-> data, sound |-> TRUE,
   litestream |-> litestream]
NoDatabase == Database("absent", 0, 0, FALSE)

Databases == [file : {"absent", "empty", "there"}, version : Versions,
              data : Nat, sound : BOOLEAN, litestream : BOOLEAN]

StartPhases == {"off", "booted", "creating", "connected", "migrating",
                "copying", "qualifying", "migrated"}

(* The first life finds what earlier builds, or this one, have left; what a *)
(* database of version 1 may hold is metadata.                              *)
StartupInit ==
  /\ \E v \in 1..Target + 1, d \in 0..1, litestream \in BOOLEAN :
       db \in {NoDatabase, Database("there", v, d, litestream)}
  /\ replica \in {NoDatabase, db}
  /\ replica # NoDatabase => replica.litestream
  /\ backups = {}
  /\ mode \in Modes
  /\ phase = "off"
  /\ fresh = FALSE /\ backed = FALSE
  /\ crashes = 0

Exit == phase' = "off" /\ fresh' = FALSE /\ backed' = FALSE

-----------------------------------------------------------------------------
(* bootstrapLocalDatabase.  Where it throws, the entry script ends and the  *)
(* process is not started.                                                  *)

Present(database) == database.file # "absent"
Whole(database) == database.file = "there" /\ database.sound

UseAnyExisting ==
  /\ phase = "off" /\ Present(db)
  /\ phase' = "booted"
  /\ UNCHANGED <<diskVars, mode, lifeVars, crashes>>
UseExisting ==
  /\ phase = "off" /\ Present(db) /\ Whole(db)
  /\ phase' = "booted"
  /\ UNCHANGED <<diskVars, mode, lifeVars, crashes>>

Restore ==
  /\ phase = "off" /\ ~Present(db)
  /\ Present(replica) /\ Whole(replica)
  /\ db' = replica
  /\ phase' = "booted"
  /\ UNCHANGED <<replica, backups, mode, lifeVars, crashes>>

StartFresh ==
  /\ phase = "off" /\ ~Present(db)
  /\ ~Present(replica) /\ mode = "fresh-if-replica-missing"
  /\ phase' = "booted"
  /\ UNCHANGED <<diskVars, mode, lifeVars, crashes>>

-----------------------------------------------------------------------------
(* SqliteSystemDatabase *)

(* Opening a missing file creates it with no bytes; the first pragma that   *)
(* writes gives it a header.                                                *)
Connect ==
  /\ phase = "booted"
  /\ IF Present(db) THEN phase' = "connected" /\ UNCHANGED db
     ELSE phase' = "creating" /\ db' = Database("empty", 0, 0, FALSE)
  /\ UNCHANGED <<replica, backups, mode, lifeVars, crashes>>

Initialise ==
  /\ phase = "creating"
  /\ db' = [db EXCEPT !.file = "there"]
  /\ phase' = "connected"
  /\ UNCHANGED <<replica, backups, mode, lifeVars, crashes>>

(* A database is fresh only if it has no table at all.                      *)
Foundation ==
  /\ phase = "connected" /\ db.version = 0 /\ ~db.litestream
  /\ db' = [db EXCEPT !.version = 1]
  /\ fresh' = TRUE
  /\ UNCHANGED <<replica, backups, mode, phase, backed, crashes>>

(* Without a ledger, and at version 1, no table beside the expected ones is *)
(* allowed; from version 2 on those of Litestream are.                      *)
UnknownTables(database) == database.version < 2 /\ database.litestream

RefuseUnknown ==
  /\ phase = "connected" /\ UnknownTables(db)
  /\ Exit
  /\ UNCHANGED <<diskVars, mode, crashes>>

KnownSchema ==
  /\ phase = "connected" /\ db.version > 0 /\ ~UnknownTables(db)
  /\ phase' = "migrating"
  /\ UNCHANGED <<diskVars, mode, lifeVars, crashes>>

RefuseNewer ==
  /\ phase = "migrating" /\ db.version > Target
  /\ Exit
  /\ UNCHANGED <<diskVars, mode, crashes>>

Pending == db.version \in 1..Target - 1

Backup(verified) ==
  [version |-> db.version, data |-> db.data, verified |-> verified]

(* A backup is another directory each time, though not one that looks       *)
(* different here.                                                          *)
CopyToOnePlace ==
  /\ phase = "migrating" /\ Pending /\ ~fresh /\ ~backed /\ backups = {}
  /\ backups' = backups \cup {Backup(FALSE)}
  /\ phase' = "copying"
  /\ UNCHANGED <<db, replica, mode, lifeVars, crashes>>
CopyBackup ==
  /\ phase = "migrating" /\ Pending /\ ~fresh /\ ~backed
  /\ backups' = backups \cup {Backup(FALSE)}
  /\ phase' = "copying"
  /\ UNCHANGED <<db, replica, mode, lifeVars, crashes>>

VerifyBackup ==
  /\ phase = "copying"
  /\ backups' = (backups \ {Backup(FALSE)}) \cup {Backup(TRUE)}
  /\ backed' = TRUE
  /\ phase' = "migrating"
  /\ UNCHANGED <<db, replica, mode, fresh, crashes>>

(* The set that cannot be verified is removed, and the start fails.         *)
FailBackup ==
  /\ phase = "copying" /\ crashes < CrashBound
  /\ crashes' = crashes + 1
  /\ backups' = backups \ {Backup(FALSE)}
  /\ Exit
  /\ UNCHANGED <<db, replica, mode>>

BackedBefore == fresh \/ backed \/ db.version > 2
Upgradable == fresh \/ backed

RefuseLegacy ==
  /\ phase = "migrating" /\ db.version = 1 /\ Upgradable /\ db.data > 0
  /\ Exit
  /\ UNCHANGED <<diskVars, mode, crashes>>

(* One transaction per version.  The last one rebuilds tables with foreign  *)
(* keys off, and their references are checked after it has committed.       *)
Migrate ==
  /\ phase = "migrating" /\ Pending /\ Upgradable
  /\ db.version = 1 => db.data = 0
  /\ \E sound \in BOOLEAN :
       /\ ~sound => db.version = Target - 1 /\ db.data > 0
       /\ db' = [db EXCEPT !.version = @ + 1, !.sound = @ /\ sound]
  /\ phase' = IF db.version = Target - 1 THEN "qualifying" ELSE "migrating"
  /\ UNCHANGED <<replica, backups, mode, lifeVars, crashes>>

Qualify ==
  /\ phase = "qualifying"
  /\ IF db.sound THEN phase' = "migrating" /\ UNCHANGED lifeVars ELSE Exit
  /\ UNCHANGED <<diskVars, mode, crashes>>

VerifyLedger ==
  /\ phase = "migrating" /\ db.version = Target
  /\ phase' = "migrated"
  /\ UNCHANGED <<diskVars, mode, lifeVars, crashes>>

-----------------------------------------------------------------------------
(* The surroundings *)

(* It opens the file beside the process, before, while or after that makes  *)
(* its tables.                                                              *)
Litestream ==
  /\ phase # "off" /\ db.file = "there" /\ ~db.litestream
  /\ db' = [db EXCEPT !.litestream = TRUE]
  /\ UNCHANGED <<replica, backups, mode, phase, lifeVars, crashes>>

Replicate ==
  /\ phase # "off" /\ db.file = "there" /\ db.litestream
  /\ replica' = db
  /\ UNCHANGED <<db, backups, mode, phase, lifeVars, crashes>>

LoseDisk ==
  /\ phase = "off" /\ crashes < CrashBound
  /\ crashes' = crashes + 1
  /\ db' = NoDatabase
  /\ UNCHANGED <<replica, backups, mode, phase, lifeVars>>

StartupStep ==
  \/ UseExisting \/ Restore \/ StartFresh \/ Connect \/ Initialise
  \/ Foundation \/ RefuseUnknown \/ KnownSchema \/ RefuseNewer
  \/ CopyBackup \/ VerifyBackup \/ RefuseLegacy
  \/ Migrate \/ Qualify \/ VerifyLedger

-----------------------------------------------------------------------------
(* Properties *)

(* The schema of a database that was there before is changed only when a    *)
(* verified backup has its contents as they are, also in a life that goes   *)
(* on with the upgrade another one was interrupted in.                      *)
UpgradesAreBackedUp ==
  [][db.file = "there" /\ db.data > 0 /\ db'.version > db.version
       => \E b \in backups :
            b.verified /\ b.data = db.data /\ b.version <= db.version
    ]_startupVars

(* A process that serves has the whole schema, no reference that a          *)
(* migration left dangling, and all that the replica has.                   *)
Ready == phase \notin StartPhases
ServedDatabaseIsWhole ==
  Ready => /\ Whole(db)
           /\ db.version = Target
           /\ db.data >= replica.data

(* What no start of this build gets over without an operator: a file that   *)
(* was created and not initialised, a newer schema, tables of Litestream in *)
(* a database without ledger or of version 1, metadata of version 1,        *)
(* dangling references, or no replica where one is required.                *)
NeedsOperator ==
  LET source == IF Present(db) THEN db ELSE replica
  IN /\ phase = "off"
     /\ \/ Present(source) /\ ~Whole(source)
        \/ source.version > Target
        \/ UnknownTables(source)
        \/ source.version = 1 /\ source.data > 0
        \/ ~Present(source) /\ mode = "restore-required"
=============================================================================
