------------------------------- MODULE Projects -------------------------------
(***************************************************************************)
(* One Project on the server: its row, its composition versions, and the   *)
(* commands of its owner's clients.  A command is one HTTP request with an *)
(* idempotency key of its own.  It is handled in one immediate transaction *)
(* and one turn of the event loop; its answer may be lost, and its client  *)
(* may then repeat it with the same key.  No statement touches two         *)
(* Projects, so one is enough.  The keys of commands are kept apart: the   *)
(* record of a key is told by the command's slot.                          *)
(***************************************************************************)
EXTENDS CompositionDocument, FiniteSets

CONSTANTS
  Slots,             \* the commands that may be under way at once
  Documents,         \* documents that clients create compositions from
  EditLists,         \* lists of edits that clients derive with
  RetentionTicks,    \* PROJECT_RETENTION_MS, in ticks
  MaxCompositions,   \* bound: composition versions
  VersionBound       \* bound: the version of the Project commands are sent at

ASSUME ProjectsAssumption ==
  /\ \A document \in Documents : Valid(document)
  /\ RetentionTicks \in Nat \ {0}
  /\ MaxCompositions \in Nat /\ VersionBound \in Nat

VARIABLES
  pStatus, pVersion, pFavorite,
  pCurrent,       \* current_composition_version_id, 0 when it is NULL
  pRetention,     \* ticks until purge_after
  cNumber,        \* version_number by composition id, 0 before it is inserted
  cParent,        \* parent_version_id, 0 when it is NULL
  cDocument,      \* composition_json
  command,        \* the request in each slot
  recorded,       \* its idempotency record, and the composition it made
  outcome         \* what its client was last answered

projectVars == <<pStatus, pVersion, pFavorite, pCurrent, pRetention>>
compositionVars == <<cNumber, cParent, cDocument>>
serverVars == <<projectVars, compositionVars, command, recorded, outcome>>

-----------------------------------------------------------------------------
Statuses == {"absent", "active", "soft_deleted"}
Operations == {"none", "create", "update", "delete", "restore", "compose",
               "derive"}
Outcomes == {"idle", "sent", "accepted", "conflict", "refused"}
Compositions == 1..MaxCompositions

(* What a client that has read the Project knows of it.  Presentation is    *)
(* cut down to the favorite flag.                                           *)
Content == [status |-> pStatus, favorite |-> pFavorite, current |-> pCurrent]

Command(op, expected) ==
  [op |-> op, expected |-> expected, favorite |-> FALSE, base |-> 0,
   document |-> NoDocument, edits |-> <<>>, seen |-> Content]

Absent == [status |-> "absent", favorite |-> FALSE, current |-> 0]
NoCommand ==
  [op |-> "none", expected |-> 0, favorite |-> FALSE, base |-> 0,
   document |-> NoDocument, edits |-> <<>>, seen |-> Absent]
NotRecorded == [done |-> FALSE, made |-> 0]
Made == {c \in Compositions : cNumber[c] > 0}

-----------------------------------------------------------------------------
(* Idempotency: begin and complete, in the transaction of the command.  A   *)
(* refusal rolls the transaction back and leaves no record.                 *)

Handled(s, op) == outcome[s] # "idle" /\ command[s].op = op
Begun(s) == ~recorded[s].done

Replay(s) ==
  /\ ~Begun(s)
  /\ outcome' = [outcome EXCEPT ![s] = "accepted"]
  /\ UNCHANGED <<projectVars, compositionVars, command, recorded>>

Complete(s, made) ==
  /\ recorded' = [recorded EXCEPT ![s] = [done |-> TRUE, made |-> made]]
  /\ outcome' = [outcome EXCEPT ![s] = "accepted"]
  /\ UNCHANGED command

Refuse(s, answer) ==
  /\ outcome' = [outcome EXCEPT ![s] = answer]
  /\ UNCHANGED <<projectVars, compositionVars, command, recorded>>

-----------------------------------------------------------------------------
(* ProjectService *)

Expected(s) == pVersion = command[s].expected
Bumped == pVersion' = pVersion + 1
Writable(s) == pStatus = "active" /\ Expected(s)

MutationConflict(s) == IF pStatus = "active" THEN "conflict" ELSE "refused"

(* A second Project of the same owner is not followed. *)
CreateProject(s) ==
  /\ Handled(s, "create")
  /\ \/ Replay(s)
     \/ /\ Begun(s)
        /\ IF pStatus = "absent"
           THEN /\ pStatus' = "active" /\ pVersion' = 1
                /\ UNCHANGED <<pFavorite, pCurrent, pRetention>>
           ELSE UNCHANGED projectVars
        /\ Complete(s, 0)
        /\ UNCHANGED compositionVars

Update(s) ==
  /\ Handled(s, "update")
  /\ \/ Replay(s)
     \/ /\ Begun(s) /\ Writable(s)
        /\ pFavorite' = command[s].favorite
        /\ Bumped
        /\ Complete(s, 0)
        /\ UNCHANGED <<pStatus, pCurrent, pRetention, compositionVars>>
     \/ Begun(s) /\ ~Writable(s) /\ Refuse(s, MutationConflict(s))

SoftDelete(s) ==
  /\ Handled(s, "delete")
  /\ \/ Replay(s)
     \/ /\ Begun(s) /\ Writable(s)
        /\ pStatus' = "soft_deleted"
        /\ pRetention' = RetentionTicks
        /\ Bumped
        /\ Complete(s, 0)
        /\ UNCHANGED <<pFavorite, pCurrent, compositionVars>>
     \/ Begun(s) /\ ~Writable(s) /\ Refuse(s, MutationConflict(s))

Restorable(s) == pStatus = "soft_deleted" /\ pRetention > 0 /\ Expected(s)

Restore(s) ==
  /\ Handled(s, "restore")
  /\ \/ Replay(s)
     \/ /\ Begun(s) /\ Restorable(s)
        /\ pStatus' = "active" /\ pRetention' = 0
        /\ Bumped
        /\ Complete(s, 0)
        /\ UNCHANGED <<pFavorite, pCurrent, compositionVars>>
     \/ /\ Begun(s) /\ ~Restorable(s)
        /\ Refuse(s, IF Expected(s) THEN "refused" ELSE "conflict")

-----------------------------------------------------------------------------
(* CompositionService *)

Newest == CHOOSE c \in Made : \A d \in Made : cNumber[c] >= cNumber[d]
NextVersionNumber == IF Made = {} THEN 1 ELSE cNumber[Newest] + 1

AnyParent(parent) == TRUE  \* as if a version could be derived from any
ParentIsCurrent(parent) == parent # 0 => pCurrent = parent

Insert(c, document, parent) ==
  /\ cNumber' = [cNumber EXCEPT ![c] = NextVersionNumber]
  /\ cParent' = [cParent EXCEPT ![c] = parent]
  /\ cDocument' = [cDocument EXCEPT ![c] = document]

AdvanceQuietly(c) ==
  /\ pCurrent' = c
  /\ UNCHANGED <<pStatus, pVersion, pFavorite, pRetention>>
AdvanceProjectPointer(c) ==
  /\ pCurrent' = c
  /\ Bumped
  /\ UNCHANGED <<pStatus, pFavorite, pRetention>>

(* resolveDocument may refuse any document: its Assets and the policy in    *)
(* force are not followed here.                                             *)
CreateVersion(s, document, parent) ==
  \/ Replay(s)
  \/ Begun(s) /\ pStatus # "active" /\ Refuse(s, "refused")
  \/ /\ Begun(s) /\ pStatus = "active"
     /\ ~(Expected(s) /\ ParentIsCurrent(parent))
     /\ Refuse(s, "conflict")
  \/ /\ Begun(s) /\ Writable(s) /\ ParentIsCurrent(parent)
     /\ \/ Refuse(s, "refused")
        \/ \E c \in Compositions \ Made :
             /\ c = Cardinality(Made) + 1
             /\ Insert(c, document, parent)
             /\ AdvanceProjectPointer(c)
             /\ Complete(s, c)

Compose(s) ==
  /\ Handled(s, "compose")
  /\ CreateVersion(s, command[s].document, 0)

(* The parent is read and edited before the transaction, in the same turn.  *)
Derive(s) ==
  /\ Handled(s, "derive")
  /\ LET parent == command[s].base
         edits == command[s].edits
     IN IF Accepts(cDocument[parent], edits)
        THEN CreateVersion(s, ApplyEdits(cDocument[parent], edits), parent)
        ELSE Refuse(s, "refused")

Handle(s) == \/ CreateProject(s) \/ Update(s) \/ SoftDelete(s) \/ Restore(s)
             \/ Compose(s) \/ Derive(s)

-----------------------------------------------------------------------------
(* Clients and time *)

Send(s, request) ==
  /\ outcome[s] = "idle"
  /\ pVersion < VersionBound
  /\ command' = [command EXCEPT ![s] = request]
  /\ recorded' = [recorded EXCEPT ![s] = NotRecorded]
  /\ outcome' = [outcome EXCEPT ![s] = "sent"]
  /\ UNCHANGED <<projectVars, compositionVars>>

Answered(s) == outcome[s] \notin {"idle", "sent"}

Close(s) ==
  /\ command' = [command EXCEPT ![s] = NoCommand]
  /\ recorded' = [recorded EXCEPT ![s] = NotRecorded]
  /\ outcome' = [outcome EXCEPT ![s] = "idle"]
  /\ UNCHANGED <<projectVars, compositionVars>>

Take(s) == Answered(s) /\ Close(s)

(* A client of the API that reads the Project and sends what it likes.      *)
Requests ==
  IF pStatus = "absent" THEN {Command("create", 0)}
  ELSE
    {[Command("update", pVersion) EXCEPT !.favorite = b] : b \in BOOLEAN}
    \cup {Command("delete", pVersion), Command("restore", pVersion)}
    \cup {[Command("compose", pVersion) EXCEPT !.document = d] :
            d \in Documents}

Derivation(base, edits) ==
  [Command("derive", pVersion) EXCEPT !.base = base, !.edits = edits]

Client(s) ==
  \/ Take(s)
  \/ \E request \in Requests : Send(s, request)
  \/ \E base \in Made, edits \in EditLists : Send(s, Derivation(base, edits))

Tick ==
  /\ pRetention > 0
  /\ pRetention' = pRetention - 1
  /\ UNCHANGED <<pStatus, pVersion, pFavorite, pCurrent, compositionVars,
                 command, recorded, outcome>>

ProjectsInit ==
  /\ pStatus = "absent" /\ pVersion = 0 /\ pFavorite = FALSE
  /\ pCurrent = 0 /\ pRetention = 0
  /\ cNumber = [c \in Compositions |-> 0]
  /\ cParent = [c \in Compositions |-> 0]
  /\ cDocument = [c \in Compositions |-> NoDocument]
  /\ command = [s \in Slots |-> NoCommand]
  /\ recorded = [s \in Slots |-> NotRecorded]
  /\ outcome = [s \in Slots |-> "idle"]

-----------------------------------------------------------------------------
(* Properties *)

(* Rows, commands and answers have their types, and every composition that  *)
(* was stored, created or derived by edits, is one that its schema accepts. *)
ServerTypeOK ==
  /\ pStatus \in Statuses /\ pVersion \in Nat /\ pCurrent \in {0} \cup Made
  /\ pRetention \in 0..RetentionTicks
  /\ cNumber \in [Compositions -> Nat] /\ cParent \in [Compositions -> Nat]
  /\ \A c \in Made : Valid(cDocument[c])
  /\ recorded \in [Slots -> [done : BOOLEAN, made : {0} \cup Compositions]]
  /\ outcome \in [Slots -> Outcomes]
  /\ \A s \in Slots : outcome[s] # "idle" => command[s].op \in Operations

(* The versions of a Project are numbered without gaps, the Project points  *)
(* at the newest one, and a derived version was derived from the one just   *)
(* before it: overlapping edits never branch the history.                   *)
HistoryIsAChain ==
  /\ {cNumber[c] : c \in Made} = 1..Cardinality(Made)
  /\ \A c, d \in Made : cNumber[c] = cNumber[d] => c = d
  /\ pCurrent = 0 <=> Made = {}
  /\ pCurrent # 0 => cNumber[pCurrent] = Cardinality(Made)
  /\ \A c \in Made :
       cParent[c] # 0 => /\ cParent[c] \in Made
                         /\ cNumber[cParent[c]] = cNumber[c] - 1

(* A command that names a version is carried out only on the content its    *)
(* client saw at that version: every change of the content, a composition   *)
(* that advances the pointer as much as a rename, changes the version.      *)
CommandsFitWhatWasSeen ==
  [][\A s \in Slots :
       /\ command[s].op \notin {"none", "create"}
       /\ recorded'[s].done /\ ~recorded[s].done
       => Content = command[s].seen]_serverVars

(* A client that repeats a command that was carried out is answered as the  *)
(* first time, whatever has become of the Project since.                    *)
AcceptedStays ==
  [][\A s \in Slots :
       outcome[s] = "accepted" => outcome'[s] \in {"accepted", "idle"}]_serverVars

(* A Project in the trash is restored as it was: nothing composes it or     *)
(* changes it while it lies there.                                          *)
TrashIsFrozen ==
  [][pStatus = "soft_deleted" =>
       UNCHANGED <<pFavorite, pCurrent, compositionVars>>]_serverVars
=============================================================================
