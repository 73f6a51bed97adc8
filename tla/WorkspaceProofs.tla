--------------------------- MODULE WorkspaceProofs ---------------------------
(***************************************************************************)
(* What a Project keeps for any number of clients, compositions and edits, *)
(* and what the tab sends to it.  First the server, whatever requests its  *)
(* clients make of what they saw; then the tab, whose rows may be old but  *)
(* never say of a version what was not its content; last the document,     *)
(* and what a list of edits makes of its scenes.                           *)
(***************************************************************************)
EXTENDS Workspace, FiniteSetTheorems, WellFoundedInduction, TLAPS

-----------------------------------------------------------------------------
(* The server *)

Composing == {"compose", "derive"}
Record == [done : BOOLEAN, made : {0} \cup Compositions]

ServerTyped ==
  /\ pStatus \in Statuses /\ pVersion \in Nat /\ pCurrent \in Nat
  /\ pStatus = "absent" => pVersion = 0
  /\ cNumber \in [Compositions -> Nat]
  /\ cParent \in [Compositions -> Nat]
  /\ cDocument = [c \in Compositions |-> cDocument[c]]
  /\ command = [s \in Slots |-> command[s]]
  /\ recorded \in [Slots -> Record]
  /\ outcome \in [Slots -> Outcomes]

(* The compositions are inserted one after the other, each with the number  *)
(* and the parent that its place gives it.                                  *)
Chain ==
  /\ Made = 1..pCurrent
  /\ \A c \in Made : Valid(cDocument[c])
  /\ \A c \in Made : cNumber[c] = c /\ cParent[c] \in {0, c - 1}

(* A request under way was made of a version and of its content.            *)
SawVersion(version, content) ==
  version \in Nat /\ version <= pVersion
  /\ (version = pVersion => content = Content)
Request(r) ==
  /\ r.op \in Operations \ {"none"}
  /\ r.op # "create" => SawVersion(r.expected, r.seen)
  /\ r.op = "derive" => r.base # 0
  /\ r.op = "compose" => Valid(r.document)

(* The content once a command has advanced the pointer.                     *)
After(content, made) == [content EXCEPT !.current = made]

(* What the record of a command that was carried out tells.                 *)
CarriedOut(s) ==
  LET r == command[s]
  IN recorded[s].done =>
       /\ r.op \in Composing =>
            SawVersion(r.expected + 1, After(r.seen, recorded[s].made))
       /\ r.op = "derive" =>
            r.base \in Made /\ Accepts(cDocument[r.base], r.edits)

Slot(s) ==
  outcome[s] # "idle" =>
    /\ Request(command[s])
    /\ CarriedOut(s)
    /\ outcome[s] = "accepted" => recorded[s].done
    /\ outcome[s] = "conflict" /\ command[s].op \notin Composing =>
         command[s].op # "create" /\ command[s].expected < pVersion

Served == ServerTyped /\ Chain /\ \A s \in Slots : Slot(s)

(* Every change of what clients see makes a new version.                    *)
Versioned ==
  \/ pVersion' = pVersion /\ Content' = Content
  \/ pVersion' = pVersion + 1

LEMMA ServedInit == ProjectsAssumption /\ ProjectsInit => Served
<1> SUFFICES ASSUME ProjectsAssumption, ProjectsInit PROVE Served
  OBVIOUS
<1>1. Made = {} /\ 1..pCurrent = {}
  BY DEF ProjectsInit, Made
<1>2. ServerTyped
  BY DEF ServerTyped, ProjectsInit, Statuses, Outcomes, Record, NotRecorded
<1>3. \A s \in Slots : Slot(s)
  BY DEF Slot, ProjectsInit
<1> QED
  BY <1>1, <1>2, <1>3 DEF Served, Chain

(* Compositions are never changed once they are inserted. *)
DocumentsKept ==
  \A c \in Made : c \in Made' /\ cDocument'[c] = cDocument[c]

LEMMA SlotStays ==
  ASSUME Served, Versioned, DocumentsKept, ServerTyped', NEW s \in Slots,
         command'[s] = command[s], recorded'[s] = recorded[s],
         outcome'[s] = outcome[s]
  PROVE  Slot(s)'
<1> SUFFICES ASSUME outcome[s] # "idle"
             PROVE  /\ Request(command[s])'
                    /\ CarriedOut(s)'
                    /\ outcome[s] = "accepted" => recorded[s].done
                    /\ outcome[s] = "conflict" /\ command[s].op \notin Composing =>
                         command[s].op # "create" /\ command[s].expected < pVersion'
  BY DEF Slot
<1>1. /\ Slot(s) /\ pVersion \in Nat /\ pVersion' \in Nat
      /\ pVersion' >= pVersion
  BY DEF Served, ServerTyped, Versioned
<1>2. /\ Request(command[s]) /\ CarriedOut(s)
      /\ outcome[s] = "accepted" => recorded[s].done
      /\ outcome[s] = "conflict" /\ command[s].op \notin Composing =>
           command[s].op # "create" /\ command[s].expected < pVersion
  BY <1>1 DEF Slot
<1>3. Request(command[s])'
  BY <1>1, <1>2 DEF Request, SawVersion, Versioned
<1>4. CarriedOut(s)'
  BY <1>1, <1>2 DEF CarriedOut, DocumentsKept, SawVersion, Versioned
<1>5. outcome[s] = "conflict" /\ command[s].op \notin Composing =>
        command[s].op # "create" /\ command[s].expected < pVersion'
  BY <1>1, <1>2 DEF Request, SawVersion
<1> QED
  BY <1>2, <1>3, <1>4, <1>5

(* An answer that changes nothing else. *)
LEMMA AnswerServed ==
  ASSUME Served, NEW s \in Slots, outcome[s] # "idle",
         NEW answer \in Outcomes \ {"idle"},
         outcome' = [outcome EXCEPT ![s] = answer],
         UNCHANGED <<projectVars, compositionVars, command, recorded>>,
         answer = "accepted" => recorded[s].done,
         answer = "conflict" /\ command[s].op \notin Composing =>
           command[s].op # "create" /\ command[s].expected < pVersion
  PROVE  Served' /\ Versioned
<1>1. Versioned /\ DocumentsKept
  BY DEF Versioned, Content, DocumentsKept, Made, projectVars, compositionVars
<1>2. ServerTyped'
  BY DEF Served, ServerTyped, projectVars, compositionVars
<1>3. Chain'
  BY DEF Served, Chain, Made, projectVars, compositionVars
<1>4. \A t \in Slots \ {s} : Slot(t)'
  BY <1>1, <1>2, SlotStays DEF Served, ServerTyped
<1>5. Slot(s) /\ outcome'[s] = answer
  BY DEF Served, ServerTyped
<1>6. Request(command[s])' /\ CarriedOut(s)'
  BY <1>5 DEF Slot, Request, CarriedOut, SawVersion, Content, Made,
              projectVars, compositionVars
<1>7. Slot(s)'
  BY <1>5, <1>6 DEF Slot, projectVars
<1> QED
  BY <1>1, <1>2, <1>3, <1>4, <1>7 DEF Served

(* The answer of a command that is carried out now. *)
LEMMA CompleteServed ==
  ASSUME Served, NEW s \in Slots, outcome[s] # "idle",
         NEW made \in {0} \cup Compositions, Complete(s, made),
         Versioned, DocumentsKept, Chain',
         /\ pStatus' \in Statuses /\ pVersion' \in Nat /\ pCurrent' \in Nat
         /\ pStatus' = "absent" => pVersion' = 0
         /\ cNumber' \in [Compositions -> Nat]
         /\ cParent' \in [Compositions -> Nat]
         /\ cDocument' = [c \in Compositions |-> cDocument'[c]],
         command[s].op \in Composing =>
           SawVersion(command[s].expected + 1, After(command[s].seen, made))',
         command[s].op = "derive" =>
           /\ command[s].base \in Made
           /\ Accepts(cDocument[command[s].base], command[s].edits)
  PROVE  Served'
<1>1. ServerTyped'
  BY DEF Served, ServerTyped, Complete, Record, Outcomes
<1>2. \A t \in Slots \ {s} : Slot(t)'
  BY <1>1, SlotStays DEF Served, ServerTyped, Complete
<1>3. /\ Slot(s) /\ outcome'[s] = "accepted" /\ command'[s] = command[s]
      /\ recorded'[s] = [done |-> TRUE, made |-> made]
  BY DEF Served, ServerTyped, Complete
<1>4. Request(command[s])'
  BY <1>1, <1>3 DEF Slot, Request, SawVersion, Versioned, Served, ServerTyped
<1>5. CarriedOut(s)'
  BY <1>3 DEF CarriedOut, DocumentsKept
<1>6. Slot(s)'
  BY <1>3, <1>4, <1>5 DEF Slot
<1> QED
  BY <1>1, <1>2, <1>6 DEF Served

LEMMA ReplayServed ==
  ASSUME Served, NEW s \in Slots, outcome[s] # "idle", Replay(s)
  PROVE  Served' /\ Versioned
BY AnswerServed DEF Replay, Begun, Outcomes

LEMMA RefuseServed ==
  ASSUME Served, NEW s \in Slots, outcome[s] # "idle",
         NEW answer \in {"conflict", "refused"}, Refuse(s, answer),
         answer = "conflict" /\ command[s].op \notin Composing =>
           command[s].op # "create" /\ command[s].expected # pVersion
  PROVE  Served' /\ Versioned
<1>1. Request(command[s]) /\ pVersion \in Nat
  BY DEF Served, Slot, ServerTyped
<1>2. answer = "conflict" /\ command[s].op \notin Composing =>
        command[s].op # "create" /\ command[s].expected < pVersion
  BY <1>1 DEF Request, SawVersion
<1> QED
  BY <1>2, AnswerServed DEF Refuse, Outcomes

(* A command of ProjectService changes the row alone, at its version.       *)
LEMMA RowServed ==
  ASSUME Served, NEW s \in Slots, outcome[s] # "idle",
         command[s].op \notin Composing,
         Complete(s, 0), UNCHANGED <<pCurrent, compositionVars>>,
         pStatus' \in Statuses \ {"absent"}, pVersion' = pVersion + 1
  PROVE  Served' /\ Versioned
<1>1. Versioned /\ DocumentsKept
  BY DEF Versioned, DocumentsKept, Made, compositionVars
<1>2. Chain'
  BY DEF Served, Chain, Made, compositionVars
<1>3. command[s].op # "derive"
  BY DEF Composing
<1> QED
  BY <1>1, <1>2, <1>3, CompleteServed
     DEF Served, ServerTyped, compositionVars

LEMMA CreateProjectServed ==
  ASSUME Served, NEW s \in Slots, CreateProject(s)
  PROVE  Served' /\ Versioned
<1>1. outcome[s] # "idle" /\ command[s].op \notin Composing
  BY DEF CreateProject, Handled, Composing
<1>2. CASE Replay(s)
  BY <1>1, <1>2, ReplayServed
<1>3. CASE ~Replay(s) /\ pStatus = "absent"
  <2>1. /\ Complete(s, 0) /\ UNCHANGED <<pCurrent, compositionVars>>
        /\ pStatus' = "active" /\ pVersion' = 1
    BY <1>3 DEF CreateProject
  <2>2. pVersion' = pVersion + 1 /\ pStatus' \in Statuses \ {"absent"}
    BY <1>3, <2>1 DEF Served, ServerTyped, Statuses
  <2> QED
    BY <1>1, <2>1, <2>2, RowServed
<1>4. CASE ~Replay(s) /\ pStatus # "absent"
  <2>1. Complete(s, 0) /\ UNCHANGED <<projectVars, compositionVars>>
    BY <1>4 DEF CreateProject
  <2>2. Versioned /\ DocumentsKept
    BY <2>1 DEF Versioned, DocumentsKept, Made, Content, projectVars,
                compositionVars
  <2>3. Chain'
    BY <2>1 DEF Served, Chain, Made, projectVars, compositionVars
  <2>4. command[s].op # "derive"
    BY <1>1 DEF Composing
  <2> QED
    BY <1>1, <2>1, <2>2, <2>3, <2>4, CompleteServed
       DEF Served, ServerTyped, projectVars, compositionVars
<1> QED
  BY <1>2, <1>3, <1>4

LEMMA MutationServed ==
  ASSUME Served, NEW s \in Slots, Update(s) \/ SoftDelete(s) \/ Restore(s)
  PROVE  Served' /\ Versioned
<1>1. /\ outcome[s] # "idle" /\ command[s].op \notin Composing
      /\ command[s].op # "create" /\ pStatus \in Statuses
  BY DEF Update, SoftDelete, Restore, Handled, Composing, Served, ServerTyped
<1>2. CASE Replay(s)
  BY <1>1, <1>2, ReplayServed
<1>3. CASE Complete(s, 0) /\ Bumped /\ pStatus' \in Statuses \ {"absent"}
           /\ UNCHANGED <<pCurrent, compositionVars>>
  BY <1>1, <1>3, RowServed DEF Bumped
<1>4. CASE \E answer \in {"conflict", "refused"} :
             /\ Refuse(s, answer)
             /\ answer = "conflict" => command[s].expected # pVersion
  BY <1>1, <1>4, RefuseServed
<1> QED
  BY <1>1, <1>2, <1>3, <1>4
     DEF Update, SoftDelete, Restore, Writable, Restorable, MutationConflict,
         Expected, Statuses

-----------------------------------------------------------------------------
(* A new version *)

LEMMA ChainLength ==
  ASSUME Served
  PROVE  Cardinality(Made) = pCurrent
<1>1. pCurrent \in Nat /\ Made = 1..pCurrent
  BY DEF Served, ServerTyped, Chain
<1>2. Cardinality(1..pCurrent) = IF 1 > pCurrent THEN 0 ELSE pCurrent - 1 + 1
  BY <1>1, FS_Interval
<1> QED
  BY <1>1, <1>2

LEMMA NextNumber ==
  ASSUME Served
  PROVE  NextVersionNumber = pCurrent + 1
<1>1. pCurrent \in Nat /\ Made = 1..pCurrent
  BY DEF Served, ServerTyped, Chain
<1>2. \A c \in Made : cNumber[c] = c
  BY DEF Served, Chain
<1>3. CASE pCurrent = 0
  BY <1>1, <1>3 DEF NextVersionNumber
<1>4. CASE pCurrent # 0
  <2>1. pCurrent \in Made /\ \A d \in Made : cNumber[pCurrent] >= cNumber[d]
    BY <1>1, <1>2, <1>4
  <2>2. Newest \in Made /\ \A d \in Made : cNumber[Newest] >= cNumber[d]
    BY <2>1 DEF Newest
  <2>3. Newest = pCurrent
    BY <1>1, <1>2, <2>1, <2>2
  <2> QED
    BY <1>1, <1>2, <2>1, <2>3 DEF NextVersionNumber
<1> QED
  BY <1>3, <1>4

LEMMA VersionServed ==
  ASSUME Served, NEW s \in Slots, outcome[s] # "idle",
         command[s].op \in Composing, NEW document, NEW parent,
         Begun(s), Writable(s), ParentIsCurrent(parent),
         NEW c \in Compositions \ Made, c = Cardinality(Made) + 1,
         Insert(c, document, parent), AdvanceProjectPointer(c), Complete(s, c),
         Valid(document),
         command[s].op = "derive" =>
           /\ parent = command[s].base
           /\ Accepts(cDocument[parent], command[s].edits)
  PROVE  Served' /\ Versioned
<1>1. /\ ServerTyped /\ Chain /\ Slot(s) /\ pCurrent \in Nat
      /\ pVersion \in Nat /\ Made = 1..pCurrent
  BY DEF Served, ServerTyped, Chain
<1>2. c = pCurrent + 1 /\ NextVersionNumber = pCurrent + 1
  BY <1>1, ChainLength, NextNumber
<1>3. /\ cNumber' = [cNumber EXCEPT ![c] = c]
      /\ cParent' = [cParent EXCEPT ![c] = parent]
      /\ cDocument' = [cDocument EXCEPT ![c] = document]
      /\ pCurrent' = c /\ pVersion' = pVersion + 1
      /\ UNCHANGED <<pStatus, pFavorite>>
  BY <1>2 DEF Insert, AdvanceProjectPointer, Bumped
<1>4. Made' = Made \cup {c}
  BY <1>1, <1>2, <1>3 DEF Made, ServerTyped
<1>5. Made' = 1..pCurrent'
  BY <1>1, <1>2, <1>3, <1>4
<1>6. parent \in {0, c - 1}
  BY <1>1, <1>2 DEF ParentIsCurrent
<1>7. Chain'
  BY <1>1, <1>3, <1>4, <1>5, <1>6 DEF Chain, ServerTyped, Made
<1>8. Versioned /\ DocumentsKept
  BY <1>1, <1>3, <1>4 DEF Versioned, DocumentsKept, ServerTyped, Made
<1>9. Request(command[s])
  BY <1>1 DEF Slot
<1>10. command[s].expected = pVersion /\ command[s].seen = Content
  BY <1>9 DEF Writable, Expected, Request, SawVersion, Composing
<1>11. After(Content, c) = Content'
  BY <1>3 DEF After, Content
<1>12. SawVersion(command[s].expected + 1, After(command[s].seen, c))'
  <2>1. command' = command
    BY DEF Complete
  <2> HIDE DEF Content
  <2>2. QED
    BY <1>1, <1>3, <1>10, <1>11, <2>1 DEF SawVersion, After
<1>13. command[s].op = "derive" =>
         /\ command[s].base \in Made
         /\ Accepts(cDocument[command[s].base], command[s].edits)
  BY <1>1, <1>9 DEF ParentIsCurrent, Request
<1>14. /\ pStatus' \in Statuses /\ pVersion' \in Nat /\ pCurrent' \in Nat
       /\ pStatus' = "absent" => pVersion' = 0
       /\ cNumber' \in [Compositions -> Nat]
       /\ cParent' \in [Compositions -> Nat]
       /\ cDocument' = [d \in Compositions |-> cDocument'[d]]
  <2>1. c \in Nat /\ pStatus = "active"
    BY <1>1, <1>2 DEF Writable
  <2>2. cNumber' \in [Compositions -> Nat] /\ cParent' \in [Compositions -> Nat]
    BY <1>1, <1>2, <1>3, <1>6, <2>1 DEF ServerTyped
  <2>3. cDocument' = [d \in Compositions |-> cDocument'[d]]
    BY <1>1, <1>3 DEF ServerTyped
  <2> QED
    BY <1>1, <1>3, <2>1, <2>2, <2>3 DEF ServerTyped
<1> QED
  BY <1>7, <1>8, <1>12, <1>13, <1>14, CompleteServed

LEMMA CreateVersionServed ==
  ASSUME Served, NEW s \in Slots, outcome[s] # "idle",
         command[s].op \in Composing, NEW document, NEW parent,
         CreateVersion(s, document, parent), Valid(document),
         command[s].op = "derive" =>
           /\ parent = command[s].base
           /\ Accepts(cDocument[parent], command[s].edits)
  PROVE  Served' /\ Versioned
<1>1. CASE Replay(s)
  BY <1>1, ReplayServed
<1>2. CASE Refuse(s, "refused") \/ Refuse(s, "conflict")
  BY <1>2, RefuseServed
<1>3. CASE /\ Begun(s) /\ Writable(s) /\ ParentIsCurrent(parent)
           /\ \E c \in Compositions \ Made :
                /\ c = Cardinality(Made) + 1
                /\ Insert(c, document, parent)
                /\ AdvanceProjectPointer(c)
                /\ Complete(s, c)
  BY <1>3, VersionServed
<1> QED
  BY <1>1, <1>2, <1>3 DEF CreateVersion

-----------------------------------------------------------------------------
(* The server, whatever its clients send *)

LEMMA HandleServed ==
  ASSUME Served, NEW s \in Slots, Handle(s)
  PROVE  Served' /\ Versioned
<1>1. CASE CreateProject(s)
  BY <1>1, CreateProjectServed
<1>2. CASE Update(s) \/ SoftDelete(s) \/ Restore(s)
  BY <1>2, MutationServed
<1>3. CASE Compose(s)
  <2>1. /\ outcome[s] # "idle" /\ command[s].op = "compose"
        /\ CreateVersion(s, command[s].document, 0)
    BY <1>3 DEF Compose, Handled
  <2>2. Valid(command[s].document)
    BY <2>1 DEF Served, Slot, Request
  <2> QED
    BY <2>1, <2>2, CreateVersionServed DEF Composing
<1>4. CASE Derive(s)
  <2> DEFINE parent == command[s].base
             edits == command[s].edits
  <2>1. outcome[s] # "idle" /\ command[s].op = "derive"
    BY <1>4 DEF Derive, Handled
  <2>2. CASE Refuse(s, "refused")
    BY <2>1, <2>2, RefuseServed
  <2>3. CASE /\ Accepts(cDocument[parent], edits)
             /\ CreateVersion(s, ApplyEdits(cDocument[parent], edits), parent)
    <3>1. Valid(ApplyEdits(cDocument[parent], edits))
      BY <2>3 DEF Accepts
    <3> QED
      BY <2>1, <2>3, <3>1, CreateVersionServed DEF Composing
  <2> QED
    BY <1>4, <2>2, <2>3 DEF Derive
<1> QED
  BY <1>1, <1>2, <1>3, <1>4 DEF Handle

LEMMA ClientServed ==
  ASSUME Served, NEW s \in Slots, Close(s) \/ \E r : Request(r) /\ Send(s, r)
  PROVE  Served' /\ Versioned
<1>1. /\ UNCHANGED <<projectVars, compositionVars>>
      /\ \E r : command' = [command EXCEPT ![s] = r]
      /\ recorded' = [recorded EXCEPT ![s] = NotRecorded]
      /\ \E answer \in {"idle", "sent"} : outcome' = [outcome EXCEPT ![s] = answer]
  BY DEF Close, Send
<1>2. Versioned /\ DocumentsKept
  BY <1>1 DEF Versioned, DocumentsKept, Made, Content, projectVars,
              compositionVars
<1>3. ServerTyped'
  BY <1>1 DEF Served, ServerTyped, Record, NotRecorded, Outcomes, projectVars,
              compositionVars
<1>4. Chain'
  BY <1>1 DEF Served, Chain, Made, projectVars, compositionVars
<1>5. \A t \in Slots \ {s} : Slot(t)'
  BY <1>1, <1>2, <1>3, SlotStays DEF Served, ServerTyped
<1>6. CASE Close(s)
  <2>1. outcome'[s] = "idle"
    BY <1>6 DEF Close, Served, ServerTyped
  <2> QED
    BY <1>2, <1>3, <1>4, <1>5, <2>1 DEF Served, Slot
<1>7. CASE \E r : Request(r) /\ Send(s, r)
  <2>1. PICK r : Request(r) /\ Send(s, r)
    BY <1>7
  <2>2. /\ command'[s] = r /\ recorded'[s] = NotRecorded
        /\ outcome'[s] = "sent"
    BY <2>1 DEF Send, Served, ServerTyped
  <2>3. Request(r)'
    BY <1>1, <2>1 DEF Request, SawVersion, Content, projectVars
  <2>4. Request(command[s])'
    BY <2>2, <2>3 DEF Request, SawVersion
  <2>5. Slot(s)'
    BY <2>2, <2>4 DEF Slot, CarriedOut, NotRecorded
  <2> QED
    BY <1>2, <1>3, <1>4, <1>5, <2>5 DEF Served
<1> QED
  BY <1>6, <1>7

LEMMA StillServed ==
  ASSUME Served, Tick \/ UNCHANGED serverVars
  PROVE  Served' /\ Versioned
<1>1. UNCHANGED <<pStatus, pVersion, pFavorite, pCurrent, compositionVars,
                  command, recorded, outcome>>
  BY DEF Tick, serverVars, projectVars
<1>2. Versioned /\ DocumentsKept
  BY <1>1 DEF Versioned, DocumentsKept, Made, Content, compositionVars
<1>3. ServerTyped' /\ Chain'
  BY <1>1 DEF Served, ServerTyped, Chain, Made, compositionVars
<1> QED
  BY <1>1, <1>2, <1>3, SlotStays DEF Served

-----------------------------------------------------------------------------
(* The tab *)

Seen(row) == row.version = 0 \/ SawVersion(row.version, row.content)

LoadRecord(load) ==
  /\ load = [reading |-> load.reading, done |-> load.done, rows |-> load.rows]
  /\ load.rows = [l \in Lists |-> load.rows[l]]
  /\ \A l \in Lists : Seen(load.rows[l])

RowsWereSeen ==
  /\ shown = [l \in Lists |-> shown[l]]
  /\ \A l \in Lists : Seen(shown[l])
  /\ listing = [load \in Loads |-> listing[load]]
  /\ \A load \in Loads : LoadRecord(listing[load])

(* What the panel holds it saw, and what it sent is what it holds.          *)
PanelSaw ==
  /\ panel = [mounted |-> panel.mounted, version |-> panel.version,
              seen |-> panel.seen, current |-> panel.current,
              phase |-> panel.phase, load |-> panel.load, got |-> panel.got]
  /\ panel.mounted => SawVersion(panel.version, panel.seen)
  /\ panel.phase = "sent" =>
       /\ panel.mounted /\ outcome["panel"] # "idle"
       /\ command["panel"].op \in Composing
       /\ command["panel"].expected = panel.version
       /\ command["panel"].seen = panel.seen

CardSlot == outcome["card"] # "idle" => command["card"].op \notin Composing

(* The version a conflict refused is an old one by then. *)
NoticeIsOld ==
  notice # 0 =>
    /\ notice \in Nat /\ notice < pVersion
    /\ \A l \in listing["mutation"].done :
         listing["mutation"].rows[l].version # notice

Tab == RowsWereSeen /\ PanelSaw /\ CardSlot /\ NoticeIsOld
WorkspaceInv == Served /\ Tab

LEMMA SawAgain ==
  ASSUME Served, Versioned, Served',
         NEW version, NEW content, SawVersion(version, content)
  PROVE  /\ version \in Nat /\ version <= pVersion'
         /\ version = pVersion' => content = Content'
BY DEF Served, ServerTyped, Versioned, SawVersion

LEMMA RowsStay ==
  ASSUME Served, Served', Versioned, RowsWereSeen, UNCHANGED <<shown, listing>>
  PROVE  RowsWereSeen'
<1>1. \A row : Seen(row) => Seen(row)'
  BY SawAgain DEF Seen, SawVersion
<1> QED
  BY <1>1 DEF RowsWereSeen, LoadRecord, Seen, SawVersion

LEMMA PanelStays ==
  ASSUME Served, Served', Versioned, PanelSaw, UNCHANGED panel,
         panel.phase = "sent" => /\ command'["panel"] = command["panel"]
                                 /\ outcome'["panel"] # "idle"
  PROVE  PanelSaw'
<1>1. panel.mounted => SawVersion(panel.version, panel.seen)'
  BY SawAgain DEF PanelSaw, SawVersion
<1> QED
  BY <1>1 DEF PanelSaw

LEMMA NoticeStays ==
  ASSUME Served, Served', Versioned, NoticeIsOld,
         UNCHANGED <<listing, notice>>
  PROVE  NoticeIsOld'
BY DEF NoticeIsOld, Served, ServerTyped, Versioned

-----------------------------------------------------------------------------
(* What handling a command does besides *)

LEMMA HandleAnswers ==
  ASSUME NEW s \in Slots, Handle(s)
  PROVE  /\ command' = command /\ outcome[s] # "idle"
         /\ \E answer \in {"accepted", "conflict", "refused"} :
              outcome' = [outcome EXCEPT ![s] = answer]
         /\ \/ recorded' = recorded
            \/ \E made : recorded' = [recorded EXCEPT ![s] =
                                       [done |-> TRUE, made |-> made]]
         /\ pRetention' \in {pRetention, RetentionTicks, 0}
<1>1. CASE CreateProject(s) \/ Update(s) \/ SoftDelete(s) \/ Restore(s)
  BY <1>1 DEF CreateProject, Update, SoftDelete, Restore, Handled, Replay,
              Complete, Refuse, MutationConflict, projectVars
<1>2. CASE Compose(s) \/ Derive(s)
  <2>1. /\ outcome[s] # "idle"
        /\ \/ Refuse(s, "refused")
           \/ \E document, parent : CreateVersion(s, document, parent)
    BY <1>2 DEF Compose, Derive, Handled
  <2> QED
    BY <2>1 DEF CreateVersion, Replay, Refuse, Complete, AdvanceProjectPointer,
                projectVars
<1> QED
  BY <1>1, <1>2 DEF Handle

(* A command that names a version is carried out at that version alone. *)
LEMMA HandleFits ==
  ASSUME Served, NEW s \in Slots, Handle(s),
         NEW t \in Slots, command[t].op \notin {"none", "create"},
         recorded'[t].done, ~recorded[t].done
  PROVE  Content = command[t].seen
<1>1. t = s
  BY HandleAnswers DEF Served, ServerTyped
<1>2. outcome[s] # "idle" /\ Request(command[s])
  BY HandleAnswers DEF Served, Slot
<1>3. recorded' # recorded
  OBVIOUS
<1>4. pVersion = command[s].expected
  <2>1. CASE Update(s) \/ SoftDelete(s) \/ Restore(s)
    BY <1>3, <2>1 DEF Update, SoftDelete, Restore, Replay, Refuse, Writable,
                      Restorable, Expected
  <2>2. CASE \E document, parent : CreateVersion(s, document, parent)
    BY <1>3, <2>2 DEF CreateVersion, Replay, Refuse, Writable, Expected
  <2>3. CASE Refuse(s, "refused")
    BY <1>3, <2>3 DEF Refuse
  <2> QED
    BY <1>1, <2>1, <2>2, <2>3
       DEF Handle, CreateProject, Handled, Compose, Derive
<1> QED
  BY <1>1, <1>2, <1>4 DEF Request, SawVersion

LEMMA HandleRepeats ==
  ASSUME Served, NEW s \in Slots, Handle(s), outcome[s] = "accepted"
  PROVE  outcome'[s] = "accepted"
<1>1. recorded[s].done /\ CarriedOut(s) /\ ~Begun(s)
  BY DEF Served, Slot, Begun
<1>2. Replay(s)
  <2>1. CASE CreateProject(s) \/ Update(s) \/ SoftDelete(s) \/ Restore(s)
    BY <1>1, <2>1 DEF CreateProject, Update, SoftDelete, Restore
  <2>2. CASE Compose(s)
    BY <1>1, <2>2 DEF Compose, CreateVersion
  <2>3. CASE Derive(s)
    <3>1. Accepts(cDocument[command[s].base], command[s].edits)
      BY <1>1, <2>3 DEF CarriedOut, Derive, Handled
    <3> QED
      BY <1>1, <2>3, <3>1 DEF Derive, CreateVersion
  <2> QED
    BY <2>1, <2>2, <2>3 DEF Handle
<1> QED
  BY <1>2 DEF Replay, Served, ServerTyped

LEMMA HandleSparesTrash ==
  ASSUME NEW s \in Slots, Handle(s), pStatus = "soft_deleted"
  PROVE  UNCHANGED <<pFavorite, pCurrent, compositionVars>>
<1>1. CASE CreateProject(s) \/ Update(s) \/ SoftDelete(s) \/ Restore(s)
  BY <1>1 DEF CreateProject, Update, SoftDelete, Restore, Replay, Refuse,
              Writable, projectVars
<1>2. CASE Compose(s) \/ Derive(s)
  <2>1. \/ Refuse(s, "refused")
        \/ \E document, parent : CreateVersion(s, document, parent)
    BY <1>2 DEF Compose, Derive
  <2> QED
    BY <2>1 DEF CreateVersion, Replay, Refuse, Writable, projectVars
<1> QED
  BY <1>1, <1>2 DEF Handle

LEMMA ServerFacts ==
  ASSUME Served
  PROVE  HistoryIsAChain
<1>1. /\ pCurrent \in Nat /\ Made = 1..pCurrent
      /\ \A c \in Made : cNumber[c] = c /\ cParent[c] \in {0, c - 1}
      /\ Cardinality(Made) = pCurrent
  BY ChainLength DEF Served, ServerTyped, Chain
<1>2. {cNumber[c] : c \in Made} = Made
  BY <1>1
<1> QED
  BY <1>1, <1>2 DEF HistoryIsAChain

-----------------------------------------------------------------------------
(* The steps of the tab.  What the server does in one of them, and whatever  *)
(* the tab leaves alone, leaves the rest true.                               *)

LEMMA Quiet ==
  ASSUME WorkspaceInv, UNCHANGED serverVars
  PROVE  Served' /\ Versioned
BY StillServed DEF WorkspaceInv

LEMMA SlotsNamed == {"card", "panel"} \subseteq Slots
BY WorkspaceAssumption

(* The card and its lists *)

LEMMA RenderSaw ==
  ASSUME Served, Served', Versioned, RowsWereSeen', PanelSaw,
         panel.phase = "sent" => /\ command'["panel"] = command["panel"]
                                 /\ outcome'["panel"] # "idle",
         Render
  PROVE  PanelSaw'
<1>1. CASE UNCHANGED panel
  BY <1>1, PanelStays DEF PanelSaw
<1>2. CASE panel' = NoPanel
  BY <1>2 DEF PanelSaw, NoPanel
<1>3. CASE panel' = Mounted(shown'.active) /\ Listed(shown'.active)
  <2>1. /\ panel'.mounted /\ panel'.version = shown'.active.version
        /\ panel'.seen = shown'.active.content /\ panel'.phase = "idle"
        /\ panel' = [mounted |-> panel'.mounted, version |-> panel'.version,
                     seen |-> panel'.seen, current |-> panel'.current,
                     phase |-> panel'.phase, load |-> panel'.load,
                     got |-> panel'.got]
    BY <1>3 DEF Mounted, NoPanel
  <2>2. SawVersion(shown.active.version, shown.active.content)'
    BY <1>3 DEF RowsWereSeen, Seen, Listed, Lists
  <2> QED
    BY <2>1, <2>2 DEF PanelSaw, SawVersion
<1> QED
  BY <1>1, <1>2, <1>3 DEF Render

(* Rows read now are rows of the version there is. *)
LEMMA RowsRead ==
  ASSUME Served, NEW list \in Lists
  PROVE  Seen(ListRow(list))
BY DEF Served, ServerTyped, Seen, ListRow, NoRow, SawVersion

LEMMA ReadListSaw ==
  ASSUME WorkspaceInv, NEW load \in Loads, NEW list \in Lists,
         ReadList(load, list)
  PROVE  WorkspaceInv'
<1>1. /\ Served' /\ Versioned
      /\ UNCHANGED <<serverVars, shown, cardPhase, notice, editing, panel>>
  BY Quiet DEF ReadList
<1> DEFINE read == [listing[load].rows EXCEPT ![list] = ListRow(list)]
           done == listing[load].done \cup {list}
<1>2. listing' = [listing EXCEPT ![load] =
                    [reading |-> TRUE, done |-> done, rows |-> read]]
  BY DEF ReadList
<1>3. RowsWereSeen /\ Seen(ListRow(list))
  BY RowsRead DEF WorkspaceInv, Tab
<1>4. LoadRecord(listing'[load])
  <2>1. listing'[load] = [reading |-> TRUE, done |-> done, rows |-> read]
    BY <1>2, <1>3 DEF RowsWereSeen
  <2>2. read = [l \in Lists |-> read[l]] /\ \A l \in Lists : Seen(read[l])
    <3>1. /\ listing[load].rows = [l \in Lists |-> listing[load].rows[l]]
          /\ \A l \in Lists : Seen(listing[load].rows[l])
      BY <1>3 DEF RowsWereSeen, LoadRecord
    <3> QED
      BY <1>3, <3>1
  <2> QED
    BY <2>1, <2>2 DEF LoadRecord
<1>5. RowsWereSeen'
  <2>1. \A other \in Loads : LoadRecord(listing'[other])
    BY <1>2, <1>3, <1>4 DEF RowsWereSeen
  <2>2. \A row : Seen(row) => Seen(row)'
    BY <1>1 DEF Seen, SawVersion, serverVars, projectVars, Content
  <2> QED
    BY <1>1, <1>2, <1>3, <2>1, <2>2 DEF RowsWereSeen, LoadRecord
<1>6. PanelSaw' /\ CardSlot'
  BY <1>1, PanelStays DEF WorkspaceInv, Tab, CardSlot, PanelSaw, serverVars
<1>7. NoticeIsOld'
  <2>1. SUFFICES ASSUME notice # 0
                 PROVE  /\ notice \in Nat /\ notice < pVersion
                        /\ \A l \in listing'["mutation"].done :
                             listing'["mutation"].rows[l].version # notice
    BY <1>1 DEF NoticeIsOld, serverVars, projectVars
  <2>2. NoticeIsOld /\ pVersion \in Nat
    BY DEF WorkspaceInv, Tab, Served, ServerTyped
  <2>3. ListRow(list).version # notice
    BY <2>1, <2>2 DEF ListRow, NoRow, NoticeIsOld
  <2> QED
    BY <1>2, <1>3, <2>1, <2>2, <2>3 DEF NoticeIsOld, RowsWereSeen, LoadRecord,
                                        Loads
<1> QED
  BY <1>1, <1>5, <1>6, <1>7 DEF WorkspaceInv, Tab

LEMMA FreshLoads ==
  /\ LoadRecord(NotReading) /\ LoadRecord(Reading)
  /\ Reading.done = {}
BY DEF LoadRecord, Reading, NotReading, Load, Seen, NoRow

LEMMA RefreshSaw ==
  ASSUME WorkspaceInv, Refresh
  PROVE  WorkspaceInv'
<1>1. /\ Served' /\ Versioned /\ WorkspaceInv
      /\ UNCHANGED <<serverVars, shown, cardPhase, notice, editing, panel>>
      /\ listing' = [listing EXCEPT !["button"] = Reading]
  BY Quiet DEF Refresh
<1>2. LoadRecord(Reading)
  BY FreshLoads
<1>3. \A row : Seen(row) => Seen(row)'
  BY <1>1, SawAgain DEF Seen, SawVersion, WorkspaceInv
<1>4. RowsWereSeen'
  BY <1>1, <1>2, <1>3 DEF WorkspaceInv, Tab, RowsWereSeen, LoadRecord
<1>5. PanelSaw' /\ CardSlot'
  BY <1>1, PanelStays DEF WorkspaceInv, Tab, CardSlot, PanelSaw, serverVars
<1>6. NoticeIsOld'
  BY <1>1 DEF WorkspaceInv, Tab, RowsWereSeen, NoticeIsOld, Loads, serverVars,
              projectVars
<1> QED
  BY <1>1, <1>4, <1>5, <1>6 DEF WorkspaceInv, Tab

LEMMA EndLoadSaw ==
  ASSUME WorkspaceInv, NEW load \in Loads, EndLoad(load),
         shown' \in {shown, listing[load].rows}
  PROVE  WorkspaceInv'
<1>1. /\ Served' /\ Versioned /\ UNCHANGED <<serverVars, notice>> /\ Render
      /\ listing' = [listing EXCEPT ![load] = NotReading]
      /\ IF load = "mutation" THEN CardDone ELSE UNCHANGED <<cardPhase, editing>>
  BY Quiet DEF EndLoad
<1>2. LoadRecord(NotReading)
  BY FreshLoads
<1>3. \A row : Seen(row) => Seen(row)'
  BY <1>1, SawAgain DEF Seen, SawVersion, WorkspaceInv
<1>4. /\ shown' = [l \in Lists |-> shown'[l]]
      /\ \A l \in Lists : Seen(shown'[l])
  BY DEF WorkspaceInv, Tab, RowsWereSeen, LoadRecord
<1>5. RowsWereSeen'
  BY <1>1, <1>2, <1>3, <1>4 DEF WorkspaceInv, Tab, RowsWereSeen, LoadRecord
<1>6. PanelSaw'
  BY <1>1, <1>5, RenderSaw DEF WorkspaceInv, Tab, PanelSaw, serverVars
<1>7. CardSlot'
  BY <1>1 DEF WorkspaceInv, Tab, CardSlot, serverVars
<1>8. NoticeIsOld'
  <2>1. \A l \in listing'["mutation"].done : l \in listing["mutation"].done
                                             /\ load # "mutation"
    BY <1>1 DEF WorkspaceInv, Tab, RowsWereSeen, Loads, NotReading, Load
  <2>2. load # "mutation" => listing'["mutation"] = listing["mutation"]
    BY <1>1 DEF WorkspaceInv, Tab, RowsWereSeen, Loads
  <2>3. notice' = notice /\ pVersion' = pVersion
    BY <1>1 DEF serverVars, projectVars
  <2> QED
    BY <2>1, <2>2, <2>3 DEF WorkspaceInv, Tab, NoticeIsOld
<1> QED
  BY <1>1, <1>5, <1>6, <1>7, <1>8 DEF WorkspaceInv, Tab

LEMMA EditSaw ==
  ASSUME WorkspaceInv, Edit \/ CancelEdit
  PROVE  WorkspaceInv'
<1>1. /\ Served' /\ Versioned /\ Render
      /\ UNCHANGED <<serverVars, shown, listing, cardPhase, notice>>
  BY Quiet DEF Edit, CancelEdit
<1>2. RowsWereSeen' /\ NoticeIsOld'
  BY <1>1, RowsStay, NoticeStays DEF WorkspaceInv, Tab
<1>3. PanelSaw' /\ CardSlot'
  BY <1>1, <1>2, RenderSaw DEF WorkspaceInv, Tab, CardSlot, PanelSaw,
                               serverVars
<1> QED
  BY <1>1, <1>2, <1>3 DEF WorkspaceInv, Tab

LEMMA CardAsks ==
  ASSUME WorkspaceInv, NEW request \in CardCommands
  PROVE  Request(request) /\ request.op \notin Composing
<1>1. /\ Seen(shown.active) /\ Seen(shown.trash)
  BY DEF WorkspaceInv, Tab, RowsWereSeen, Lists
<1>2. \/ \E row \in {shown.active, shown.trash} :
           \E op \in {"update", "delete", "restore"} :
             Listed(row) /\ request = FromRow(op, row)
      \/ request = Command("create", 0)
  BY DEF CardCommands
<1>3. CASE request = Command("create", 0)
  BY <1>3 DEF Command, Request, Operations, Composing
<1>4. ASSUME NEW row \in {shown.active, shown.trash},
             NEW op \in {"update", "delete", "restore"},
             Listed(row), request = FromRow(op, row)
      PROVE  Request(request) /\ request.op \notin Composing
  <2>1. /\ request.op = op /\ request.expected = row.version
        /\ request.seen = row.content
    BY <1>4 DEF FromRow, Command
  <2> QED
    BY <1>1, <1>4, <2>1 DEF Request, Operations, Composing, Seen, SawVersion,
                            Listed
<1> QED
  BY <1>2, <1>3, <1>4

LEMMA RunMutationSaw ==
  ASSUME WorkspaceInv, RunMutation
  PROVE  WorkspaceInv'
<1>1. PICK request \in CardCommands : Send("card", request)
  BY DEF RunMutation
<1>2. Request(request) /\ request.op \notin Composing
  BY CardAsks
<1>3. Served' /\ Versioned
  BY <1>1, <1>2, SlotsNamed, ClientServed DEF WorkspaceInv
<1>4. /\ command' = [command EXCEPT !["card"] = request]
      /\ outcome' = [outcome EXCEPT !["card"] = "sent"]
      /\ UNCHANGED <<shown, listing, panel>> /\ notice' = 0
  BY <1>1 DEF Send, RunMutation
<1>5. RowsWereSeen' /\ NoticeIsOld'
  BY <1>3, <1>4, RowsStay DEF WorkspaceInv, Tab, NoticeIsOld
<1>6. PanelSaw'
  BY <1>3, <1>4, PanelStays, SlotsNamed DEF WorkspaceInv, Tab, PanelSaw, Served,
                                            ServerTyped
<1>7. CardSlot'
  BY <1>2, <1>4, SlotsNamed DEF WorkspaceInv, CardSlot, Served, ServerTyped
<1> QED
  BY <1>3, <1>5, <1>6, <1>7 DEF WorkspaceInv, Tab

(* A request of the card is over; the panel's is not touched. *)
LEMMA CardCloses ==
  ASSUME WorkspaceInv, Close("card"), UNCHANGED panel
  PROVE  Served' /\ Versioned /\ PanelSaw' /\ CardSlot'
<1>1. Served' /\ Versioned
  BY SlotsNamed, ClientServed DEF WorkspaceInv
<1>2. CardSlot'
  BY SlotsNamed DEF WorkspaceInv, CardSlot, Served, ServerTyped, Close
<1>3. PanelSaw'
  BY <1>1, PanelStays, SlotsNamed
     DEF WorkspaceInv, Tab, PanelSaw, Served, ServerTyped, Close
<1> QED
  BY <1>1, <1>2, <1>3

LEMMA MutationAnsweredSaw ==
  ASSUME WorkspaceInv, MutationAnswered
  PROVE  WorkspaceInv'
<1>1. /\ Served' /\ Versioned /\ PanelSaw' /\ CardSlot'
      /\ UNCHANGED <<projectVars, shown>> /\ outcome["card"] # "idle"
      /\ notice' = IF outcome["card"] = "conflict"
                   THEN command["card"].expected ELSE 0
      /\ listing' = [listing EXCEPT !["mutation"] = Reading]
  BY CardCloses DEF MutationAnswered, Take, Close
<1>2. LoadRecord(Reading)
  BY FreshLoads
<1>3. \A row : Seen(row) => Seen(row)'
  BY <1>1, SawAgain DEF Seen, SawVersion, WorkspaceInv
<1>4. RowsWereSeen'
  BY <1>1, <1>2, <1>3 DEF WorkspaceInv, Tab, RowsWereSeen, LoadRecord
<1>5. Slot("card") /\ CardSlot
  BY SlotsNamed DEF WorkspaceInv, Served, Tab
<1>6. outcome["card"] = "conflict" =>
        command["card"].expected \in Nat /\ command["card"].expected < pVersion
  BY <1>1, <1>5 DEF Slot, CardSlot, Request, SawVersion
<1>7. NoticeIsOld'
  <2>1. listing'["mutation"].done = {}
    BY <1>1, FreshLoads DEF WorkspaceInv, Tab, RowsWereSeen, Loads
  <2> QED
    BY <1>1, <1>6, <2>1 DEF NoticeIsOld, projectVars
<1> QED
  BY <1>1, <1>4, <1>7 DEF WorkspaceInv, Tab

LEMMA MutationEndsSaw ==
  ASSUME WorkspaceInv, MutationRefused \/ MutationLost
  PROVE  WorkspaceInv'
<1>1. CardDone /\ UNCHANGED <<shown, listing, notice>> /\ Render
  BY DEF MutationRefused, MutationLost
<1>2. Served' /\ Versioned /\ UNCHANGED projectVars /\ CardSlot'
      /\ (panel.phase = "sent" => /\ command'["panel"] = command["panel"]
                                  /\ outcome'["panel"] # "idle")
  <2>1. CASE MutationRefused
    <3>1. Close("card")
      BY <2>1 DEF MutationRefused, Take
    <3> QED
      BY <3>1, SlotsNamed, ClientServed
         DEF WorkspaceInv, Tab, PanelSaw, CardSlot, Served, ServerTyped, Close
  <2>2. CASE MutationLost
    BY <2>2, Quiet DEF MutationLost, WorkspaceInv, Tab, PanelSaw, CardSlot,
                       serverVars
  <2> QED
    BY <2>1, <2>2
<1>3. RowsWereSeen' /\ NoticeIsOld'
  BY <1>1, <1>2, RowsStay, NoticeStays DEF WorkspaceInv, Tab
<1>4. PanelSaw'
  BY <1>1, <1>2, <1>3, RenderSaw DEF WorkspaceInv, Tab
<1> QED
  BY <1>2, <1>3, <1>4 DEF WorkspaceInv, Tab

-----------------------------------------------------------------------------
(* The panel *)

(* The card and the lists, when only the panel and its request step. *)
LEMMA CardStays ==
  ASSUME WorkspaceInv, Served', Versioned, UNCHANGED cardVars,
         command'["card"] = command["card"] \/ outcome'["card"] = "idle",
         outcome'["card"] # "idle" => outcome["card"] # "idle"
  PROVE  RowsWereSeen' /\ CardSlot' /\ NoticeIsOld'
BY RowsStay, NoticeStays DEF WorkspaceInv, Tab, CardSlot, cardVars

LEMMA PanelOnlySaw ==
  ASSUME WorkspaceInv,
         PanelRefresh \/ PanelRead \/ PanelShow \/ PanelLoadFails \/ PanelLost
  PROVE  WorkspaceInv'
<1>1. /\ Served' /\ Versioned /\ PanelUnchanged /\ PanelSaw
      /\ UNCHANGED <<command, outcome, projectVars>>
  BY Quiet DEF PanelRefresh, PanelRead, PanelShow, PanelLoadFails, PanelLost,
               PanelUnchanged, serverVars, WorkspaceInv, Tab
<1>2. RowsWereSeen' /\ CardSlot' /\ NoticeIsOld'
  BY <1>1, CardStays DEF PanelUnchanged
<1>3. /\ panel' = [mounted |-> panel'.mounted, version |-> panel'.version,
                   seen |-> panel'.seen, current |-> panel'.current,
                   phase |-> panel'.phase, load |-> panel'.load,
                   got |-> panel'.got]
      /\ panel'.mounted = panel.mounted /\ panel'.version = panel.version
      /\ panel'.seen = panel.seen /\ panel'.phase \in {panel.phase, "idle"}
  BY <1>1 DEF PanelRefresh, PanelRead, PanelShow, PanelLoadFails, PanelLost,
              PanelSaw, Settled
<1>4. PanelSaw'
  BY <1>1, <1>3 DEF PanelSaw, SawVersion, Content, projectVars
<1> QED
  BY <1>1, <1>2, <1>4 DEF WorkspaceInv, Tab

LEMMA PanelAsks ==
  ASSUME WorkspaceInv, panel.mounted,
         NEW request \in IF panel.current = 0 THEN PanelCreates
                         ELSE PanelDerives
  PROVE  /\ Request(request) /\ request.op \in Composing
         /\ request.expected = panel.version /\ request.seen = panel.seen
<1>1. SawVersion(panel.version, panel.seen)
  BY DEF WorkspaceInv, Tab, PanelSaw
<1>2. CASE panel.current = 0
  <2>1. PICK d \in Documents :
          request = [FromPanel("compose") EXCEPT !.document = d]
    BY <1>2 DEF PanelCreates
  <2>2. /\ request.op = "compose" /\ request.expected = panel.version
        /\ request.seen = panel.seen /\ request.document = d
    BY <2>1 DEF FromPanel, Command
  <2>3. Valid(d)
    BY ProjectsAssumption
  <2> QED
    BY <1>1, <2>2, <2>3 DEF Request, Operations, Composing
<1>3. CASE panel.current # 0
  <2>1. PICK edits :
          request = [FromPanel("derive") EXCEPT !.base = panel.current,
                                                !.edits = edits]
    BY <1>3 DEF PanelDerives
  <2>2. /\ request.op = "derive" /\ request.expected = panel.version
        /\ request.seen = panel.seen /\ request.base = panel.current
    BY <2>1 DEF FromPanel, Command
  <2> QED
    BY <1>1, <1>3, <2>2 DEF Request, Operations, Composing
<1> QED
  BY <1>2, <1>3

LEMMA PanelSendsSaw ==
  ASSUME WorkspaceInv, PanelSends
  PROVE  WorkspaceInv'
<1>1. PICK request \in IF panel.current = 0 THEN PanelCreates ELSE PanelDerives :
        Send("panel", request)
  BY DEF PanelSends
<1>2. /\ panel.mounted /\ panel' = [panel EXCEPT !.phase = "sent"]
      /\ UNCHANGED cardVars
  BY DEF PanelSends
<1>3. /\ Request(request) /\ request.op \in Composing
      /\ request.expected = panel.version /\ request.seen = panel.seen
  BY <1>1, <1>2, PanelAsks
<1>4. Served' /\ Versioned
  BY <1>1, <1>3, SlotsNamed, ClientServed DEF WorkspaceInv
<1>5. /\ command' = [command EXCEPT !["panel"] = request]
      /\ outcome' = [outcome EXCEPT !["panel"] = "sent"]
      /\ UNCHANGED projectVars
  BY <1>1 DEF Send
<1>6. RowsWereSeen' /\ CardSlot' /\ NoticeIsOld'
  BY <1>2, <1>4, <1>5, CardStays, SlotsNamed DEF WorkspaceInv, Served, ServerTyped
<1>7. PanelSaw'
  <2>1. command'["panel"] = request /\ outcome'["panel"] = "sent"
    BY <1>5, SlotsNamed DEF WorkspaceInv, Served, ServerTyped
  <2>2. PanelSaw
    BY DEF WorkspaceInv, Tab
  <2> QED
    BY <1>2, <1>3, <1>5, <2>1, <2>2 DEF PanelSaw, SawVersion, Content,
                                        projectVars
<1> QED
  BY <1>4, <1>6, <1>7 DEF WorkspaceInv, Tab

(* A request of the panel is over; the card's is not touched. *)
LEMMA PanelCloses ==
  ASSUME WorkspaceInv, Close("panel"), UNCHANGED cardVars
  PROVE  /\ Served' /\ Versioned /\ UNCHANGED projectVars
         /\ RowsWereSeen' /\ CardSlot' /\ NoticeIsOld'
<1>1. Served' /\ Versioned
  BY SlotsNamed, ClientServed DEF WorkspaceInv
<1>2. command'["card"] = command["card"] /\ outcome'["card"] = outcome["card"]
  BY SlotsNamed DEF WorkspaceInv, Served, ServerTyped, Close
<1> QED
  BY <1>1, <1>2, CardStays DEF Close

LEMMA PanelRefusedSaw ==
  ASSUME WorkspaceInv, PanelRefused
  PROVE  WorkspaceInv'
<1>1. /\ Close("panel") /\ UNCHANGED cardVars
      /\ panel' = [panel EXCEPT !.phase = "idle"]
  BY DEF PanelRefused, Take
<1>2. PanelSaw
  BY DEF WorkspaceInv, Tab
<1>3. PanelSaw'
  BY <1>1, <1>2, PanelCloses DEF PanelSaw, SawVersion, Content, projectVars
<1> QED
  BY <1>1, <1>3, PanelCloses DEF WorkspaceInv, Tab

LEMMA PanelAcceptedSaw ==
  ASSUME WorkspaceInv, PanelAccepted
  PROVE  WorkspaceInv'
<1> DEFINE made == recorded["panel"].made
<1>1. /\ Close("panel") /\ UNCHANGED cardVars
      /\ panel.phase = "sent" /\ outcome["panel"] = "accepted"
      /\ panel' = [panel EXCEPT !.version = @ + 1, !.current = made,
                                !.seen = [@ EXCEPT !.current = made],
                                !.phase = "refreshing", !.load = "asked"]
  BY DEF PanelAccepted, Take
<1>2. PanelSaw /\ Slot("panel")
  BY SlotsNamed DEF WorkspaceInv, Tab, Served
<1>3. SawVersion(panel.version + 1, After(panel.seen, made))
  BY <1>1, <1>2 DEF PanelSaw, Slot, CarriedOut
<1>4. /\ panel' = [mounted |-> panel'.mounted, version |-> panel'.version,
                   seen |-> panel'.seen, current |-> panel'.current,
                   phase |-> panel'.phase, load |-> panel'.load,
                   got |-> panel'.got]
      /\ panel'.version = panel.version + 1 /\ panel'.phase = "refreshing"
      /\ panel'.seen = After(panel.seen, made)
  BY <1>1, <1>2 DEF PanelSaw, After
<1>5. PanelSaw'
  BY <1>1, <1>3, <1>4, PanelCloses DEF PanelSaw, SawVersion, Content,
                                       projectVars
<1> QED
  BY <1>1, <1>5, PanelCloses DEF WorkspaceInv, Tab

-----------------------------------------------------------------------------
(* The server's steps beside the tab *)

LEMMA OthersAsk ==
  ASSUME Served, NEW s \in Slots, Client(s)
  PROVE  Close(s) \/ \E r : Request(r) /\ Send(s, r)
<1>1. /\ pVersion \in Nat /\ pCurrent \in Nat /\ Made = 1..pCurrent
      /\ SawVersion(pVersion, Content)
  BY DEF Served, ServerTyped, Chain, SawVersion
<1>2. CASE Take(s)
  BY <1>2 DEF Take
<1>3. ASSUME NEW r \in Requests, Send(s, r)
      PROVE  Request(r)
  <2>1. CASE r = Command("create", 0)
    BY <2>1 DEF Request, Command, Operations
  <2>2. CASE \/ \E b \in BOOLEAN :
                  r = [Command("update", pVersion) EXCEPT !.favorite = b]
             \/ r \in {Command("delete", pVersion), Command("restore", pVersion)}
    <3>1. /\ r.op \in {"update", "delete", "restore"}
          /\ r.expected = pVersion /\ r.seen = Content
      BY <2>2 DEF Command
    <3> QED
      BY <1>1, <3>1 DEF Request, Operations
  <2>3. CASE \E d \in Documents :
               r = [Command("compose", pVersion) EXCEPT !.document = d]
    <3>1. PICK d \in Documents :
            r = [Command("compose", pVersion) EXCEPT !.document = d]
      BY <2>3
    <3>2. /\ r.op = "compose" /\ r.expected = pVersion /\ r.seen = Content
          /\ r.document = d
      BY <3>1 DEF Command
    <3> QED
      BY <1>1, <3>2, ProjectsAssumption DEF Request, Operations
  <2> QED
    BY <1>3, <2>1, <2>2, <2>3 DEF Requests
<1>4. ASSUME NEW base \in Made, NEW edits, Send(s, Derivation(base, edits))
      PROVE  Request(Derivation(base, edits))
  <2> DEFINE r == Derivation(base, edits)
  <2>1. /\ r.op = "derive" /\ r.expected = pVersion /\ r.seen = Content
        /\ r.base = base
    BY DEF Derivation, Command
  <2> HIDE DEF r
  <2>2. Request(r)
    BY <1>1, <1>4, <2>1 DEF Request, Operations
  <2> QED
    BY <2>2 DEF r
<1> QED
  BY <1>2, <1>3, <1>4 DEF Client

LEMMA BesidesSaw ==
  ASSUME WorkspaceInv, Served', Versioned, UNCHANGED tabVars,
         panel.phase = "sent" => /\ command'["panel"] = command["panel"]
                                 /\ outcome'["panel"] # "idle",
         command'["card"] = command["card"] \/ outcome'["card"] = "idle",
         outcome'["card"] # "idle" => outcome["card"] # "idle"
  PROVE  WorkspaceInv'
<1>1. RowsWereSeen' /\ CardSlot' /\ NoticeIsOld'
  BY CardStays DEF tabVars
<1>2. PanelSaw'
  BY PanelStays DEF WorkspaceInv, Tab, tabVars
<1> QED
  BY <1>1, <1>2 DEF WorkspaceInv, Tab

LEMMA ServerSaw ==
  ASSUME WorkspaceInv, ServerNext, UNCHANGED tabVars
  PROVE  WorkspaceInv'
<1>1. panel.phase = "sent" => outcome["panel"] # "idle"
  BY DEF WorkspaceInv, Tab, PanelSaw
<1>2. CASE Tick
  <2>1. Served' /\ Versioned /\ UNCHANGED <<command, outcome>>
    BY <1>2, StillServed DEF WorkspaceInv, Tick
  <2> QED
    BY <1>1, <2>1, BesidesSaw
<1>3. ASSUME NEW s \in Slots, Handle(s)
      PROVE  WorkspaceInv'
  <2>1. /\ Served' /\ Versioned /\ command' = command /\ outcome[s] # "idle"
        /\ \E answer \in {"accepted", "conflict", "refused"} :
             outcome' = [outcome EXCEPT ![s] = answer]
    BY <1>3, HandleServed, HandleAnswers DEF WorkspaceInv
  <2>2. \A t \in Slots : outcome[t] # "idle" <=> outcome'[t] # "idle"
    BY <2>1 DEF WorkspaceInv, Served, ServerTyped
  <2> QED
    BY <1>1, <2>1, <2>2, SlotsNamed, BesidesSaw
<1>4. ASSUME NEW s \in Others, Client(s)
      PROVE  WorkspaceInv'
  <2>1. s \in Slots /\ (Close(s) \/ \E r : Request(r) /\ Send(s, r))
    BY <1>4, OthersAsk DEF WorkspaceInv, Others
  <2>2. Served' /\ Versioned
    BY <2>1, ClientServed DEF WorkspaceInv
  <2>3. \A t \in {"card", "panel"} : /\ command'[t] = command[t]
                                     /\ outcome'[t] = outcome[t]
    BY <1>4, <2>1, SlotsNamed
       DEF Others, Close, Send, WorkspaceInv, Served, ServerTyped
  <2> QED
    BY <1>1, <2>2, <2>3, BesidesSaw
<1> QED
  BY <1>2, <1>3, <1>4 DEF ServerNext

LEMMA ForgetSaw ==
  ASSUME WorkspaceInv, NEW s \in Abandoned, Forget(s)
  PROVE  WorkspaceInv'
<1>1. s \in Slots /\ Close(s) /\ UNCHANGED tabVars
  BY SlotsNamed DEF Forget, Abandoned
<1>2. Served' /\ Versioned
  BY <1>1, ClientServed DEF WorkspaceInv
<1>3. \A t \in Slots \ {s} : /\ command'[t] = command[t]
                             /\ outcome'[t] = outcome[t]
  BY <1>1 DEF Close, WorkspaceInv, Served, ServerTyped
<1>4. outcome'[s] = "idle"
  BY <1>1 DEF Close, WorkspaceInv, Served, ServerTyped
<1>5. panel.phase = "sent" => s # "panel" /\ outcome["panel"] # "idle"
  BY DEF Abandoned, WorkspaceInv, Tab, PanelSaw
<1> QED
  BY <1>1, <1>2, <1>3, <1>4, <1>5, SlotsNamed, BesidesSaw

-----------------------------------------------------------------------------
(* The workspace *)

LEMMA WorkspaceInit == Init => WorkspaceInv
<1> SUFFICES ASSUME Init PROVE WorkspaceInv
  OBVIOUS
<1>1. Served
  BY ServedInit, ProjectsAssumption DEF Init
<1>2. RowsWereSeen
  BY FreshLoads DEF Init, RowsWereSeen, Seen, NoRow
<1>3. PanelSaw
  BY DEF Init, PanelSaw, NoPanel
<1>4. CardSlot /\ NoticeIsOld
  BY SlotsNamed DEF Init, ProjectsInit, CardSlot, NoticeIsOld
<1> QED
  BY <1>1, <1>2, <1>3, <1>4 DEF WorkspaceInv, Tab

LEMMA WorkspaceStep == WorkspaceInv /\ [Next]_workspaceVars => WorkspaceInv'
<1> SUFFICES ASSUME WorkspaceInv, [Next]_workspaceVars
             PROVE  WorkspaceInv'
  OBVIOUS
<1>1. CASE CardNext
  <2>1. CASE Refresh
    BY <2>1, RefreshSaw
  <2>2. CASE Edit \/ CancelEdit
    BY <2>2, EditSaw
  <2>3. CASE RunMutation
    BY <2>3, RunMutationSaw
  <2>4. CASE MutationAnswered
    BY <2>4, MutationAnsweredSaw
  <2>5. CASE MutationRefused \/ MutationLost
    BY <2>5, MutationEndsSaw
  <2>6. ASSUME NEW load \in Loads, NEW list \in Lists, ReadList(load, list)
        PROVE  WorkspaceInv'
    BY <2>6, ReadListSaw
  <2>7. ASSUME NEW load \in Loads, ShowLists(load) \/ FailLists(load)
        PROVE  WorkspaceInv'
    BY <2>7, EndLoadSaw DEF ShowLists, FailLists
  <2> QED
    BY <1>1, <2>1, <2>2, <2>3, <2>4, <2>5, <2>6, <2>7 DEF CardNext
<1>2. CASE PanelNext
  BY <1>2, PanelOnlySaw, PanelSendsSaw, PanelRefusedSaw, PanelAcceptedSaw
     DEF PanelNext
<1>3. CASE ServerNext /\ UNCHANGED tabVars
  BY <1>3, ServerSaw
<1>4. CASE \E s \in Abandoned : Forget(s)
  BY <1>4, ForgetSaw
<1>5. CASE UNCHANGED workspaceVars
  <2>1. UNCHANGED <<serverVars, tabVars, command, outcome>>
    BY <1>5 DEF workspaceVars, serverVars
  <2>2. Served' /\ Versioned
    BY <2>1, Quiet
  <2> QED
    BY <2>1, <2>2, BesidesSaw DEF WorkspaceInv, Tab, PanelSaw
<1> QED
  BY <1>1, <1>2, <1>3, <1>4, <1>5 DEF Next

LEMMA WorkspaceAlways == Spec => []WorkspaceInv
BY WorkspaceInit, WorkspaceStep, PTL DEF Spec

(* Every step is one of the server or of one request's client, or leaves the *)
(* server alone.                                                             *)
LEMMA ServerSteps ==
  ASSUME [Next]_workspaceVars
  PROVE  \/ UNCHANGED serverVars \/ Tick
         \/ \E s \in Slots : \/ Handle(s) \/ Close(s)
                             \/ \E r : Send(s, r)
<1>1. CASE CardNext
  <2>1. CASE RunMutation
    BY <2>1, SlotsNamed DEF RunMutation
  <2>2. CASE MutationAnswered \/ MutationRefused
    BY <2>2, SlotsNamed DEF MutationAnswered, MutationRefused, Take
  <2> QED
    BY <1>1, <2>1, <2>2
       DEF CardNext, Refresh, Edit, CancelEdit, MutationLost, ReadList,
           ShowLists, FailLists, EndLoad
<1>2. CASE PanelNext
  <2>1. CASE PanelSends
    BY <2>1, SlotsNamed DEF PanelSends
  <2>2. CASE PanelAccepted \/ PanelRefused
    BY <2>2, SlotsNamed DEF PanelAccepted, PanelRefused, Take
  <2> QED
    BY <1>2, <2>1, <2>2
       DEF PanelNext, PanelRefresh, PanelRead, PanelShow, PanelLoadFails,
           PanelLost, PanelUnchanged
<1>3. CASE ServerNext
  BY <1>3 DEF ServerNext, Others, Client, Take
<1>4. CASE \E s \in Abandoned : Forget(s)
  BY <1>4, SlotsNamed DEF Forget, Abandoned
<1> QED
  BY <1>1, <1>2, <1>3, <1>4 DEF Next, workspaceVars

LEMMA RetentionStep ==
  pRetention \in 0..RetentionTicks /\ [Next]_workspaceVars
    => (pRetention \in 0..RetentionTicks)'
<1> SUFFICES ASSUME pRetention \in 0..RetentionTicks, [Next]_workspaceVars
             PROVE  pRetention' \in 0..RetentionTicks
  OBVIOUS
<1>1. CASE Tick
  BY <1>1, ProjectsAssumption DEF Tick
<1>2. ASSUME NEW s \in Slots, Handle(s)
      PROVE  pRetention' \in 0..RetentionTicks
  BY <1>2, HandleAnswers, ProjectsAssumption
<1>3. CASE UNCHANGED serverVars
  BY <1>3 DEF serverVars, projectVars
<1>4. ASSUME NEW s \in Slots, Close(s) \/ \E r : Send(s, r)
      PROVE  pRetention' \in 0..RetentionTicks
  BY <1>4 DEF Close, Send, projectVars
<1> QED
  BY <1>1, <1>2, <1>3, <1>4, ServerSteps

-----------------------------------------------------------------------------
(* The theorems *)

(* The rows, the commands and the answers keep their types, and a document  *)
(* that was stored is one its schema accepts.                               *)
THEOREM ServerTypeCorrect == Spec => []ServerTypeOK
<1>1. Init => pRetention \in 0..RetentionTicks
  BY ProjectsAssumption DEF Init, ProjectsInit
<1>2. Spec => [](pRetention \in 0..RetentionTicks)
  BY <1>1, RetentionStep, PTL DEF Spec
<1>3. WorkspaceInv /\ pRetention \in 0..RetentionTicks => ServerTypeOK
  <2> SUFFICES ASSUME WorkspaceInv, pRetention \in 0..RetentionTicks
               PROVE  ServerTypeOK
    OBVIOUS
  <2>1. ServerTyped /\ Chain /\ \A s \in Slots : Slot(s)
    BY DEF WorkspaceInv, Served
  <2>2. pCurrent \in {0} \cup Made
    BY <2>1 DEF ServerTyped, Chain
  <2>3. \A s \in Slots : outcome[s] # "idle" => command[s].op \in Operations
    BY <2>1 DEF Slot, Request
  <2> QED
    BY <2>1, <2>2, <2>3 DEF ServerTypeOK, ServerTyped, Chain, Record
<1> QED
  BY <1>2, <1>3, WorkspaceAlways, PTL

(* Whatever overlaps, the composition versions of a Project stay one chain   *)
(* without gaps that ends at the version the Project points to.              *)
THEOREM HistoryStaysAChain == Spec => []HistoryIsAChain
<1>1. WorkspaceInv => HistoryIsAChain
  BY ServerFacts DEF WorkspaceInv
<1> QED
  BY <1>1, WorkspaceAlways, PTL

(* No command of any client is carried out on a content other than the one   *)
(* it was made from.                                                         *)
THEOREM CommandsFit == Spec => CommandsFitWhatWasSeen
<1> DEFINE Fits ==
      \A s \in Slots :
        /\ command[s].op \notin {"none", "create"}
        /\ recorded'[s].done /\ ~recorded[s].done
        => Content = command[s].seen
<1>1. WorkspaceInv /\ [Next]_workspaceVars => [Fits]_serverVars
  <2> SUFFICES ASSUME WorkspaceInv, [Next]_workspaceVars, NEW s \in Slots,
                      command[s].op \notin {"none", "create"},
                      recorded'[s].done, ~recorded[s].done
               PROVE  Content = command[s].seen
    OBVIOUS
  <2>1. ASSUME NEW t \in Slots, Handle(t)
        PROVE  Content = command[s].seen
    BY <2>1, HandleFits DEF WorkspaceInv
  <2>2. recorded' # recorded
    OBVIOUS
  <2>3. ASSUME NEW t \in Slots, Close(t) \/ \E r : Send(t, r)
        PROVE  FALSE
    BY <2>3 DEF Close, Send, NotRecorded, WorkspaceInv, Served, ServerTyped
  <2> QED
    BY <2>1, <2>2, <2>3, ServerSteps DEF Tick, serverVars
<1> HIDE DEF Fits
<1>2. [Next]_workspaceVars /\ WorkspaceInv => [Fits]_serverVars
  BY <1>1
<1>3. Spec => [][Fits]_serverVars
  BY <1>2, WorkspaceAlways, PTL DEF Spec
<1> QED
  BY <1>3 DEF CommandsFitWhatWasSeen, Fits

(* A repeated command that was accepted once is accepted again.              *)
THEOREM RepeatsAreAccepted == Spec => AcceptedStays
<1> DEFINE Stays ==
      \A s \in Slots :
        outcome[s] = "accepted" => outcome'[s] \in {"accepted", "idle"}
<1>1. WorkspaceInv /\ [Next]_workspaceVars => [Stays]_serverVars
  <2> SUFFICES ASSUME WorkspaceInv, [Next]_workspaceVars, NEW s \in Slots,
                      outcome[s] = "accepted"
               PROVE  outcome'[s] \in {"accepted", "idle"}
    OBVIOUS
  <2>1. ASSUME NEW t \in Slots, Handle(t)
        PROVE  outcome'[s] = "accepted"
    <3>1. CASE t = s
      BY <2>1, <3>1, HandleRepeats DEF WorkspaceInv
    <3>2. CASE t # s
      BY <2>1, <3>2, HandleAnswers DEF WorkspaceInv, Served, ServerTyped
    <3> QED
      BY <3>1, <3>2
  <2>2. ASSUME NEW t \in Slots, Close(t) \/ \E r : Send(t, r)
        PROVE  outcome'[s] \in {"accepted", "idle"}
    BY <2>2 DEF Close, Send, WorkspaceInv, Served, ServerTyped
  <2> QED
    BY <2>1, <2>2, ServerSteps DEF Tick, serverVars
<1> HIDE DEF Stays
<1>2. Spec => [][Stays]_serverVars
  BY <1>1, WorkspaceAlways, PTL DEF Spec
<1> QED
  BY <1>2 DEF AcceptedStays, Stays

(* Nothing changes a Project, or composes it, while it lies in the trash.    *)
THEOREM TrashStaysFrozen == Spec => TrashIsFrozen
<1> DEFINE Frozen == pStatus = "soft_deleted" =>
                       UNCHANGED <<pFavorite, pCurrent, compositionVars>>
<1>1. [Next]_workspaceVars => [Frozen]_serverVars
  BY ServerSteps, HandleSparesTrash
     DEF Tick, Close, Send, serverVars, projectVars
<1> HIDE DEF Frozen
<1>2. Spec => [][Frozen]_serverVars
  BY <1>1, PTL DEF Spec
<1> QED
  BY <1>2 DEF TrashIsFrozen, Frozen

LEMMA ConflictStep ==
  ASSUME WorkspaceInv, [Next]_workspaceVars, notice # 0, notice' = notice
  PROVE  /\ shown' # shown /\ cardPhase' # cardPhase => IsNewer(shown')
         /\ IsNewer(shown) /\ IsNewer(listing["button"].rows)
              => IsNewer(shown') /\ IsNewer(listing'["button"].rows)
<1>1. /\ NoticeIsOld /\ RowsWereSeen /\ pVersion \in Nat
      /\ "button" \in Loads /\ "mutation" \in Loads
      /\ \A load \in Loads : load \in {"button", "mutation"}
  BY DEF WorkspaceInv, Tab, Served, ServerTyped, Loads
<1>2. CASE UNCHANGED <<shown, listing>>
  BY <1>2 DEF IsNewer
<1>3. CASE Refresh
  <2>1. /\ listing'["button"] = Reading /\ shown' = shown
    BY <1>1, <1>3 DEF Refresh, RowsWereSeen
  <2>2. IsNewer(Reading.rows)
    BY DEF IsNewer, Reading, Load, NoRow
  <2> QED
    BY <2>1, <2>2 DEF IsNewer
<1>4. ASSUME NEW load \in Loads, NEW list \in Lists, ReadList(load, list),
             IsNewer(listing["button"].rows)
      PROVE  IsNewer(listing'["button"].rows)
  <2>1. ListRow(list).version # notice
    BY <1>1 DEF ListRow, NoRow, NoticeIsOld
  <2>2. CASE load = "button"
    <3> DEFINE read == [listing[load].rows EXCEPT ![list] = ListRow(list)]
    <3>1. listing'["button"].rows = read
      BY <1>1, <1>4, <2>2 DEF ReadList, RowsWereSeen
    <3>2. \A l \in Lists :
            read[l] = IF l = list THEN ListRow(list) ELSE listing[load].rows[l]
      BY <1>1 DEF RowsWereSeen, LoadRecord
    <3> HIDE DEF read
    <3> QED
      BY <1>4, <2>1, <2>2, <3>1, <3>2 DEF IsNewer
  <2>3. CASE load # "button"
    BY <1>1, <1>4, <2>3 DEF ReadList, RowsWereSeen
  <2> QED
    BY <2>2, <2>3
<1>5. ASSUME NEW load \in Loads, ShowLists(load)
      PROVE  /\ cardPhase' # cardPhase => IsNewer(shown')
             /\ IsNewer(shown) /\ IsNewer(listing["button"].rows)
                  => IsNewer(shown') /\ IsNewer(listing'["button"].rows)
  <2>1. /\ shown' = listing[load].rows /\ listing[load].done = Lists
        /\ listing' = [listing EXCEPT ![load] = NotReading]
    BY <1>5 DEF ShowLists, EndLoad
  <2>2. IsNewer(NotReading.rows)
    BY DEF IsNewer, NotReading, Load, NoRow
  <2>3. IsNewer(listing["button"].rows) => IsNewer(listing'["button"].rows)
    BY <1>1, <2>1, <2>2 DEF RowsWereSeen
  <2>4. CASE load = "mutation"
    BY <1>1, <2>1, <2>3, <2>4 DEF NoticeIsOld, IsNewer
  <2>5. CASE load = "button"
    <3>1. cardPhase' = cardPhase
      BY <1>5, <2>5 DEF ShowLists, EndLoad
    <3> QED
      BY <2>1, <2>3, <2>5, <3>1
  <2> QED
    BY <1>1, <2>4, <2>5
<1>6. ASSUME NEW load \in Loads, FailLists(load)
      PROVE  /\ shown' = shown
             /\ IsNewer(listing["button"].rows)
                  => IsNewer(listing'["button"].rows)
  <2>1. shown' = shown /\ listing' = [listing EXCEPT ![load] = NotReading]
    BY <1>6 DEF FailLists, EndLoad
  <2>2. IsNewer(NotReading.rows)
    BY DEF IsNewer, NotReading, Load, NoRow
  <2> QED
    BY <1>1, <2>1, <2>2 DEF RowsWereSeen
<1>7. CASE MutationAnswered
  <2>1. listing'["button"] = listing["button"] /\ shown' = shown
    BY <1>1, <1>7 DEF MutationAnswered, RowsWereSeen
  <2> QED
    BY <2>1 DEF IsNewer
<1>8. CASE CardNext
  <2>1. CASE Edit \/ CancelEdit \/ RunMutation \/ MutationRefused \/ MutationLost
    BY <1>2, <2>1
       DEF Edit, CancelEdit, RunMutation, MutationRefused, MutationLost
  <2>2. ASSUME NEW load \in Loads, NEW list \in Lists, ReadList(load, list)
        PROVE  shown' = shown
    BY <2>2 DEF ReadList
  <2> QED
    BY <1>3, <1>4, <1>5, <1>6, <1>7, <1>8, <2>1, <2>2 DEF CardNext, IsNewer
<1>9. CASE ~CardNext
  <2>1. UNCHANGED cardVars
    BY <1>9
       DEF Next, PanelNext, PanelRefresh, PanelRead, PanelShow, PanelLoadFails,
           PanelSends, PanelAccepted, PanelRefused, PanelLost, PanelUnchanged,
           Forget, tabVars, workspaceVars
  <2> QED
    BY <1>2, <2>1 DEF cardVars
<1> QED
  BY <1>8, <1>9

(* The rows shown after a conflict do not hold the version that was refused, *)
(* and no load that is begun after it brings that version back.              *)
THEOREM ConflictsShowNewer == Spec => ConflictShowsNewer
<1> DEFINE Shows ==
      notice # 0 /\ notice' = notice =>
        /\ cardPhase = "refreshing" /\ cardPhase' = "idle" /\ shown' # shown
             => IsNewer(shown')
        /\ IsNewer(shown) /\ IsNewer(listing["button"].rows)
             => IsNewer(shown') /\ IsNewer(listing'["button"].rows)
<1>1. WorkspaceInv /\ [Next]_workspaceVars => [Shows]_workspaceVars
  BY ConflictStep
<1> HIDE DEF Shows
<1>2. Spec => [][Shows]_workspaceVars
  BY <1>1, WorkspaceAlways, PTL DEF Spec
<1> QED
  BY <1>2 DEF ConflictShowsNewer, Shows

-----------------------------------------------------------------------------
(* The document.  What a list of edits does is an induction over the list;  *)
(* the library's induction theorems take an operator, so the sets of the    *)
(* numbers for which a claim holds stand in for it.                         *)

(* A set of natural numbers has a least one. *)
LEMMA LeastNatural ==
  ASSUME NEW T \in SUBSET Nat, T # {}
  PROVE  \E n \in T : \A m \in T : n <= m
<1> DEFINE R == OpToRel(<, Nat)
<1>1. IsWellFoundedOn(R, Nat)
  BY NatLessThanWellFounded, Zenon
<1>2. \A m, n \in Nat : <<m, n>> \in R <=> m < n
  BY DEF OpToRel
<1> HIDE DEF R
<1>3. PICK n \in T : \A m \in T : ~ (<<m, n>> \in R)
  BY <1>1, WFMin, Zenon
<1>4. \A m \in T : ~ (m < n)
  BY <1>2, <1>3
<1>5. \A m \in T : n <= m
  BY <1>4
<1> QED
  BY <1>5

(* A set of numbers that holds 0, and n + 1 with every n, is all of them.   *)
LEMMA AllNaturals ==
  ASSUME NEW T \in SUBSET Nat, 0 \in T,
         \A n \in T : n + 1 \in T
  PROVE  T = Nat
<1> SUFFICES ASSUME Nat \ T # {}
             PROVE  FALSE
  OBVIOUS
<1>1. PICK n \in Nat \ T : \A m \in Nat \ T : n <= m
  BY LeastNatural
<1>2. n # 0 /\ n - 1 \in Nat
  BY <1>1
<1>3. n - 1 \in T
  BY <1>1, <1>2
<1> QED
  BY <1>1, <1>2, <1>3


-----------------------------------------------------------------------------
(* The document: what edits do to the scenes *)

SceneRows(ids) ==
  [id : ids, start : Nat, duration : Nat,
   clips : SUBSET [start : Nat, duration : Nat]]
EditRows(ids) ==
  [type : {"sceneText", "sceneDuration", "sceneOrder"}, scene : ids, to : Nat]

Distinct(scenes) ==
  \A i, j \in DOMAIN scenes : scenes[i].id = scenes[j].id => i = j

(* Sequence t has the scenes of s, perhaps in another order; those that D   *)
(* does not name have their durations, too.                                 *)
Keeps(s, t, D) ==
  /\ Len(t) = Len(s) /\ Distinct(t)
  /\ \A i \in DOMAIN s : \E j \in DOMAIN t : t[j].id = s[i].id
  /\ \A j \in DOMAIN t : \E i \in DOMAIN s :
       /\ t[j].id = s[i].id /\ t[j].clips = s[i].clips
       /\ t[j].id \notin D => t[j].duration = s[i].duration

LEMMA KeepsTransitive ==
  ASSUME NEW s, NEW t, NEW u, NEW D, Keeps(s, t, D), Keeps(t, u, D)
  PROVE  Keeps(s, u, D)
<1>1. \A i \in DOMAIN s : \E k \in DOMAIN u : u[k].id = s[i].id
  BY DEF Keeps
<1>2. ASSUME NEW k \in DOMAIN u
      PROVE  \E i \in DOMAIN s :
               /\ u[k].id = s[i].id /\ u[k].clips = s[i].clips
               /\ u[k].id \notin D => u[k].duration = s[i].duration
  <2>1. PICK j \in DOMAIN t :
          /\ u[k].id = t[j].id /\ u[k].clips = t[j].clips
          /\ u[k].id \notin D => u[k].duration = t[j].duration
    BY DEF Keeps
  <2>2. PICK i \in DOMAIN s :
          /\ t[j].id = s[i].id /\ t[j].clips = s[i].clips
          /\ t[j].id \notin D => t[j].duration = s[i].duration
    BY DEF Keeps
  <2> QED
    BY <2>1, <2>2
<1> QED
  BY <1>1, <1>2 DEF Keeps

LEMMA ConcatIs ==
  ASSUME NEW S, NEW a \in Seq(S), NEW b \in Seq(S)
  PROVE  /\ a \o b \in Seq(S) /\ Len(a \o b) = Len(a) + Len(b)
         /\ \A k \in 1..Len(a) + Len(b) :
              (a \o b)[k] = IF k <= Len(a) THEN a[k] ELSE b[k - Len(a)]
OBVIOUS

LEMMA RemoveAtIs ==
  ASSUME NEW S, NEW s \in Seq(S), NEW i \in 1..Len(s)
  PROVE  /\ Seqs!RemoveAt(s, i) \in Seq(S)
         /\ Len(Seqs!RemoveAt(s, i)) = Len(s) - 1
         /\ \A k \in 1..Len(s) - 1 :
              Seqs!RemoveAt(s, i)[k] = s[IF k < i THEN k ELSE k + 1]
<1> DEFINE a == SubSeq(s, 1, i - 1)
           b == SubSeq(s, i + 1, Len(s))
<1>1. /\ a \in Seq(S) /\ Len(a) = i - 1
      /\ \A k \in 1..i - 1 : a[k] = s[k]
  OBVIOUS
<1>2. /\ b \in Seq(S) /\ Len(b) = Len(s) - i
      /\ \A k \in 1..Len(s) - i : b[k] = s[k + i]
  OBVIOUS
<1>3. Seqs!RemoveAt(s, i) = a \o b
  BY DEF Seqs!RemoveAt
<1> HIDE DEF a, b
<1>4. /\ a \o b \in Seq(S) /\ Len(a \o b) = Len(s) - 1
      /\ \A k \in 1..Len(s) - 1 :
           (a \o b)[k] = IF k <= Len(a) THEN a[k] ELSE b[k - Len(a)]
  <2>1. Len(a) + Len(b) = Len(s) - 1
    BY <1>1, <1>2
  <2>2. /\ a \o b \in Seq(S) /\ Len(a \o b) = Len(a) + Len(b)
        /\ \A k \in 1..Len(a) + Len(b) :
             (a \o b)[k] = IF k <= Len(a) THEN a[k] ELSE b[k - Len(a)]
    BY <1>1, <1>2, ConcatIs
  <2> HIDE DEF a, b
  <2> QED
    BY <2>1, <2>2
<1>5. \A k \in 1..Len(s) - 1 : (a \o b)[k] = s[IF k < i THEN k ELSE k + 1]
  <2> TAKE k \in 1..Len(s) - 1
  <2>1. CASE k < i
    BY <1>1, <1>4, <2>1
  <2>2. CASE ~ (k < i)
    <3>1. k - Len(a) \in 1..Len(s) - i /\ k - Len(a) + i = k + 1
      BY <1>1, <2>2
    <3> QED
      BY <1>1, <1>2, <1>4, <2>2, <3>1
  <2> QED
    BY <2>1, <2>2
<1> QED
  BY <1>3, <1>4, <1>5

LEMMA InsertAtIs ==
  ASSUME NEW S, NEW s \in Seq(S), NEW i \in 1..Len(s) + 1, NEW e \in S
  PROVE  /\ Seqs!InsertAt(s, i, e) \in Seq(S)
         /\ Len(Seqs!InsertAt(s, i, e)) = Len(s) + 1
         /\ \A k \in 1..Len(s) + 1 :
              Seqs!InsertAt(s, i, e)[k] =
                IF k < i THEN s[k] ELSE IF k = i THEN e ELSE s[k - 1]
<1> DEFINE a == SubSeq(s, 1, i - 1)
           b == SubSeq(s, i, Len(s))
<1>1. /\ a \in Seq(S) /\ Len(a) = i - 1
      /\ \A k \in 1..i - 1 : a[k] = s[k]
  OBVIOUS
<1>2. /\ b \in Seq(S) /\ Len(b) = Len(s) - i + 1
      /\ \A k \in 1..Len(s) - i + 1 : b[k] = s[k + i - 1]
  OBVIOUS
<1>3. Seqs!InsertAt(s, i, e) = (a \o <<e>>) \o b
  BY DEF Seqs!InsertAt
<1> HIDE DEF a, b
<1> DEFINE c == a \o <<e>>
<1>4. /\ c \in Seq(S) /\ Len(c) = i
      /\ \A k \in 1..i : c[k] = IF k < i THEN s[k] ELSE e
  BY <1>1
<1> HIDE DEF c
<1>5. /\ c \o b \in Seq(S) /\ Len(c \o b) = Len(s) + 1
      /\ \A k \in 1..Len(s) + 1 :
           (c \o b)[k] = IF k <= i THEN c[k] ELSE b[k - i]
  <2>1. Len(c) + Len(b) = Len(s) + 1
    BY <1>2, <1>4
  <2>2. /\ c \o b \in Seq(S) /\ Len(c \o b) = Len(c) + Len(b)
        /\ \A k \in 1..Len(c) + Len(b) :
             (c \o b)[k] = IF k <= Len(c) THEN c[k] ELSE b[k - Len(c)]
    BY <1>2, <1>4, ConcatIs
  <2>3. Len(c) = i
    BY <1>4
  <2> QED
    BY <2>1, <2>2, <2>3
<1>6. \A k \in 1..Len(s) + 1 :
        (c \o b)[k] = IF k < i THEN s[k] ELSE IF k = i THEN e ELSE s[k - 1]
  <2> TAKE k \in 1..Len(s) + 1
  <2>1. CASE k <= i
    BY <1>4, <1>5, <2>1
  <2>2. CASE ~ (k <= i)
    <3>1. k - i \in 1..Len(s) - i + 1 /\ (k - i) + i - 1 = k - 1
      BY <2>2
    <3> QED
      BY <1>2, <1>5, <2>2, <3>1
  <2> QED
    BY <2>1, <2>2
<1> QED
  BY <1>3, <1>5, <1>6 DEF c

(* The same, with one name for what it says. *)
Inserted(t, s, i, e, S) ==
  /\ t \in Seq(S) /\ Len(t) = Len(s) + 1
  /\ \A k \in 1..Len(s) + 1 :
       t[k] = IF k < i THEN s[k] ELSE IF k = i THEN e ELSE s[k - 1]

LEMMA InsertAtInserts ==
  ASSUME NEW S, NEW s \in Seq(S), NEW i \in 1..Len(s) + 1, NEW e \in S
  PROVE  Inserted(Seqs!InsertAt(s, i, e), s, i, e, S)
BY InsertAtIs DEF Inserted

-----------------------------------------------------------------------------
(* The two splices put each scene in one place. *)
LEMMA MovedKeeps ==
  ASSUME NEW ids, NEW D, NEW s \in Seq(SceneRows(ids)), Distinct(s),
         NEW i \in DOMAIN s, NEW order \in Nat
  PROVE  /\ Moved(s, i, order) \in Seq(SceneRows(ids))
         /\ Keeps(s, Moved(s, i, order), D)
<1> DEFINE n == Len(s)
           rest == Seqs!RemoveAt(s, i)
           at == IF order < Len(rest) THEN order ELSE Len(rest)
           t == Seqs!InsertAt(rest, at + 1, s[i])
           \* where the scene at place k of t was, and where that of j is now
           was(k) == IF k = at + 1 THEN i
                     ELSE IF k < at + 1 THEN (IF k < i THEN k ELSE k + 1)
                     ELSE (IF k - 1 < i THEN k - 1 ELSE k)
           now(j) == IF j = i THEN at + 1
                     ELSE IF j < i THEN (IF j < at + 1 THEN j ELSE j + 1)
                     ELSE (IF j - 1 < at + 1 THEN j - 1 ELSE j)
<1>1. Moved(s, i, order) = t
  BY DEF Moved
<1>2. n \in Nat /\ i \in 1..n /\ s[i] \in SceneRows(ids) /\ DOMAIN s = 1..n
  OBVIOUS
<1>3. /\ rest \in Seq(SceneRows(ids)) /\ Len(rest) = n - 1
      /\ \A k \in 1..n - 1 : rest[k] = s[IF k < i THEN k ELSE k + 1]
  <2>1. i \in 1..Len(s)
    OBVIOUS
  <2> QED
    BY <2>1, RemoveAtIs
<1> HIDE DEF rest, n
<1>4. at \in 0..n - 1
  BY <1>2, <1>3
<1>5. /\ t \in Seq(SceneRows(ids)) /\ Len(t) = n
      /\ \A k \in 1..n : t[k] = IF k < at + 1 THEN rest[k]
                                ELSE IF k = at + 1 THEN s[i] ELSE rest[k - 1]
  <2> DEFINE p == at + 1
             x == s[i]
             S == SceneRows(ids)
  <2>1. p \in 1..Len(rest) + 1 /\ Len(rest) + 1 = n
    BY <1>2, <1>3, <1>4
  <2>2. rest \in Seq(S) /\ x \in S
    BY <1>2, <1>3
  <2>3. t = Seqs!InsertAt(rest, p, x)
    OBVIOUS
  <2> HIDE DEF at, p, x, S, t
  <2>4. /\ t \in Seq(S) /\ Len(t) = Len(rest) + 1
        /\ \A k \in 1..Len(rest) + 1 :
             t[k] = IF k < p THEN rest[k]
                    ELSE IF k = p THEN x ELSE rest[k - 1]
    <3>1. Inserted(Seqs!InsertAt(rest, p, x), rest, p, x, S)
      BY <2>1, <2>2, InsertAtInserts, Zenon
    <3> QED
      BY <2>3, <3>1 DEF Inserted
  <2> QED
    BY <2>1, <2>4 DEF p, x, S
<1> HIDE DEF at, t
<1>6. \A k \in 1..n : was(k) \in 1..n /\ t[k] = s[was(k)]
  <2> TAKE k \in 1..n
  <2>1. CASE k < at + 1
    BY <1>2, <1>3, <1>4, <1>5, <2>1
  <2>2. CASE k = at + 1
    BY <1>2, <1>4, <1>5, <2>2
  <2>3. CASE k > at + 1
    <3>1. k - 1 \in 1..n - 1
      BY <1>2, <1>4, <2>3
    <3>2. t[k] = rest[k - 1]
      BY <1>4, <1>5, <2>3
    <3> QED
      BY <1>2, <1>3, <1>4, <2>3, <3>1, <3>2
  <2> QED
    BY <1>4, <2>1, <2>2, <2>3
<1>7. /\ \A j \in 1..n : now(j) \in 1..n /\ was(now(j)) = j
      /\ \A k, m \in 1..n : was(k) = was(m) => k = m
  BY <1>2, <1>4
<1>8. DOMAIN t = 1..n
  BY <1>5
<1> HIDE DEF was, now
<1>9. Keeps(s, t, D)
  <2>1. Len(t) = Len(s)
    BY <1>5 DEF n
  <2>2. Distinct(t)
    <3> SUFFICES ASSUME NEW k \in 1..n, NEW m \in 1..n, t[k].id = t[m].id
                 PROVE  k = m
      BY <1>8 DEF Distinct
    <3>1. was(k) \in DOMAIN s /\ was(m) \in DOMAIN s
          /\ s[was(k)].id = s[was(m)].id
      BY <1>2, <1>6
    <3>2. was(k) = was(m)
      BY <3>1 DEF Distinct
    <3> QED
      BY <1>7, <3>2
  <2>3. \A j \in DOMAIN s : \E k \in DOMAIN t : t[k].id = s[j].id
    BY <1>2, <1>6, <1>7, <1>8
  <2> QED
    BY <1>2, <1>6, <1>8, <2>1, <2>2, <2>3 DEF Keeps
<1> QED
  BY <1>1, <1>5, <1>9

(* The edited scene has the place at which find meets its id. *)
LEMMA EditedKeeps ==
  ASSUME NEW ids, NEW D, NEW s \in Seq(SceneRows(ids)), Distinct(s),
         NEW e \in EditRows(ids), \E i \in DOMAIN s : s[i].id = e.scene,
         e.type = "sceneDuration" => e.scene \in D
  PROVE  /\ Edited(s, e) \in Seq(SceneRows(ids))
         /\ Keeps(s, Edited(s, e), D)
<1> DEFINE i == PositionOf(s, e.scene)
<1>1. i \in DOMAIN s /\ s[i].id = e.scene
  BY DEF PositionOf
<1>2. e.to \in Nat /\ e.type \in {"sceneText", "sceneDuration", "sceneOrder"}
  BY DEF EditRows
<1>3. CASE e.type = "sceneText"
  <2>1. Edited(s, e) = s
    BY <1>3 DEF Edited
  <2> QED
    BY <2>1 DEF Keeps
<1>4. CASE e.type = "sceneDuration"
  <2> DEFINE t == [s EXCEPT ![i].duration = e.to]
  <2>1. Edited(s, e) = t
    BY <1>4 DEF Edited
  <2>2. /\ DOMAIN t = DOMAIN s /\ Len(t) = Len(s)
        /\ t \in Seq(SceneRows(ids))
    <3> DEFINE r == [s[i] EXCEPT !.duration = e.to]
    <3>1. t = [s EXCEPT ![i] = r]
      OBVIOUS
    <3>2. r \in SceneRows(ids)
      <4>1. s[i] \in SceneRows(ids)
        BY <1>1
      <4> QED
        BY <1>2, <4>1 DEF SceneRows
    <3> HIDE DEF r, t
    <3> QED
      BY <1>1, <3>1, <3>2
  <2>3. \A j \in DOMAIN s :
          /\ t[j].id = s[j].id /\ t[j].clips = s[j].clips
          /\ j # i => t[j].duration = s[j].duration
    BY <1>1 DEF SceneRows
  <2> HIDE DEF t, i
  <2>4. Distinct(t)
    BY <2>2, <2>3 DEF Distinct
  <2>5. \A j \in DOMAIN s : t[j].id \notin D => t[j].duration = s[j].duration
    BY <1>1, <1>4, <2>3
  <2>6. Keeps(s, t, D)
    BY <2>2, <2>3, <2>4, <2>5 DEF Keeps
  <2> QED
    BY <2>1, <2>2, <2>6
<1>5. CASE e.type = "sceneOrder"
  <2>1. Edited(s, e) = Moved(s, i, e.to)
    BY <1>5 DEF Edited
  <2> HIDE DEF i
  <2> QED
    BY <1>1, <1>2, <2>1, MovedKeeps
<1> QED
  BY <1>2, <1>3, <1>4, <1>5

-----------------------------------------------------------------------------
(* The fold of the edits: its function is defined on every set of edits,    *)
(* and on 1..k it is the document after the first k of them.                *)
IsFold(k, base, edits, f) ==
  f = [s \in SUBSET (1..k) |->
         IF s = {} THEN base
         ELSE LET x == CHOOSE x \in s : \A y \in s : x >= y
              IN Edited(f[s \ {x}], edits[x])]

LEMMA FoldLeftIs ==
  ASSUME NEW base, NEW edits, NEW k, DOMAIN edits = 1..k
  PROVE  Seqs!FoldLeft(Edited, base, edits) =
           (CHOOSE f : IsFold(k, base, edits, f))[1..k]
BY DEF Seqs!FoldLeft, Seqs!MapThenFoldSet, Seqs!Max, IsFold

LEMMA LastIsGreatest ==
  ASSUME NEW k \in Nat, NEW s \in SUBSET (1..k + 1), k + 1 \in s
  PROVE  (CHOOSE x \in s : \A y \in s : x >= y) = k + 1
<1>1. \A y \in s : y \in 1..k + 1
  OBVIOUS
<1>2. \A y \in s : k + 1 >= y
  BY <1>1
<1>3. ASSUME NEW x \in s, \A y \in s : x >= y
      PROVE  x = k + 1
  BY <1>1, <1>3
<1> QED
  BY <1>2, <1>3

LEMMA FoldExists ==
  ASSUME NEW base, NEW edits
  PROVE  \A k \in Nat : \E f : IsFold(k, base, edits, f)
<1> DEFINE T == {k \in Nat : \E f : IsFold(k, base, edits, f)}
<1>1. 0 \in T
  <2> DEFINE f == [s \in SUBSET (1..0) |-> base]
  <2>1. \A s \in SUBSET (1..0) : s = {}
    OBVIOUS
  <2>2. IsFold(0, base, edits, f)
    BY <2>1 DEF IsFold
  <2> QED
    BY <2>2
<1>2. ASSUME NEW k \in T
      PROVE  k + 1 \in T
  <2>1. k \in Nat
    OBVIOUS
  <2>2. PICK f : IsFold(k, base, edits, f)
    OBVIOUS
  <2> DEFINE top(s) == CHOOSE x \in s : \A y \in s : x >= y
             g == [s \in SUBSET (1..k + 1) |->
                     IF k + 1 \in s THEN Edited(f[s \ {k + 1}], edits[k + 1])
                     ELSE f[s]]
  <2>3. 1..k + 1 = (1..k) \cup {k + 1} /\ k + 1 \notin 1..k
    BY <2>1
  <2>4. \A s \in SUBSET (1..k) : g[s] = f[s]
    BY <2>3
  <2>5. \A s \in SUBSET (1..k) :
          f[s] = IF s = {} THEN base ELSE Edited(f[s \ {top(s)}], edits[top(s)])
    BY <2>2 DEF IsFold
  <2>6. ASSUME NEW s \in SUBSET (1..k + 1)
        PROVE  g[s] = IF s = {} THEN base
                      ELSE Edited(g[s \ {top(s)}], edits[top(s)])
    <3>1. CASE k + 1 \in s
      <4>1. top(s) = k + 1
        BY <2>1, <3>1, LastIsGreatest
      <4>2. s \ {k + 1} \in SUBSET (1..k)
        BY <2>3
      <4>3. g[s] = Edited(f[s \ {k + 1}], edits[k + 1])
        BY <3>1
      <4> HIDE DEF top, g
      <4> QED
        BY <2>4, <3>1, <4>1, <4>2, <4>3
    <3>2. CASE k + 1 \notin s
      <4>1. s \in SUBSET (1..k) /\ s \ {top(s)} \in SUBSET (1..k)
        BY <2>3, <3>2
      <4> HIDE DEF top, g
      <4> QED
        BY <2>4, <2>5, <4>1
    <3> QED
      BY <3>1, <3>2
  <2>7. IsFold(k + 1, base, edits, g)
    <3>1. g = [s \in SUBSET (1..k + 1) |-> g[s]]
      OBVIOUS
    <3> HIDE DEF g
    <3> QED
      BY <2>6, <3>1 DEF IsFold
  <2>8. k + 1 \in Nat
    BY <2>1
  <2> QED
    BY <2>7, <2>8
<1> HIDE DEF T
<1>3. T \in SUBSET Nat
  BY DEF T
<1>4. T = Nat
  BY <1>1, <1>2, <1>3, AllNaturals
<1> QED
  BY <1>4 DEF T

(* The scenes after each of the edits; the fold gives the last.             *)
Stages(base, edits, g) ==
  /\ g[0] = base
  /\ \A k \in Nat : k < Len(edits) => g[k + 1] = Edited(g[k], edits[k + 1])
  /\ g[Len(edits)] = Seqs!FoldLeft(Edited, base, edits)

LEMMA FoldHasStages ==
  ASSUME NEW base, NEW S, NEW edits \in Seq(S)
  PROVE  \E g : Stages(base, edits, g)
<1> DEFINE n == Len(edits)
           f == CHOOSE h : IsFold(n, base, edits, h)
           g == [k \in Nat |-> f[1..k]]
<1>1. n \in Nat /\ DOMAIN edits = 1..n
  OBVIOUS
<1>2. Seqs!FoldLeft(Edited, base, edits) = f[1..n]
  BY <1>1, FoldLeftIs
<1>3. IsFold(n, base, edits, f)
  BY <1>1, FoldExists
<1> HIDE DEF f
<1>4. f[1..0] = base
  <2>1. 1..0 = {} /\ {} \in SUBSET (1..n)
    OBVIOUS
  <2> QED
    BY <1>3, <2>1 DEF IsFold
<1>5. ASSUME NEW k \in Nat, k < n
      PROVE  f[1..k + 1] = Edited(f[1..k], edits[k + 1])
  <2> DEFINE s == 1..k + 1
  <2>1. s \in SUBSET (1..n) /\ s # {} /\ k + 1 \in s
    <3>1. \A y \in 1..k + 1 : y \in 1..n
      BY <1>1, <1>5
    <3>2. k + 1 \in 1..k + 1
      OBVIOUS
    <3> QED
      BY <3>1, <3>2
  <2>2. (CHOOSE x \in s : \A y \in s : x >= y) = k + 1
    BY <2>1, LastIsGreatest
  <2>3. s \ {k + 1} = 1..k
    OBVIOUS
  <2> HIDE DEF s
  <2>4. f[s] = Edited(f[1..k], edits[k + 1])
    BY <1>3, <2>1, <2>2, <2>3 DEF IsFold
  <2> QED
    BY <2>4 DEF s
<1>6. Stages(base, edits, g)
  BY <1>1, <1>2, <1>4, <1>5 DEF Stages
<1> QED
  BY <1>6

(* What the whole list of edits keeps. *)
LEMMA FoldKeeps ==
  ASSUME NEW ids, NEW D, NEW s \in Seq(SceneRows(ids)), Distinct(s),
         NEW edits \in Seq(EditRows(ids)),
         \A k \in DOMAIN edits :
           /\ \E i \in DOMAIN s : s[i].id = edits[k].scene
           /\ edits[k].type = "sceneDuration" => edits[k].scene \in D
  PROVE  /\ Seqs!FoldLeft(Edited, s, edits) \in Seq(SceneRows(ids))
         /\ Keeps(s, Seqs!FoldLeft(Edited, s, edits), D)
<1>1. PICK g : Stages(s, edits, g)
  BY FoldHasStages
<1> DEFINE n == Len(edits)
           T == {k \in Nat : k <= n => /\ g[k] \in Seq(SceneRows(ids))
                                       /\ Keeps(s, g[k], D)}
<1>2. n \in Nat /\ DOMAIN edits = 1..n
  OBVIOUS
<1>3. 0 \in T
  <2>1. Keeps(s, s, D)
    BY DEF Keeps
  <2> QED
    BY <1>1, <2>1 DEF Stages
<1>4. ASSUME NEW k \in T
      PROVE  k + 1 \in T
  <2>1. k \in Nat /\ k + 1 \in Nat
    OBVIOUS
  <2> SUFFICES ASSUME k + 1 <= n
               PROVE  /\ g[k + 1] \in Seq(SceneRows(ids))
                      /\ Keeps(s, g[k + 1], D)
    BY <2>1
  <2> DEFINE t == g[k]
             e == edits[k + 1]
  <2>2. t \in Seq(SceneRows(ids)) /\ Keeps(s, t, D)
    BY <1>2, <2>1
  <2>3. g[k + 1] = Edited(t, e)
    BY <1>1, <1>2, <2>1 DEF Stages
  <2>4. /\ e \in EditRows(ids)
        /\ e.type = "sceneDuration" => e.scene \in D
        /\ \E i \in DOMAIN s : s[i].id = e.scene
    <3>1. k + 1 \in DOMAIN edits
      BY <1>2, <2>1
    <3> QED
      BY <3>1
  <2> HIDE DEF t, e
  <2>5. Distinct(t) /\ \E i \in DOMAIN t : t[i].id = e.scene
    BY <2>2, <2>4 DEF Keeps
  <2>6. Edited(t, e) \in Seq(SceneRows(ids)) /\ Keeps(t, Edited(t, e), D)
    BY <2>2, <2>4, <2>5, EditedKeeps
  <2>7. Keeps(s, Edited(t, e), D)
    BY <2>2, <2>6, KeepsTransitive
  <2> QED
    BY <2>3, <2>6, <2>7
<1>5. T = Nat
  <2>1. T \in SUBSET Nat
    OBVIOUS
  <2> HIDE DEF T
  <2> QED
    BY <1>3, <1>4, <2>1, AllNaturals
<1> QED
  BY <1>1, <1>2, <1>5 DEF Stages

(* Edits of texts change no scene. *)
LEMMA FoldOfTexts ==
  ASSUME NEW s, NEW S, NEW edits \in Seq(S),
         \A k \in DOMAIN edits : edits[k].type = "sceneText"
  PROVE  Seqs!FoldLeft(Edited, s, edits) = s
<1>1. PICK g : Stages(s, edits, g)
  BY FoldHasStages
<1> DEFINE n == Len(edits)
           T == {k \in Nat : k <= n => g[k] = s}
<1>2. n \in Nat /\ DOMAIN edits = 1..n
  OBVIOUS
<1>3. 0 \in T
  BY <1>1 DEF Stages
<1>4. ASSUME NEW k \in T
      PROVE  k + 1 \in T
  <2>1. k \in Nat /\ k + 1 \in Nat
    OBVIOUS
  <2> SUFFICES ASSUME k + 1 <= n
               PROVE  g[k + 1] = s
    BY <2>1
  <2>2. g[k] = s
    BY <1>2, <2>1
  <2>3. edits[k + 1].type = "sceneText"
    BY <1>2, <2>1
  <2>4. g[k + 1] = Edited(g[k], edits[k + 1])
    BY <1>1, <1>2, <2>1 DEF Stages
  <2>5. Edited(s, edits[k + 1]) = s
    BY <2>3 DEF Edited
  <2> QED
    BY <2>2, <2>4, <2>5
<1>5. T = Nat
  <2>1. T \in SUBSET Nat
    OBVIOUS
  <2> HIDE DEF T
  <2> QED
    BY <1>3, <1>4, <2>1, AllNaturals
<1> QED
  BY <1>1, <1>2, <1>5 DEF Stages

-----------------------------------------------------------------------------
(* The retiming: its function gives a start to every scene and the end.     *)
IsStart(k, s, f) ==
  f = [i \in 1..k + 1 |-> IF i = 1 THEN 0 ELSE f[i - 1] + s[i - 1].duration]

LEMMA StartExists ==
  ASSUME NEW s
  PROVE  \A k \in Nat : \E f : IsStart(k, s, f)
<1> DEFINE T == {k \in Nat : \E f : IsStart(k, s, f)}
<1>1. 0 \in T
  <2> DEFINE f == [i \in 1..0 + 1 |-> 0]
  <2>1. \A i \in 1..0 + 1 : i = 1
    OBVIOUS
  <2>2. IsStart(0, s, f)
    BY <2>1 DEF IsStart
  <2> QED
    BY <2>2
<1>2. ASSUME NEW k \in T
      PROVE  k + 1 \in T
  <2>1. k \in Nat /\ k + 1 \in Nat
    OBVIOUS
  <2>2. PICK f : IsStart(k, s, f)
    OBVIOUS
  <2> DEFINE g == [i \in 1..(k + 1) + 1 |->
                     IF i = 1 THEN 0 ELSE f[i - 1] + s[i - 1].duration]
  <2>3. \A i \in 1..k + 1 : g[i] = f[i]
    <3>1. \A i \in 1..k + 1 : i \in 1..(k + 1) + 1
      BY <2>1
    <3>2. \A i \in 1..k + 1 :
            f[i] = IF i = 1 THEN 0 ELSE f[i - 1] + s[i - 1].duration
      BY <2>2, Zenon DEF IsStart
    <3> QED
      BY <3>1, <3>2
  <2>4. \A i \in 1..(k + 1) + 1 :
          g[i] = IF i = 1 THEN 0 ELSE g[i - 1] + s[i - 1].duration
    <3> SUFFICES ASSUME NEW i \in 1..(k + 1) + 1
                 PROVE  g[i] = IF i = 1 THEN 0
                               ELSE g[i - 1] + s[i - 1].duration
      OBVIOUS
    <3>1. i # 1 => i - 1 \in 1..k + 1
      BY <2>1
    <3>2. g[i] = IF i = 1 THEN 0 ELSE f[i - 1] + s[i - 1].duration
      OBVIOUS
    <3> HIDE DEF g
    <3> QED
      BY <2>3, <3>1, <3>2
  <2>5. g = [i \in 1..(k + 1) + 1 |-> g[i]]
    OBVIOUS
  <2> HIDE DEF g
  <2>6. IsStart(k + 1, s, g)
    BY <2>4, <2>5 DEF IsStart
  <2> QED
    BY <2>1, <2>6
<1> HIDE DEF T
<1>3. T \in SUBSET Nat
  BY DEF T
<1>4. T = Nat
  BY <1>1, <1>2, <1>3, AllNaturals
<1> QED
  BY <1>4 DEF T

(* Each scene begins where the one before it ends, the first at 0, and the  *)
(* document ends with the last; nothing else changes.                       *)
Gapless(d) ==
  /\ \A i \in DOMAIN d.scenes :
       /\ i = 1 => d.scenes[i].start = 0
       /\ i > 1 => d.scenes[i].start = EndOf(d.scenes[i - 1])
       /\ i = Len(d.scenes) => EndOf(d.scenes[i]) = d.duration

LEMMA RetimedIs ==
  ASSUME NEW ids, NEW s \in Seq(SceneRows(ids)), NEW d, d = Retimed(s)
  PROVE  /\ d.scenes \in Seq(SceneRows(ids)) /\ Len(d.scenes) = Len(s)
         /\ \A i \in DOMAIN s :
              /\ d.scenes[i].id = s[i].id /\ d.scenes[i].clips = s[i].clips
              /\ d.scenes[i].duration = s[i].duration
         /\ d.duration \in Nat
         /\ Gapless(d) /\ ScenesInOrder(d)
<1> DEFINE n == Len(s)
           f == CHOOSE g : IsStart(n, s, g)
           row(i) == [s[i] EXCEPT !.start = f[i]]
           t == [i \in DOMAIN s |-> row(i)]
<1>1. n \in Nat /\ DOMAIN s = 1..n
  OBVIOUS
<1>2. d.scenes = t /\ d.duration = f[n + 1]
  <2>1. d = [scenes |-> t, duration |-> f[n + 1]]
    BY DEF Retimed, IsStart
  <2> HIDE DEF t, f
  <2> QED
    BY <2>1
<1>3. IsStart(n, s, f)
  BY <1>1, StartExists
<1> HIDE DEF f, n
<1>4. \A i \in 1..n + 1 :
        f[i] = IF i = 1 THEN 0 ELSE f[i - 1] + s[i - 1].duration
  BY <1>3, Zenon DEF IsStart
<1>5. \A i \in 1..n : s[i] \in SceneRows(ids) /\ s[i].duration \in Nat
  <2>1. \A i \in 1..n : s[i] \in SceneRows(ids)
    BY <1>1
  <2> QED
    BY <2>1 DEF SceneRows
<1>6. \A i \in 1..n : f[i + 1] = f[i] + s[i].duration
  <2> TAKE i \in 1..n
  <2>1. i + 1 \in 1..n + 1 /\ i + 1 # 1 /\ (i + 1) - 1 = i
    BY <1>1
  <2> QED
    BY <1>4, <2>1
<1>7. f[1] = 0
  BY <1>1, <1>4
<1>8. \A i \in 1..n + 1 : f[i] \in Nat
  <2> DEFINE T == {k \in Nat : k + 1 <= n + 1 => f[k + 1] \in Nat}
  <2>1. T \in SUBSET Nat /\ 0 \in T
    BY <1>7
  <2>2. ASSUME NEW k \in T
        PROVE  k + 1 \in T
    <3>1. k \in Nat /\ k + 1 \in Nat
      OBVIOUS
    <3> SUFFICES ASSUME (k + 1) + 1 <= n + 1
                 PROVE  f[(k + 1) + 1] \in Nat
      BY <3>1
    <3>2. f[k + 1] \in Nat /\ k + 1 \in 1..n
      BY <1>1, <3>1
    <3> QED
      BY <1>5, <1>6, <3>2
  <2> HIDE DEF T
  <2>3. T = Nat
    BY <2>1, <2>2, AllNaturals
  <2> SUFFICES ASSUME NEW i \in 1..n + 1
               PROVE  f[i] \in Nat
    OBVIOUS
  <2>4. i - 1 \in T /\ (i - 1) + 1 = i
    BY <1>1, <2>3
  <2> QED
    BY <1>1, <2>4 DEF T
<1>9. \A i \in 1..n :
        /\ row(i) \in SceneRows(ids) /\ row(i).start = f[i]
        /\ row(i).id = s[i].id /\ row(i).clips = s[i].clips
        /\ row(i).duration = s[i].duration
  <2> TAKE i \in 1..n
  <2>1. s[i] \in SceneRows(ids) /\ f[i] \in Nat
    BY <1>1, <1>5, <1>8
  <2> QED
    BY <2>1 DEF SceneRows
<1> HIDE DEF row
<1>10. /\ t \in Seq(SceneRows(ids)) /\ Len(t) = n /\ DOMAIN t = 1..n
       /\ \A i \in 1..n : t[i] = row(i)
  BY <1>1, <1>9
<1> HIDE DEF t
<1>11. \A i \in 1..n : EndOf(t[i]) = f[i + 1]
  BY <1>6, <1>9, <1>10 DEF EndOf
<1>12. Gapless(d)
  <2>1. \A i \in 1..n : i > 1 => t[i].start = EndOf(t[i - 1])
    <3> SUFFICES ASSUME NEW i \in 1..n, i > 1
                 PROVE  t[i].start = EndOf(t[i - 1])
      OBVIOUS
    <3>1. i - 1 \in 1..n /\ (i - 1) + 1 = i
      BY <1>1
    <3> QED
      BY <1>9, <1>10, <1>11, <3>1
  <2> QED
    BY <1>2, <1>7, <1>9, <1>10, <1>11, <2>1 DEF Gapless
<1>13. \A i \in 1..n : f[i + 1] <= f[n + 1]
  <2> DEFINE T == {k \in Nat : k <= n => f[(n - k) + 1] <= f[n + 1]}
  <2>1. T \in SUBSET Nat /\ 0 \in T
    <3>1. f[n + 1] \in Nat /\ (n - 0) + 1 = n + 1
      BY <1>1, <1>8
    <3> QED
      BY <3>1
  <2>2. ASSUME NEW k \in T
        PROVE  k + 1 \in T
    <3>1. k \in Nat /\ k + 1 \in Nat
      OBVIOUS
    <3> SUFFICES ASSUME k + 1 <= n
                 PROVE  f[(n - (k + 1)) + 1] <= f[n + 1]
      BY <3>1
    <3>2. n - k \in 1..n /\ (n - (k + 1)) + 1 = n - k
      BY <1>1, <3>1
    <3>3. f[(n - k) + 1] <= f[n + 1]
      BY <1>1, <3>1
    <3>4. f[(n - k) + 1] = f[n - k] + s[n - k].duration
      BY <1>6, <3>2
    <3>5. s[n - k].duration \in Nat /\ f[n - k] \in Nat /\ f[n + 1] \in Nat
      BY <1>1, <1>5, <1>8, <3>2
    <3> QED
      BY <3>2, <3>3, <3>4, <3>5
  <2> HIDE DEF T
  <2>3. T = Nat
    BY <2>1, <2>2, AllNaturals
  <2> SUFFICES ASSUME NEW i \in 1..n
               PROVE  f[i + 1] <= f[n + 1]
    OBVIOUS
  <2>4. n - i \in T /\ n - (n - i) = i /\ n - i <= n
    BY <1>1, <2>3
  <2> QED
    BY <2>4 DEF T
<1>14. ScenesInOrder(d)
  <2> SUFFICES ASSUME NEW i \in 1..n
               PROVE  /\ i > 1 => t[i].start >= EndOf(t[i - 1])
                      /\ EndOf(t[i]) <= d.duration
    BY <1>2, <1>10 DEF ScenesInOrder
  <2>1. t[i].start \in Nat
    BY <1>1, <1>8, <1>9, <1>10
  <2>2. i > 1 => t[i].start = EndOf(t[i - 1])
    BY <1>2, <1>10, <1>12 DEF Gapless
  <2>3. EndOf(t[i]) <= d.duration
    BY <1>2, <1>11, <1>13
  <2> QED
    BY <2>1, <2>2, <2>3
<1>15. d.duration \in Nat
  BY <1>1, <1>2, <1>8
<1> QED
  BY <1>1, <1>2, <1>9, <1>10, <1>12, <1>14, <1>15 DEF n

LEMMA SameRow ==
  ASSUME NEW ids, NEW a \in SceneRows(ids), NEW b \in SceneRows(ids),
         a.id = b.id, a.start = b.start, a.duration = b.duration,
         a.clips = b.clips
  PROVE  a = b
BY DEF SceneRows

(* A document without gaps is its own retiming. *)
LEMMA RetimedAgain ==
  ASSUME NEW ids, NEW d, d.scenes \in Seq(SceneRows(ids)), d.scenes # <<>>,
         Gapless(d)
  PROVE  /\ Retimed(d.scenes).scenes = d.scenes
         /\ Retimed(d.scenes).duration = d.duration
<1> DEFINE r == Retimed(d.scenes)
           s == d.scenes
           t == r.scenes
           n == Len(s)
           T == {k \in Nat : k + 1 <= n => t[k + 1].start = s[k + 1].start}
<1>1. /\ t \in Seq(SceneRows(ids)) /\ Len(t) = n
      /\ \A i \in DOMAIN s : /\ t[i].id = s[i].id /\ t[i].clips = s[i].clips
                              /\ t[i].duration = s[i].duration
      /\ Gapless(r)
  BY RetimedIs
<1>2. n \in Nat \ {0} /\ DOMAIN s = 1..n /\ DOMAIN t = 1..n
  BY <1>1
<1> HIDE DEF r, n
<1>3. \A i \in 1..n :
        /\ i = 1 => t[i].start = 0 /\ s[i].start = 0
        /\ i > 1 => /\ t[i].start = EndOf(t[i - 1])
                    /\ s[i].start = EndOf(s[i - 1])
        /\ i = n => EndOf(t[i]) = r.duration /\ EndOf(s[i]) = d.duration
  BY <1>1, <1>2 DEF Gapless, n
<1> HIDE DEF s, t
<1>4. 0 \in T
  BY <1>2, <1>3
<1>5. ASSUME NEW k \in T
      PROVE  k + 1 \in T
  <2>1. k \in Nat /\ k + 1 \in Nat
    OBVIOUS
  <2> SUFFICES ASSUME (k + 1) + 1 <= n
               PROVE  t[(k + 1) + 1].start = s[(k + 1) + 1].start
    BY <2>1
  <2>2. t[k + 1].start = s[k + 1].start /\ k + 1 \in 1..n
    BY <1>2, <2>1
  <2>3. EndOf(t[k + 1]) = EndOf(s[k + 1])
    BY <1>1, <1>2, <2>2 DEF EndOf
  <2>4. (k + 1) + 1 \in 1..n /\ (k + 1) + 1 > 1 /\ ((k + 1) + 1) - 1 = k + 1
    BY <1>2, <2>1
  <2> QED
    BY <1>3, <2>3, <2>4
<1>6. T = Nat
  <2>1. T \in SUBSET Nat
    OBVIOUS
  <2> HIDE DEF T
  <2> QED
    BY <1>4, <1>5, <2>1, AllNaturals
<1>7. \A i \in 1..n : t[i] = s[i]
  <2> TAKE i \in 1..n
  <2>1. t[i].start = s[i].start
    <3>1. i - 1 \in Nat /\ (i - 1) + 1 = i /\ i <= n
      BY <1>2
    <3>2. i - 1 \in T
      BY <1>6, <3>1
    <3> QED
      BY <3>1, <3>2
  <2>2. t[i] \in SceneRows(ids) /\ s[i] \in SceneRows(ids)
    BY <1>1, <1>2 DEF s
  <2>3. t[i].id = s[i].id /\ t[i].clips = s[i].clips
        /\ t[i].duration = s[i].duration
    BY <1>1, <1>2
  <2> QED
    BY <2>1, <2>2, <2>3, SameRow
<1>8. t = s
  <2>1. s \in Seq(SceneRows(ids))
    BY DEF s
  <2> QED
    BY <1>1, <1>2, <1>7, <2>1
<1>9. r.duration = d.duration
  <2>1. n \in 1..n
    BY <1>2
  <2> QED
    BY <1>3, <1>8, <2>1
<1> QED
  BY <1>8, <1>9 DEF r, s, t

-----------------------------------------------------------------------------
(* The theorems about a list of edits *)

(* The scenes whose duration an edit sets. *)
Lengthened(edits) ==
  {edits[k].scene : k \in {m \in DOMAIN edits :
                             edits[m].type = "sceneDuration"}}

(* Whatever list of edits a client sends for the scenes of a document, in   *)
(* whatever order: applyCompositionEdits loses no scene and doubles none,   *)
(* changes no clip and no duration that it was not asked to change, and     *)
(* leaves the scenes in array order without a gap, the first at 0 and the   *)
(* last at the end of the document.                                         *)
THEOREM EditsKeepTheScenes ==
  ASSUME NEW ids, NEW document, NEW edits \in Seq(EditRows(ids)),
         document.scenes \in Seq(SceneRows(ids)), DistinctScenes(document),
         \A k \in DOMAIN edits : edits[k].scene \in SceneIds(document),
         NEW result, result = ApplyEdits(document, edits)
  PROVE  /\ SceneIds(result) = SceneIds(document)
         /\ Len(result.scenes) = Len(document.scenes)
         /\ \A j \in DOMAIN result.scenes : \E i \in DOMAIN document.scenes :
              LET old == document.scenes[i]
                  new == result.scenes[j]
              IN /\ new.id = old.id /\ new.clips = old.clips
                 /\ new.id \notin Lengthened(edits) =>
                      new.duration = old.duration
         /\ DistinctScenes(result) /\ ScenesInOrder(result) /\ Gapless(result)
<1> DEFINE s == document.scenes
           t == Seqs!FoldLeft(Edited, s, edits)
           D == Lengthened(edits)
           u == result.scenes
<1>1. \A k \in DOMAIN edits :
        /\ \E i \in DOMAIN s : s[i].id = edits[k].scene
        /\ edits[k].type = "sceneDuration" => edits[k].scene \in D
  BY DEF SceneIds, Lengthened
<1>2. Distinct(s)
  BY DEF Distinct, DistinctScenes
<1> HIDE DEF D
<1>3. t \in Seq(SceneRows(ids)) /\ Keeps(s, t, D)
  <2>1. s \in Seq(SceneRows(ids))
    OBVIOUS
  <2> HIDE DEF s
  <2> QED
    BY <1>1, <1>2, <2>1, FoldKeeps
<1>4. result = Retimed(t)
  BY DEF ApplyEdits
<1> HIDE DEF t
<1>5. /\ u \in Seq(SceneRows(ids)) /\ Len(u) = Len(t)
      /\ \A j \in DOMAIN t :
           /\ u[j].id = t[j].id /\ u[j].clips = t[j].clips
           /\ u[j].duration = t[j].duration
      /\ Gapless(result) /\ ScenesInOrder(result)
  BY <1>3, <1>4, RetimedIs
<1>6. DOMAIN u = DOMAIN t
  BY <1>3, <1>5
<1>7. Keeps(s, u, D)
  <2> HIDE DEF s, u
  <2>1. Len(u) = Len(s) /\ Distinct(u)
    BY <1>3, <1>5, <1>6 DEF Keeps, Distinct
  <2>2. \A i \in DOMAIN s : \E j \in DOMAIN u : u[j].id = s[i].id
    BY <1>3, <1>5, <1>6 DEF Keeps
  <2>3. ASSUME NEW j \in DOMAIN u
        PROVE  \E i \in DOMAIN s :
                 /\ u[j].id = s[i].id /\ u[j].clips = s[i].clips
                 /\ u[j].id \notin D => u[j].duration = s[i].duration
    <3>1. PICK i \in DOMAIN s :
            /\ t[j].id = s[i].id /\ t[j].clips = s[i].clips
            /\ t[j].id \notin D => t[j].duration = s[i].duration
      BY <1>3, <1>6 DEF Keeps
    <3>2. /\ u[j].id = t[j].id /\ u[j].clips = t[j].clips
          /\ u[j].duration = t[j].duration
      BY <1>5, <1>6
    <3> QED
      BY <3>1, <3>2
  <2> QED
    BY <2>1, <2>2, <2>3 DEF Keeps
<1>8. SceneIds(result) = SceneIds(document)
  <2>1. \A i \in DOMAIN s : s[i].id \in SceneIds(result)
    BY <1>7 DEF Keeps, SceneIds
  <2>2. \A j \in DOMAIN u : u[j].id \in SceneIds(document)
    BY <1>7 DEF Keeps, SceneIds
  <2> QED
    BY <2>1, <2>2 DEF SceneIds
<1>9. DistinctScenes(result)
  BY <1>7 DEF Keeps, Distinct, DistinctScenes
<1> QED
  BY <1>5, <1>7, <1>8, <1>9 DEF Keeps, D

(* So the only thing for which the schema can turn down the result of edits *)
(* is a clip left outside its scene: applyCompositionEdits moves the scenes *)
(* and leaves their clips where they were.                                  *)
THEOREM OnlyClipsTurnEditsDown ==
  ASSUME NEW ids, NEW document, NEW edits \in Seq(EditRows(ids)),
         document.scenes \in Seq(SceneRows(ids)), document.scenes # <<>>,
         DistinctScenes(document),
         \A k \in DOMAIN edits : edits[k].scene \in SceneIds(document)
  PROVE  Accepts(document, edits) <=>
           ClipsInsideScenes(ApplyEdits(document, edits))
<1> DEFINE result == ApplyEdits(document, edits)
<1>1. /\ Len(result.scenes) = Len(document.scenes)
      /\ DistinctScenes(result) /\ ScenesInOrder(result)
  BY EditsKeepTheScenes
<1> HIDE DEF result
<1>2. result.scenes # <<>>
  BY <1>1
<1> QED
  BY <1>1, <1>2 DEF Accepts, Valid, result

(* Edits of texts alone are never turned down on a valid document without   *)
(* gaps, which every edit leaves, and they leave its timeline as it was.    *)
THEOREM TextEditsMoveNothing ==
  ASSUME NEW ids, NEW document, NEW edits \in Seq(EditRows(ids)),
         document.scenes \in Seq(SceneRows(ids)), Valid(document),
         Gapless(document),
         \A k \in DOMAIN edits : /\ edits[k].scene \in SceneIds(document)
                                 /\ edits[k].type = "sceneText"
  PROVE  /\ Accepts(document, edits)
         /\ ApplyEdits(document, edits).scenes = document.scenes
         /\ ApplyEdits(document, edits).duration = document.duration
<1> DEFINE result == ApplyEdits(document, edits)
<1>1. result = Retimed(document.scenes)
  BY FoldOfTexts DEF ApplyEdits
<1>2. document.scenes # <<>>
  BY DEF Valid
<1>3. result.scenes = document.scenes /\ result.duration = document.duration
  BY <1>1, <1>2, RetimedAgain
<1> HIDE DEF result
<1>4. ClipsInsideScenes(result)
  BY <1>3 DEF Valid, ClipsInsideScenes
<1>5. DistinctScenes(document)
  BY DEF Valid
<1>6. Accepts(document, edits)
  BY <1>2, <1>4, <1>5, OnlyClipsTurnEditsDown DEF result
<1> QED
  BY <1>3, <1>6 DEF result
=============================================================================
