------------------------------ MODULE Workspace ------------------------------
(***************************************************************************)
(* The project workspace of one browser tab, over the server side of one   *)
(* Project and the commands of other clients.  The tab keeps the lists it  *)
(* last loaded, the card of the Project in them, and the composition panel *)
(* under the card.  Every one of its requests is answered later, so what   *)
(* the tab sends is made from rows that may be old.  Forms and texts are   *)
(* left out; the favorite flag stands for everything a card can change.    *)
(* Bounds: one load of the panel at a time, one list load per origin, and  *)
(* a request that was given up keeps its slot until it is over.            *)
(***************************************************************************)
EXTENDS Projects

CONSTANT Durations  \* scene durations entered in the panel

ASSUME WorkspaceAssumption ==
  {"card", "panel"} \subseteq Slots /\ Durations \subseteq Nat

VARIABLES
  shown,       \* rows of the Project in the two lists on the screen
  listing,     \* the list loads under way: of the button, of a mutation
  cardPhase,   \* the mutation of the card; busy unless "idle"
  notice,      \* versionConflict: the version that was refused, or 0
  editing,     \* the card's form: "no", "open", or "submitted"
  panel        \* the composition panel

cardVars == <<shown, listing, cardPhase, notice, editing>>
tabVars == <<cardVars, panel>>
workspaceVars == <<serverVars, tabVars>>

-----------------------------------------------------------------------------
Others == Slots \ {"card", "panel"}
Lists == {"active", "trash"}
Loads == {"button", "mutation"}

NoRow == [version |-> 0, content |-> Absent]
Listed(row) == row.version # 0

(* GET /projects and GET /trash/projects *)
ListRow(list) ==
  IF pStatus = (IF list = "active" THEN "active" ELSE "soft_deleted")
  THEN [version |-> pVersion, content |-> Content]
  ELSE NoRow

-----------------------------------------------------------------------------
(* The panel is there while the card shows no form.  It takes the version   *)
(* of the row it is mounted with, and loads the newest composition.  What   *)
(* the row said at that version is kept to state properties about it.       *)

NoPanel == [mounted |-> FALSE, version |-> 0, seen |-> Absent, current |-> 0,
            phase |-> "idle", load |-> "none", got |-> 0]
Mounted(row) ==
  [NoPanel EXCEPT !.mounted = TRUE, !.version = row.version,
                  !.seen = row.content, !.load = "asked"]

Render ==
  panel' = IF editing' # "no" \/ ~Listed(shown'.active) THEN NoPanel
           ELSE IF panel.mounted THEN panel
           ELSE Mounted(shown'.active)

-----------------------------------------------------------------------------
(* ProjectWorkspace and its cards *)

Load(reading) ==
  [reading |-> reading, done |-> {}, rows |-> [l \in Lists |-> NoRow]]
NotReading == Load(FALSE)
Reading == Load(TRUE)

(* The end of runMutation; a form that was submitted is closed by it.       *)
CardDone ==
  /\ cardPhase' = "idle"
  /\ editing' = IF editing = "submitted" THEN "no" ELSE editing

Refresh ==
  /\ ~listing["button"].reading
  /\ listing' = [listing EXCEPT !["button"] = Reading]
  /\ UNCHANGED <<serverVars, shown, cardPhase, notice, editing, panel>>

ReadList(load, list) ==
  /\ listing[load].reading /\ list \notin listing[load].done
  /\ LET read == [listing[load].rows EXCEPT ![list] = ListRow(list)]
         done == listing[load].done \cup {list}
     IN listing' = [listing EXCEPT ![load] =
                      [reading |-> TRUE, done |-> done, rows |-> read]]
  /\ UNCHANGED <<serverVars, shown, cardPhase, notice, editing, panel>>

EndLoad(load) ==
  /\ listing' = [listing EXCEPT ![load] = NotReading]
  /\ IF load = "mutation" THEN CardDone ELSE UNCHANGED <<cardPhase, editing>>
  /\ Render
  /\ UNCHANGED <<serverVars, notice>>

ShowLists(load) ==
  /\ listing[load].done = Lists
  /\ shown' = listing[load].rows
  /\ EndLoad(load)

FailLists(load) ==
  /\ listing[load].reading
  /\ shown' = shown
  /\ EndLoad(load)

Edit ==
  /\ cardPhase = "idle" /\ editing = "no" /\ Listed(shown.active)
  /\ editing' = "open"
  /\ UNCHANGED <<serverVars, shown, listing, cardPhase, notice>>
  /\ Render

CancelEdit ==
  /\ editing # "no"
  /\ editing' = "no"
  /\ UNCHANGED <<serverVars, shown, listing, cardPhase, notice>>
  /\ Render

FromRow(op, row) ==
  [Command(op, row.version) EXCEPT
     !.favorite = ~row.content.favorite, !.seen = row.content]

CardCommands ==
  LET card == Listed(shown.active)
  IN (IF card THEN {FromRow("update", shown.active)} ELSE {})
     \cup (IF card /\ editing = "no" THEN {FromRow("delete", shown.active)} ELSE {})
     \cup (IF Listed(shown.trash) THEN {FromRow("restore", shown.trash)} ELSE {})
     \cup (IF pStatus = "absent" THEN {Command("create", 0)} ELSE {})

RunMutation ==
  /\ cardPhase = "idle"
  /\ \E request \in CardCommands :
       /\ Send("card", request)
       /\ editing' = IF request.op = "update" /\ editing = "open"
                     THEN "submitted" ELSE editing
  /\ cardPhase' = "sent"
  /\ notice' = 0
  /\ UNCHANGED <<shown, listing, panel>>

JoinsRefresh ==
  /\ cardPhase = "sent" /\ outcome["card"] \in {"accepted", "conflict"}
  /\ Take("card")
  /\ cardPhase' = "refreshing"
  /\ notice' = IF outcome["card"] = "conflict"
               THEN command["card"].expected ELSE 0
  /\ listing' = [listing EXCEPT !["mutation"] =
                   IF listing["button"].reading THEN listing["button"]
                   ELSE Reading]
  /\ UNCHANGED <<shown, editing, panel>>
MutationAnswered ==
  /\ cardPhase = "sent" /\ outcome["card"] \in {"accepted", "conflict"}
  /\ Take("card")
  /\ cardPhase' = "refreshing"
  /\ notice' = IF outcome["card"] = "conflict"
               THEN command["card"].expected ELSE 0
  /\ listing' = [listing EXCEPT !["mutation"] = Reading]
  /\ UNCHANGED <<shown, editing, panel>>

MutationRefused ==
  /\ cardPhase = "sent" /\ outcome["card"] = "refused"
  /\ Take("card")
  /\ CardDone
  /\ UNCHANGED <<shown, listing, notice>>
  /\ Render

(* The request fails for the tab; the server may have handled it, or may    *)
(* still do so.                                                             *)
MutationLost ==
  /\ cardPhase = "sent"
  /\ CardDone
  /\ UNCHANGED <<serverVars, shown, listing, notice>>
  /\ Render

-----------------------------------------------------------------------------
(* CompositionWorkspace *)

PanelUnchanged == UNCHANGED <<serverVars, cardVars>>
Settled(phase) == IF phase = "refreshing" THEN "idle" ELSE phase

PanelRefresh ==
  /\ panel.mounted /\ panel.load = "none"
  /\ panel' = [panel EXCEPT !.load = "asked"]
  /\ PanelUnchanged

PanelRead ==
  /\ panel.load = "asked" /\ pStatus = "active"
  /\ panel' = [panel EXCEPT !.load = "read", !.got = pCurrent]
  /\ PanelUnchanged

PanelShow ==
  /\ panel.load = "read"
  /\ panel' = [panel EXCEPT !.current = panel.got, !.load = "none", !.got = 0,
                            !.phase = Settled(panel.phase)]
  /\ PanelUnchanged

PanelLoadFails ==
  /\ panel.load # "none"
  /\ panel' = [panel EXCEPT !.load = "none", !.got = 0,
                            !.phase = Settled(panel.phase)]
  /\ PanelUnchanged

FromPanel(op) == [Command(op, panel.version) EXCEPT !.seen = panel.seen]

PanelCreates ==
  {[FromPanel("compose") EXCEPT !.document = d] : d \in Documents}

PanelDerives ==
  LET scene == Head(cDocument[panel.current].scenes).id
  IN {[FromPanel("derive") EXCEPT
         !.base = panel.current,
         !.edits = <<SceneText(scene), SceneDuration(scene, d)>>] :
        d \in Durations}

PanelSends ==
  /\ panel.mounted /\ panel.phase = "idle"
  /\ \E request \in IF panel.current = 0 THEN PanelCreates ELSE PanelDerives :
       Send("panel", request)
  /\ panel' = [panel EXCEPT !.phase = "sent"]
  /\ UNCHANGED cardVars

PanelAccepted ==
  /\ panel.phase = "sent" /\ panel.load = "none"
  /\ outcome["panel"] = "accepted"
  /\ Take("panel")
  /\ LET made == recorded["panel"].made
     IN panel' = [panel EXCEPT !.version = @ + 1, !.current = made,
                               !.seen = [@ EXCEPT !.current = made],
                               !.phase = "refreshing", !.load = "asked"]
  /\ UNCHANGED cardVars

(* Of every refusal the panel shows an error, and loads nothing. *)
PanelRefused ==
  /\ panel.phase = "sent" /\ outcome["panel"] \in {"conflict", "refused"}
  /\ Take("panel")
  /\ panel' = [panel EXCEPT !.phase = "idle"]
  /\ UNCHANGED cardVars

PanelLost ==
  /\ panel.phase = "sent"
  /\ panel' = [panel EXCEPT !.phase = "idle"]
  /\ PanelUnchanged

-----------------------------------------------------------------------------
(* The other side of a request that nobody waits for any more: it is lost   *)
(* on the way there, or its answer is.                                      *)
Abandoned ==
  {s \in {"card", "panel"} :
     IF s = "card" THEN cardPhase # "sent" ELSE panel.phase # "sent"}

Forget(s) ==
  /\ outcome[s] # "idle"
  /\ Close(s)
  /\ UNCHANGED tabVars

Init ==
  /\ ProjectsInit
  /\ shown = [l \in Lists |-> NoRow]
  /\ listing = [l \in Loads |-> NotReading]
  /\ cardPhase = "idle" /\ notice = 0 /\ editing = "no"
  /\ panel = NoPanel

CardNext ==
  \/ Refresh \/ Edit \/ CancelEdit
  \/ RunMutation \/ MutationAnswered \/ MutationRefused \/ MutationLost
  \/ \E load \in Loads :
       \/ \E list \in Lists : ReadList(load, list)
       \/ ShowLists(load)
       \/ FailLists(load)

PanelNext ==
  \/ PanelRefresh \/ PanelRead \/ PanelShow \/ PanelLoadFails
  \/ PanelSends \/ PanelAccepted \/ PanelRefused \/ PanelLost

ServerNext ==
  \/ Tick
  \/ \E s \in Slots : Handle(s)
  \/ \E s \in Others : Client(s)

Next ==
  \/ CardNext
  \/ PanelNext
  \/ ServerNext /\ UNCHANGED tabVars
  \/ \E s \in Abandoned : Forget(s)

Spec == Init /\ [][Next]_workspaceVars

-----------------------------------------------------------------------------
(* Properties *)

(* After a conflict the card is released over rows that no longer hold the  *)
(* version that was refused, if they could be loaded, although the button's *)
(* load may be under way at the same time.  From then on no later load      *)
(* brings that version back; only a load of the button that had read it     *)
(* before, and whose answer is shown last, may do so.                       *)
IsNewer(rows) == \A l \in Lists : rows[l].version # notice

ConflictShowsNewer ==
  [][notice # 0 /\ notice' = notice =>
       /\ cardPhase = "refreshing" /\ cardPhase' = "idle" /\ shown' # shown
            => IsNewer(shown')
       /\ IsNewer(shown) /\ IsNewer(listing["button"].rows)
            => IsNewer(shown') /\ IsNewer(listing'["button"].rows)
    ]_workspaceVars

(* A tab that shows the newest row and the newest composition of a Project  *)
(* sends the panel's next command at the newest version.                    *)
RefreshedPanelIsAccepted ==
  /\ panel.mounted /\ panel.phase = "idle"
  /\ shown.active.version = pVersion /\ panel.current = pCurrent
  => panel.version = pVersion
=============================================================================
