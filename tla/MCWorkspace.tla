----------------------------- MODULE MCWorkspace -----------------------------
(***************************************************************************)
(* Instances of Workspace for TLC: one tab and two other clients.  A       *)
(* behaviour is cut down in one of four ways, chosen once: "history" has   *)
(* the two clients without the tab, the others the tab with at most one of *)
(* them and a shorter history; "card" has no compositions and no loads of  *)
(* the panel, "panel" no mutations of the card, "both" has them without    *)
(* the other client and without the button of the lists.                   *)
(***************************************************************************)
EXTENDS Workspace

CONSTANTS
  Focuses,       \* the ways of cutting down that a run explores
  ShortHistory,  \* versions of the Project that the tab's requests see
  FewVersions    \* composition versions beside the tab

VARIABLE focus

TwoScenes ==
  [scenes |-> <<Scene("s1", 0, 2, {Clip(0, 2)}), Scene("s2", 2, 1, {})>>,
   duration |-> 3]

OneDocument == {TwoScenes}
(* The second of them is refused: the clip of the scene it is put before     *)
(* stays where it is.                                                       *)
LongerOrMoved == {<<SceneDuration("s2", 2)>>, <<SceneOrder("s2", 0)>>}

MCInit == Init /\ focus \in Focuses

Asks(s) == outcome[s] = "idle" /\ outcome'[s] = "sent"

InFocus ==
  IF focus = "history"
  THEN UNCHANGED tabVars
  ELSE /\ (\E s \in Slots : Asks(s)) => pVersion < ShortHistory
       /\ Cardinality(Made') <= FewVersions
       /\ outcome'["second"] = "idle"
       /\ CASE focus = "card" -> /\ panel'.phase = "idle"
                                /\ panel'.load \in {"none", "asked"}
                                /\ command'["other"].op \notin
                                     {"compose", "derive"}
            [] focus = "panel" -> cardPhase' = "idle"
            [] focus = "both" -> /\ outcome'["other"] = "idle"
                                 /\ ~listing'["button"].reading

MCNext == Next /\ InFocus /\ UNCHANGED focus
MCSpec == MCInit /\ [][MCNext]_<<workspaceVars, focus>>
=============================================================================
