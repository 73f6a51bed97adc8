------------------------ MODULE CompositionDocument ------------------------
(***************************************************************************)
(* The timeline of a composition document and the structured edits of it.  *)
(* A document is cut down to its scenes in array order and its duration, a *)
(* scene to its id, start, duration and the times of its clips, which are  *)
(* counted from the start of the document; orders are positions.  Texts,   *)
(* styles, tracks, transitions and manifests are left out: no edit of them *)
(* moves anything.                                                         *)
(***************************************************************************)
EXTENDS Integers, Sequences
Seqs == INSTANCE SequencesExt

Clip(start, duration) == [start |-> start, duration |-> duration]
Scene(id, start, duration, clips) ==
  [id |-> id, start |-> start, duration |-> duration, clips |-> clips]
NoDocument == [scenes |-> <<>>, duration |-> 0]

EndOf(span) == span.start + span.duration

-----------------------------------------------------------------------------
(* compositionDocumentV1Schema *)

ScenesInOrder(document) ==
  \A i \in DOMAIN document.scenes :
    LET scene == document.scenes[i]
    IN /\ i > 1 => scene.start >= EndOf(document.scenes[i - 1])
       /\ EndOf(scene) <= document.duration

DistinctScenes(document) ==
  \A i, j \in DOMAIN document.scenes :
    document.scenes[i].id = document.scenes[j].id => i = j

ClipsInsideScenes(document) ==
  \A i \in DOMAIN document.scenes :
    \A clip \in document.scenes[i].clips :
      /\ clip.start >= document.scenes[i].start
      /\ EndOf(clip) <= EndOf(document.scenes[i])

Valid(document) ==
  /\ document.scenes # <<>>
  /\ ScenesInOrder(document)
  /\ DistinctScenes(document)
  /\ ClipsInsideScenes(document)

-----------------------------------------------------------------------------
(* applyCompositionEdits *)

SceneText(id) == [type |-> "sceneText", scene |-> id, to |-> 0]
SceneDuration(id, duration) ==
  [type |-> "sceneDuration", scene |-> id, to |-> duration]
SceneOrder(id, order) == [type |-> "sceneOrder", scene |-> id, to |-> order]

SceneIds(document) == {document.scenes[i].id : i \in DOMAIN document.scenes}

PositionOf(scenes, id) == CHOOSE i \in DOMAIN scenes : scenes[i].id = id

(* The two splices; an order beyond the end means the end. *)
Moved(scenes, i, order) ==
  LET rest == Seqs!RemoveAt(scenes, i)
      at == IF order < Len(rest) THEN order ELSE Len(rest)
  IN Seqs!InsertAt(rest, at + 1, scenes[i])

Edited(scenes, edit) ==
  LET i == PositionOf(scenes, edit.scene)
  IN CASE edit.type = "sceneText" -> scenes
       [] edit.type = "sceneDuration" ->
            [scenes EXCEPT ![i].duration = edit.to]
       [] edit.type = "sceneOrder" -> Moved(scenes, i, edit.to)

(* Every scene follows the one before it, whatever was edited; the clips    *)
(* stay where they are.                                                     *)
Retimed(scenes) ==
  LET start[i \in 1..Len(scenes) + 1] ==
        IF i = 1 THEN 0 ELSE start[i - 1] + scenes[i - 1].duration
  IN [scenes |-> [i \in DOMAIN scenes |->
                    [scenes[i] EXCEPT !.start = start[i]]],
      duration |-> start[Len(scenes) + 1]]

ApplyEdits(document, edits) ==
  Retimed(Seqs!FoldLeft(Edited, document.scenes, edits))

(* The edits name scenes of the document, and its schema accepts the result. *)
Accepts(document, edits) ==
  /\ \A k \in DOMAIN edits : edits[k].scene \in SceneIds(document)
  /\ Valid(ApplyEdits(document, edits))
=============================================================================
