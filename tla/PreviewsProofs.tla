--------------------------- MODULE PreviewsProofs ---------------------------
(***************************************************************************)
(* Proofs about Previews, for any number of requests, keys, passes and     *)
(* crashes: its types, that a ready preview has its bytes, that no file is *)
(* left behind unnoticed, and that records are held and answers final.     *)
(***************************************************************************)
EXTENDS Previews, TLAPS

-----------------------------------------------------------------------------
(* Types.  A request that rehydrates links the object of the row, and must  *)
(* know that there is one.                                                  *)

RowFound == \A r \in Requests : pc[r] \in Rehydration => preview.status # "none"
Typed == TypeOK /\ RowFound

LEMMA InitTyped == Init => Typed
BY PreviewAssumption
   DEF Init, Typed, RowFound, Rehydration, TypeOK, Preview, RecordStatuses,
       Points

(* A rehydration changes the status of a purged row and nothing else. *)
LEMMA RestoredRow ==
  ASSUME TypeOK
  PROVE  /\ Restored \in Preview
         /\ Restored.object = preview.object
         /\ Restored.due = preview.due
         /\ Restored.status = IF preview.status = "purged" THEN "ready"
                              ELSE preview.status
BY DEF TypeOK, Restored, Preview

LEMMA Rehydrating ==
  ASSUME TypeOK, NEW r \in Requests, MarkRehydrated(r)
  PROVE  /\ preview' \in Preview
         /\ preview'.status = "none" <=> preview'.object = NoObject
         /\ preview.status # "none" => preview'.status # "none"
         /\ \E point \in {"completing", "failing"} : Goto(r, point)
BY RestoredRow DEF MarkRehydrated, TypeOK

LEMMA RequestTyped ==
  ASSUME Typed, NEW r \in Requests, Proceed(r)
  PROVE  Typed'
<1> USE PreviewAssumption
    DEF Typed, RowFound, TypeOK, files, marks, Goto, At, Points, Working,
        FreshWork, Rehydration, Over
<1>1. CASE FindIdentity(r) BY <1>1 DEF FindIdentity
<1>2. CASE StageBytes(r) BY <1>2 DEF StageBytes
<1>3. CASE Link(r) BY <1>3 DEF Link
<1>4. CASE Persist(r)
  <2>1. /\ preview' \in Preview
        /\ preview'.status # "none"
        /\ preview'.object # NoObject
    <3>1. CASE preview' = [status |-> "ready", object |-> r, due |-> FALSE]
      BY <3>1 DEF Preview
    <3>2. CASE preview.status # "none" /\ UNCHANGED preview
      BY <3>2
    <3> QED BY <1>4, <3>1, <3>2 DEF Persist
  <2>2. \E point \in {"completing", "discarding"} : Goto(r, point)
    BY <1>4 DEF Persist
  <2> QED BY <1>4, <2>1, <2>2 DEF Persist
<1>5. CASE Discard(r) BY <1>5 DEF Discard
<1>6. CASE Relink(r) BY <1>6 DEF Relink, Preview
<1>7. CASE Adopt(r) BY <1>7 DEF Adopt
<1>8. CASE Rehydrate(r)
  <2>1. /\ preview' \in Preview
        /\ preview'.status = "none" <=> preview'.object = NoObject
        /\ preview.status # "none" => preview'.status # "none"
        /\ \E point \in {"completing", "failing", "adopting"} : Goto(r, point)
    BY <1>8, Rehydrating DEF Rehydrate
  <2>2. /\ staged' \subseteq Requests
        /\ pc[r] # "new" /\ preview.status # "none"
    BY <1>8 DEF Rehydrate
  <2> QED BY <1>8, <2>1, <2>2 DEF Rehydrate
<1>9. CASE RehydrateAdopted(r)
  <2>1. /\ preview' \in Preview
        /\ preview'.status = "none" <=> preview'.object = NoObject
        /\ preview.status # "none" => preview'.status # "none"
        /\ \E point \in {"completing", "failing"} : Goto(r, point)
    BY <1>9, Rehydrating DEF RehydrateAdopted
  <2>2. pc[r] # "new" /\ preview.status # "none"
    BY <1>9 DEF RehydrateAdopted
  <2> QED BY <1>9, <2>1, <2>2 DEF RehydrateAdopted
<1>10. CASE Complete(r) BY <1>10 DEF Complete, RecordStatuses
<1>11. CASE Fail(r) BY <1>11 DEF Fail
<1>12. CASE CleanUp(r)
  <2>1. /\ staged' \subseteq Requests /\ durable' \subseteq Requests
        /\ littered' \subseteq Requests
    BY <1>12 DEF CleanUp
  <2>2. /\ record' \in [Keys -> RecordStatuses]
        /\ \E point \in {"refused", "masked"} : Goto(r, point)
    BY <1>12 DEF CleanUp, MarkRetryableFailure, RecordStatuses
  <2> QED BY <1>12, <2>1, <2>2 DEF CleanUp
<1> QED
  BY <1>1, <1>2, <1>3, <1>4, <1>5, <1>6, <1>7, <1>8, <1>9, <1>10, <1>11,
     <1>12 DEF Proceed

LEMMA StepTyped == Typed /\ [Next]_vars => Typed'
<1> SUFFICES ASSUME Typed, [Next]_vars PROVE Typed'
  OBVIOUS
<1> USE DEF Typed, RowFound, TypeOK, files, marks, calls
<1>1. ASSUME NEW r \in Requests, Begin(r) PROVE Typed'
  BY <1>1, PreviewAssumption
     DEF Begin, Goto, At, RecordStatuses, Points, Working, Rehydration
<1>2. ASSUME NEW p \in Passes, Maintain(p) PROVE Typed'
  BY <1>2 DEF Maintain, ClaimPurge, Claimable, DeleteBytes, RecordPurged,
     AbandonPass, Preview
<1>3. CASE Expire BY <1>3 DEF Expire, Preview
<1>4. CASE Crash
  BY <1>4, PreviewAssumption
     DEF Crash, Points, Over, Working, FreshWork, Rehydration
<1>5. CASE UNCHANGED vars BY <1>5 DEF vars
<1> QED BY <1>1, <1>2, <1>3, <1>4, <1>5, RequestTyped DEF Next

(* Rows, records, calls and passes keep their types: the repositories and   *)
(* the maintenance service, under any interleaving.                         *)
THEOREM TypeCorrect == Spec => []TypeOK
<1>1. Typed => TypeOK BY DEF Typed
<1> QED BY InitTyped, StepTyped, <1>1, PTL DEF Spec
-----------------------------------------------------------------------------
(* Purge and rehydration.  While a pass is at work the row is scheduled;    *)
(* while a request rehydrates the row is not due, so that no pass begins;   *)
(* and nobody deletes an object that the row names or will name.            *)

PurgeInv ==
  /\ \A p \in Passes : pass[p] # "idle" => preview.status = "purge_scheduled"
  /\ \A p, q \in Passes : pass[p] # "idle" /\ pass[q] # "idle" => p = q
  /\ \A r \in Requests : pc[r] \in Rehydration =>
       preview.status \in {"purged", "ready"} /\ ~preview.due
  /\ \A r \in Requests : pc[r] = "rehydrating" => preview.object \in durable
  /\ \A r \in Requests : pc[r] = "persisting" => r \in durable
  /\ \A r \in Requests : preview.object = r =>
       pc[r] \in {"completing", "failing"} \cup Over
  /\ preview.status = "purged" => ~preview.due
  /\ ReadyIsStored

LEMMA InitPurge == Init => PurgeInv
BY PreviewAssumption
   DEF Init, PurgeInv, ReadyIsStored, Rehydration, Over

LEMMA RequestPurge ==
  ASSUME TypeOK, PurgeInv, NEW r \in Requests, Proceed(r)
  PROVE  PurgeInv'
<1> USE DEF TypeOK, PurgeInv, ReadyIsStored, files, marks, Goto, At, Points,
        Working, FreshWork, Rehydration, Over
<1>1. CASE FindIdentity(r) BY <1>1 DEF FindIdentity
<1>2. CASE StageBytes(r) BY <1>2 DEF StageBytes
<1>3. CASE Link(r) BY <1>3 DEF Link
<1>4. CASE Persist(r) BY <1>4 DEF Persist
<1>5. CASE Discard(r) BY <1>5 DEF Discard
<1>6. CASE Relink(r) BY <1>6 DEF Relink
<1>7. CASE Adopt(r) BY <1>7 DEF Adopt
<1>8. CASE Rehydrate(r)
  BY <1>8, RestoredRow DEF Rehydrate, MarkRehydrated
<1>9. CASE RehydrateAdopted(r)
  BY <1>9, RestoredRow DEF RehydrateAdopted, MarkRehydrated
<1>10. CASE Complete(r) BY <1>10 DEF Complete
<1>11. CASE Fail(r) BY <1>11 DEF Fail
<1>12. CASE CleanUp(r)
  BY <1>12 DEF CleanUp, MarkRetryableFailure, Disposable
<1> QED
  BY <1>1, <1>2, <1>3, <1>4, <1>5, <1>6, <1>7, <1>8, <1>9, <1>10, <1>11,
     <1>12 DEF Proceed

LEMMA StepPurge == TypeOK /\ PurgeInv /\ [Next]_vars => PurgeInv'
<1> SUFFICES ASSUME TypeOK, PurgeInv, [Next]_vars PROVE PurgeInv'
  OBVIOUS
<1> USE DEF TypeOK, PurgeInv, ReadyIsStored, files, marks, calls
<1>1. ASSUME NEW r \in Requests, Begin(r) PROVE PurgeInv'
  BY <1>1 DEF Begin, Goto, At, Rehydration, Over
<1>2. ASSUME NEW p \in Passes, Maintain(p) PROVE PurgeInv'
  <2> USE DEF Preview
  <2>1. CASE ClaimPurge(p)
    BY <2>1 DEF ClaimPurge, Claimable, NoneInFlight
  <2>2. CASE DeleteBytes(p) BY <2>2 DEF DeleteBytes, Rehydration, Over
  <2>3. CASE RecordPurged(p) BY <2>3 DEF RecordPurged
  <2>4. CASE AbandonPass(p) BY <2>4 DEF AbandonPass
  <2> QED BY <1>2, <2>1, <2>2, <2>3, <2>4 DEF Maintain
<1>3. CASE Expire BY <1>3 DEF Expire, Preview, Working
<1>4. CASE Crash BY <1>4 DEF Crash, Rehydration, Over, Working
<1>5. CASE UNCHANGED vars BY <1>5 DEF vars
<1> QED BY <1>1, <1>2, <1>3, <1>4, <1>5, RequestPurge DEF Next

(* No purge in flight, failed clean-up, lost race for the identity or crash *)
(* takes the bytes of a preview that is ready: the single flight of the     *)
(* maintenance runtime and the guards of the row's transitions.             *)
THEOREM ReadyPreviewIsStored == Spec => []ReadyIsStored
<1>1. Typed => TypeOK BY DEF Typed
<1>2. PurgeInv => ReadyIsStored BY DEF PurgeInv
<1> QED
  BY InitTyped, StepTyped, InitPurge, StepPurge, <1>1, <1>2, PTL DEF Spec

-----------------------------------------------------------------------------
(* Files.  Each point of a request bounds the files it has. *)

Staging == {"linking", "persisting", "relinking", "rehydrating", "adopting",
            "failing", "dead"}
Storing == {"persisting", "discarding", "failing", "dead"}

FileInv ==
  /\ \A r \in staged : pc[r] \in Staging \/ r \in littered
  /\ \A r \in durable \ {preview.object} : pc[r] \in Storing \/ r \in littered

LEMMA InitFiles == Init => FileInv
BY DEF Init, FileInv

LEMMA RequestFiles ==
  ASSUME TypeOK, FileInv, NEW r \in Requests, Proceed(r)
  PROVE  FileInv'
<1> USE DEF TypeOK, FileInv, files, marks, Goto, At, Staging, Storing, Working,
        FreshWork, Rehydration
<1>1. CASE FindIdentity(r) BY <1>1 DEF FindIdentity
<1>2. CASE StageBytes(r) BY <1>2 DEF StageBytes
<1>3. CASE Link(r) BY <1>3 DEF Link
<1>4. CASE Persist(r) BY <1>4, PreviewAssumption DEF Persist
<1>5. CASE Discard(r) BY <1>5 DEF Discard
<1>6. CASE Relink(r) BY <1>6 DEF Relink
<1>7. CASE Adopt(r) BY <1>7 DEF Adopt
<1>8. CASE Rehydrate(r)
  BY <1>8, RestoredRow DEF Rehydrate, MarkRehydrated
<1>9. CASE RehydrateAdopted(r)
  BY <1>9, RestoredRow DEF RehydrateAdopted, MarkRehydrated
<1>10. CASE Complete(r) BY <1>10 DEF Complete
<1>11. CASE Fail(r) BY <1>11 DEF Fail
<1>12. CASE CleanUp(r)
  BY <1>12 DEF CleanUp, MarkRetryableFailure, Disposable
<1> QED
  BY <1>1, <1>2, <1>3, <1>4, <1>5, <1>6, <1>7, <1>8, <1>9, <1>10, <1>11,
     <1>12 DEF Proceed

LEMMA StepFiles == TypeOK /\ PurgeInv /\ FileInv /\ [Next]_vars => FileInv'
<1> SUFFICES ASSUME TypeOK, PurgeInv, FileInv, [Next]_vars PROVE FileInv'
  OBVIOUS
<1> USE DEF TypeOK, FileInv, files, marks, calls
<1>1. ASSUME NEW r \in Requests, Begin(r) PROVE FileInv'
  BY <1>1 DEF Begin, Goto, At, Staging, Storing
<1>2. ASSUME NEW p \in Passes, Maintain(p) PROVE FileInv'
  BY <1>2 DEF Maintain, ClaimPurge, DeleteBytes, RecordPurged, AbandonPass,
     Preview
<1>3. CASE Expire BY <1>3 DEF Expire, Preview
<1>4. CASE Crash
  BY <1>4 DEF Crash, Staging, Storing, Working, FreshWork, Rehydration
<1>5. CASE UNCHANGED vars BY <1>5 DEF vars
<1> QED BY <1>1, <1>2, <1>3, <1>4, <1>5, RequestFiles DEF Next

(* Whatever requests lose, fail or overlap, a file that is not the          *)
(* preview's belongs to a request at work, or to one that died or could not *)
(* delete it: the clean-ups of requestPreview and rehydratePreview.         *)
THEOREM NoFileIsLeaked == Spec => []NothingLeaks
<1>1. TypeOK /\ FileInv => NothingLeaks
  BY DEF TypeOK, FileInv, NothingLeaks, Staging, Storing, Working, FreshWork,
     Rehydration
<1>2. Typed => TypeOK BY DEF Typed
<1> QED
  BY InitTyped, StepTyped, InitPurge, StepPurge, InitFiles,
     StepFiles, <1>1, <1>2, PTL DEF Spec

-----------------------------------------------------------------------------
(* Idempotency records *)

(* A stored answer survives every request of its key: the guards of         *)
(* complete and markRetryableFailure.                                       *)
THEOREM AnswersAreFinal == Spec => CompletedIsFinal
<1>1. ASSUME TypeOK, [Next]_vars, NEW k \in Keys, record[k] = "completed"
      PROVE  record'[k] = "completed"
  <2> USE <1>1 DEF TypeOK, files, marks, calls
  <2>1. ASSUME NEW r \in Requests, Begin(r) PROVE record'[k] = "completed"
    BY <2>1 DEF Begin
  <2>2. ASSUME NEW r \in Requests, Proceed(r) PROVE record'[k] = "completed"
    BY <2>2 DEF Proceed, FindIdentity, StageBytes, Link, Persist, Discard,
       Relink, Adopt, Rehydrate, RehydrateAdopted, Complete, Fail, CleanUp,
       MarkRetryableFailure
  <2>3. CASE \/ \E p \in Passes : Maintain(p)
             \/ Expire \/ Crash \/ UNCHANGED vars
    BY <2>3 DEF Maintain, ClaimPurge, DeleteBytes, RecordPurged, AbandonPass,
       Expire, Crash, vars
  <2> QED BY <2>1, <2>2, <2>3 DEF Next
<1>2. TypeOK /\ [Next]_vars =>
        [\A k \in Keys :
           record[k] = "completed" => record'[k] = "completed"]_vars
  BY <1>1
<1> QED BY TypeCorrect, <1>2, PTL DEF Spec, CompletedIsFinal

(* A key in progress keeps its holder: whoever leaves work settles it.      *)
LEMMA RequestHolds ==
  ASSUME TypeOK, InProgressIsHeld, NEW r \in Requests, Proceed(r)
  PROVE  InProgressIsHeld'
<1> USE DEF TypeOK, InProgressIsHeld, files, marks, Goto, At, Working,
        FreshWork, Rehydration
<1>1. CASE Complete(r) BY <1>1 DEF Complete
<1>2. CASE CleanUp(r) BY <1>2 DEF CleanUp, MarkRetryableFailure
<1>3. ASSUME UNCHANGED <<record, key>>,
             \E point \in Working : Goto(r, point)
      PROVE  InProgressIsHeld'
  BY <1>3
<1>4. CASE FindIdentity(r) BY <1>3, <1>4 DEF FindIdentity
<1>5. CASE \/ StageBytes(r) \/ Link(r) \/ Persist(r) \/ Discard(r)
           \/ Relink(r) \/ Adopt(r) \/ Fail(r)
  BY <1>3, <1>5 DEF StageBytes, Link, Persist, Discard, Relink, Adopt, Fail
<1>6. CASE Rehydrate(r) \/ RehydrateAdopted(r)
  BY <1>3, <1>6, Rehydrating DEF Rehydrate, RehydrateAdopted
<1> QED BY <1>1, <1>2, <1>4, <1>5, <1>6 DEF Proceed

LEMMA StepHolds ==
  TypeOK /\ InProgressIsHeld /\ [Next]_vars => InProgressIsHeld'
<1> SUFFICES ASSUME TypeOK, InProgressIsHeld, [Next]_vars
             PROVE  InProgressIsHeld'
  OBVIOUS
<1> USE DEF TypeOK, InProgressIsHeld, files, marks, calls
<1>1. ASSUME NEW r \in Requests, Begin(r) PROVE InProgressIsHeld'
  <2>1. PICK k \in Keys :
          /\ \A j \in Keys \ {k} : record'[j] = record[j]
          /\ key' = [key EXCEPT ![r] = k]
    BY <1>1 DEF Begin
  <2>2. /\ pc[r] = "new"
        /\ pc' = [pc EXCEPT ![r] = "materializing"]
    BY <1>1 DEF Begin, Goto, At
  <2>3. ASSUME NEW j \in Keys \ {k}, record'[j] = "in_progress"
        PROVE  \E q \in Requests :
                 key'[q] = j /\ pc'[q] \in Working \cup {"dead"}
    <3>1. PICK q \in Requests : key[q] = j /\ pc[q] \in Working \cup {"dead"}
      BY <2>1, <2>3
    <3>2. q # r
      BY <2>2, <3>1 DEF Working, FreshWork, Rehydration
    <3> QED BY <2>1, <2>2, <3>1, <3>2
  <2>4. key'[r] = k /\ pc'[r] \in Working
    BY <2>1, <2>2 DEF Working
  <2> QED BY <2>3, <2>4
<1>2. CASE Crash BY <1>2 DEF Crash
<1>3. CASE (\E p \in Passes : Maintain(p)) \/ Expire \/ UNCHANGED vars
  BY <1>3 DEF Maintain, ClaimPurge, DeleteBytes, RecordPurged, AbandonPass,
     Expire, vars
<1> QED BY <1>1, <1>2, <1>3, RequestHolds DEF Next

(* No key stays in progress but for a crash: every path out of              *)
(* requestPreview settles the record it began.                              *)
THEOREM KeysAreHeld == Spec => []InProgressIsHeld
<1>1. Init => InProgressIsHeld BY DEF Init, InProgressIsHeld
<1> QED BY TypeCorrect, StepHolds, <1>1, PTL DEF Spec
=============================================================================
