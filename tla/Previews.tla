------------------------------ MODULE Previews ------------------------------
(***************************************************************************)
(* One preview identity: its preview_artifacts row, the files behind it,   *)
(* the requests that materialize or rehydrate it under an idempotency key, *)
(* and the maintenance passes that purge it when its retention is over.    *)
(* The bytes are a function of the identity (their checksum is part of the *)
(* fingerprint), so that a file is only present or absent.                 *)
(***************************************************************************)
EXTENDS Naturals

CONSTANTS
  Requests,     \* preview requests, each made once; also the ids they draw
  Keys,         \* idempotency keys of the clients
  Passes,       \* maintenance passes that could be in progress
  NoKey, NoObject,
  CrashBound    \* bound: crashes of the process

ASSUME PreviewAssumption ==
  NoKey \notin Keys /\ NoObject \notin Requests /\ CrashBound \in Nat

VARIABLES
  preview,    \* the preview_artifacts row of the identity
  record,     \* idempotency_records.status per key
  staged,     \* staging files, by the request that drew their key
  durable,    \* durable objects, by the request that drew their key
  pc,         \* per request: where it is
  key,        \* per request: the idempotency key it was made with
  littered,   \* the requests that could not delete a file of theirs
  pass,       \* per maintenance pass: where it is
  crashes

vars == <<preview, record, staged, durable, pc, key, littered, pass, crashes>>
files == <<staged, durable>>
marks == <<key, littered>>
calls == <<pc, key, littered>>

-----------------------------------------------------------------------------
Preview == [status : {"none", "ready", "purge_scheduled", "purged"},
            object : Requests \cup {NoObject}, due : BOOLEAN]
RecordStatuses == {"none", "in_progress", "completed", "failed_retryable"}

(* What a request awaits. *)
FreshWork == {"staging", "linking", "persisting", "discarding"}
Rehydration == {"restaging", "relinking", "rehydrating", "adopting", "hashing"}
Working == {"materializing", "completing", "failing"}
             \cup FreshWork \cup Rehydration
(* served: answered with the preview.  refused: answered with what was      *)
(* wrong.  masked: answered with the error of a second fault.               *)
Over == {"served", "refused", "masked", "dead"}
Points == {"new"} \cup Working \cup Over

(* Between a transaction and the completion of the record a request awaits  *)
(* nothing, and so the process does nothing else.                           *)
LoopFree == \A r \in Requests : pc[r] # "completing"

At(r, point) == pc[r] = point
Goto(r, point) == pc' = [pc EXCEPT ![r] = point]

-----------------------------------------------------------------------------
(* The idempotency record *)

(* A new key and one that failed may go on; the rest is answered at once.   *)
(* A failed record is not marked again, so that its requests may overlap.   *)
Begin(r) ==
  /\ LoopFree /\ At(r, "new")
  /\ \E k \in Keys :
       /\ record[k] \in {"none", "failed_retryable"}
       /\ record' = [record EXCEPT ![k] =
            IF @ = "none" THEN "in_progress" ELSE @]
       /\ key' = [key EXCEPT ![r] = k]
  /\ Goto(r, "materializing")
  /\ UNCHANGED <<preview, files, littered, pass, crashes>>

(* completePreviewReplay: a record that another request completed throws.   *)
Complete(r) ==
  /\ At(r, "completing")
  /\ \/ /\ record[key[r]] \in {"in_progress", "failed_retryable"}
        /\ record' = [record EXCEPT ![key[r]] = "completed"]
        /\ Goto(r, "served")
     \/ /\ record[key[r]] = "completed"
        /\ Goto(r, "failing")
        /\ UNCHANGED record
  /\ UNCHANGED <<preview, files, marks, pass, crashes>>

(* markRetryableFailure updates in_progress records only and throws if it   *)
(* updated none; the error the request failed with is then lost.            *)
MarkAnyFailed(r) ==
  /\ record' = [record EXCEPT ![key[r]] = "failed_retryable"]
  /\ Goto(r, "refused")
MarkRetryableFailure(r) ==
  \/ /\ record[key[r]] = "in_progress"
     /\ record' = [record EXCEPT ![key[r]] = "failed_retryable"]
     /\ Goto(r, "refused")
  \/ /\ record[key[r]] # "in_progress"
     /\ Goto(r, "masked")
     /\ UNCHANGED record

-----------------------------------------------------------------------------
(* A request for the preview *)

(* The bytes are materialized, and the row of their identity is looked up.  *)
FindIdentity(r) ==
  /\ LoopFree /\ At(r, "materializing")
  /\ \/ preview.status = "none" /\ Goto(r, "staging")
     \/ preview.status = "ready" /\ Goto(r, "completing")
     \/ preview.status = "purged" /\ Goto(r, "restaging")
     \/ preview.status = "purge_scheduled" /\ Goto(r, "failing")
  /\ UNCHANGED <<preview, record, files, marks, pass, crashes>>

(* stage, appendAtOffset and createStagingHash, on a file of its own. *)
StageBytes(r) ==
  /\ LoopFree
  /\ \/ At(r, "staging") /\ Goto(r, "linking")
     \/ At(r, "restaging") /\ Goto(r, "relinking")
  /\ staged' = staged \cup {r}
  /\ UNCHANGED <<preview, record, durable, marks, pass, crashes>>

Link(r) ==
  /\ LoopFree /\ At(r, "linking")
  /\ durable' = durable \cup {r}
  /\ Goto(r, "persisting")
  /\ UNCHANGED <<preview, record, staged, marks, pass, crashes>>

(* Finalization ends with the unlink; the row is inserted unless the        *)
(* identity has one by now.                                                 *)
Persist(r) ==
  /\ LoopFree /\ At(r, "persisting")
  /\ staged' = staged \ {r}
  /\ \/ /\ preview.status = "none"
        /\ preview' = [status |-> "ready", object |-> r, due |-> FALSE]
        /\ Goto(r, "completing")
     \/ /\ preview.status # "none"
        /\ Goto(r, "discarding")
        /\ UNCHANGED preview
  /\ UNCHANGED <<record, durable, marks, pass, crashes>>

(* The winner's row is the answer, and the own object goes. *)
KeepLoser(r) ==
  /\ LoopFree /\ At(r, "discarding")
  /\ Goto(r, "completing")
  /\ UNCHANGED <<preview, record, files, marks, pass, crashes>>
Discard(r) ==
  /\ LoopFree /\ At(r, "discarding")
  /\ durable' = durable \ {r}
  /\ Goto(r, "completing")
  /\ UNCHANGED <<preview, record, staged, marks, pass, crashes>>

(* Rehydration claims the key of the row; whoever finds it taken, or cannot *)
(* finish the finalization, deletes its own staging file and adopts the     *)
(* object if it has the bytes.                                              *)
Relink(r) ==
  /\ LoopFree /\ At(r, "relinking")
  /\ \/ /\ preview.object \notin durable
        /\ durable' = durable \cup {preview.object}
        /\ Goto(r, "rehydrating")
     \/ Goto(r, "adopting") /\ UNCHANGED durable
  /\ UNCHANGED <<preview, record, staged, marks, pass, crashes>>

Adopt(r) ==
  /\ LoopFree /\ At(r, "adopting")
  /\ staged' = staged \ {r}
  /\ Goto(r, "hashing")
  /\ UNCHANGED <<preview, record, durable, marks, pass, crashes>>

(* markRehydrated changes a purged row only; the row must be ready then. *)
Restored == IF preview.status = "purged"
            THEN [preview EXCEPT !.status = "ready"] ELSE preview
MarkRehydrated(r) ==
  /\ preview' = Restored
  /\ Goto(r, IF Restored.status = "ready" THEN "completing" ELSE "failing")

Rehydrate(r) ==
  /\ LoopFree /\ At(r, "rehydrating")
  /\ \/ staged' = staged \ {r} /\ MarkRehydrated(r)
     \/ Goto(r, "adopting") /\ UNCHANGED <<preview, staged>>
  /\ UNCHANGED <<record, durable, marks, pass, crashes>>

RehydrateAdopted(r) ==
  /\ LoopFree /\ At(r, "hashing")
  /\ \/ preview.object \in durable /\ MarkRehydrated(r)
     \/ /\ preview.object \notin durable
        /\ Goto(r, "failing")
        /\ UNCHANGED preview
  /\ UNCHANGED <<record, files, marks, pass, crashes>>

(* Any of these steps may throw instead, some after a part of their work. *)
Fail(r) ==
  /\ LoopFree \/ At(r, "completing")
  /\ pc[r] \in Working \ {"failing"}
  /\ Goto(r, "failing")
  /\ UNCHANGED <<preview, record, files, marks, pass, crashes>>

(* The handler deletes the staging file, and the object that was not        *)
(* persisted.  The deletion of a file that exists may fail, and then it is  *)
(* not retried.                                                             *)
Disposable(r) == {r} \ {preview.object}
CleanUp(r) ==
  /\ LoopFree /\ At(r, "failing")
  /\ \E lost \in BOOLEAN :
       /\ lost => r \in staged \cup (Disposable(r) \cap durable)
       /\ staged' \in {staged \ {r}} \cup IF lost THEN {staged} ELSE {}
       /\ durable' \in {durable \ Disposable(r)}
                         \cup IF lost THEN {durable} ELSE {}
       /\ littered' = IF lost THEN littered \cup {r} ELSE littered
  /\ MarkRetryableFailure(r)
  /\ UNCHANGED <<preview, key, pass, crashes>>

Proceed(r) ==
  \/ FindIdentity(r) \/ StageBytes(r) \/ Link(r) \/ Persist(r) \/ Discard(r)
  \/ Relink(r) \/ Adopt(r) \/ Rehydrate(r) \/ RehydrateAdopted(r)
  \/ Complete(r) \/ Fail(r) \/ CleanUp(r)

-----------------------------------------------------------------------------
(* Retention *)

(* Seven days pass: long enough for every request in progress to end.  The  *)
(* requests that come before the purge find the row ready and due.          *)
Expire ==
  /\ preview.status = "ready" /\ ~preview.due
  /\ \A r \in Requests : pc[r] \notin Working
  /\ preview' = [preview EXCEPT !.due = TRUE]
  /\ UNCHANGED <<record, files, calls, pass, crashes>>

(* The runtime hands out the pass in flight instead of beginning another. *)
NoFlightControl == TRUE
NoneInFlight == \A p \in Passes : pass[p] = "idle"

ClaimableOnce == preview.status = "ready" /\ preview.due
Claimable == \/ preview.status = "ready" /\ preview.due
             \/ preview.status = "purge_scheduled"

ClaimPurge(p) ==
  /\ LoopFree /\ NoneInFlight
  /\ pass[p] = "idle"
  /\ Claimable
  /\ preview' = [preview EXCEPT !.status = "purge_scheduled"]
  /\ pass' = [pass EXCEPT ![p] = "deleting"]
  /\ UNCHANGED <<record, files, calls, crashes>>

DeleteBytes(p) ==
  /\ LoopFree /\ pass[p] = "deleting"
  /\ durable' = durable \ {preview.object}
  /\ pass' = [pass EXCEPT ![p] = "recording"]
  /\ UNCHANGED <<preview, record, staged, calls, crashes>>

RecordPurged(p) ==
  /\ LoopFree /\ pass[p] = "recording"
  /\ preview' = IF preview.status = "purge_scheduled"
                THEN [preview EXCEPT !.status = "purged", !.due = FALSE]
                ELSE preview
  /\ pass' = [pass EXCEPT ![p] = "idle"]
  /\ UNCHANGED <<record, files, calls, crashes>>

(* The deletion or the transaction fails; a later pass finds the row. *)
AbandonPass(p) ==
  /\ LoopFree /\ pass[p] # "idle"
  /\ pass' = [pass EXCEPT ![p] = "idle"]
  /\ UNCHANGED <<preview, record, files, calls, crashes>>

Maintain(p) == \/ ClaimPurge(p) \/ DeleteBytes(p) \/ RecordPurged(p)
               \/ AbandonPass(p)

Crash ==
  /\ crashes < CrashBound
  /\ crashes' = crashes + 1
  /\ pc' = [r \in Requests |-> IF pc[r] \in Working THEN "dead" ELSE pc[r]]
  /\ pass' = [p \in Passes |-> "idle"]
  /\ UNCHANGED <<preview, record, files, marks>>

-----------------------------------------------------------------------------
Init ==
  /\ preview = [status |-> "none", object |-> NoObject, due |-> FALSE]
  /\ record = [k \in Keys |-> "none"]
  /\ staged = {} /\ durable = {}
  /\ pc = [r \in Requests |-> "new"]
  /\ key = [r \in Requests |-> NoKey]
  /\ littered = {}
  /\ pass = [p \in Passes |-> "idle"]
  /\ crashes = 0

Next == \/ \E r \in Requests : Begin(r) \/ Proceed(r)
        \/ \E p \in Passes : Maintain(p)
        \/ Expire \/ Crash

Spec == Init /\ [][Next]_vars

(* What a request awaits returns or fails, the timer fires, and a deletion  *)
(* does not fail for ever.                                                  *)
Fairness == /\ \A r \in Requests : WF_vars(Proceed(r))
            /\ \A p \in Passes : /\ WF_vars(ClaimPurge(p))
                                 /\ SF_vars(DeleteBytes(p))
                                 /\ SF_vars(RecordPurged(p))

FairSpec == Spec /\ Fairness

-----------------------------------------------------------------------------
(* Properties *)

(* Rows, records and calls have their types; a row keeps its storage key.   *)
TypeOK ==
  /\ preview \in Preview
  /\ preview.status = "none" <=> preview.object = NoObject
  /\ record \in [Keys -> RecordStatuses]
  /\ staged \subseteq Requests
  /\ durable \subseteq Requests
  /\ pc \in [Requests -> Points]
  /\ key \in [Requests -> Keys \cup {NoKey}]
  /\ \A r \in Requests : key[r] = NoKey <=> pc[r] = "new"
  /\ littered \subseteq Requests
  /\ pass \in [Passes -> {"idle", "deleting", "recording"}]
  /\ crashes \in 0 .. CrashBound

(* A ready preview has its bytes: no deletion that a pass decided, no       *)
(* clean-up of a request that failed or lost the identity, and no crash     *)
(* takes them away, whichever requests rehydrate at the same time.          *)
ReadyIsStored == preview.status = "ready" => preview.object \in durable

(* Every file that is not the preview's object belongs to a request that    *)
(* still works, died, or could not delete it.                               *)
NothingLeaks ==
  \A r \in staged \cup (durable \ {preview.object}) :
    pc[r] \in Working \cup {"dead"} \/ r \in littered

(* A stored answer is never taken back, whatever becomes of the requests    *)
(* that were retrying the same key when it was stored.                      *)
CompletedIsFinal ==
  [][\A k \in Keys : record[k] = "completed" => record'[k] = "completed"]_vars

(* A record in progress has a request that will settle it, or that died     *)
(* with the process: then it stays, because no restart looks at records.    *)
InProgressIsHeld ==
  \A k \in Keys : record[k] = "in_progress" =>
    \E r \in Requests : /\ key[r] = k
                        /\ pc[r] \in Working \cup {"dead"}

(* A purge that was scheduled is recorded in the end, over failing          *)
(* deletions and crashes between deletion and record.                       *)
PurgeEnds == preview.status = "purge_scheduled" ~> preview.status = "purged"
=============================================================================
