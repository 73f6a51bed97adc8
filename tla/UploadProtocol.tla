--------------------------- MODULE UploadProtocol ---------------------------
(***************************************************************************)
(* Resumable uploads of one Asset: the upload_sessions row, its quota      *)
(* reservation, the Asset's ingestion columns, and the files of the object *)
(* storage, which no transaction covers.  A Task is one call in progress:  *)
(* a request of asset-service.ts or a pass of asset-maintenance-service.ts.*)
(* Between two of its awaits anything may happen to the rows and files;    *)
(* a step below is what runs from one await to the next.                   *)
(*                                                                         *)
(* A file is one inode.  Its staging name and its durable name are links   *)
(* to it, so that a handle opened under the first writes what the second   *)
(* names.  Bytes are counted in chunks, and a chunk is its content.        *)
(***************************************************************************)
EXTENDS Integers, Sequences, SequencesExt

CONSTANTS
  Tasks,          \* calls in progress at once
  Chunks,         \* contents of a chunk
  Hole,           \* the zeros a file system fills a gap with
  Keys,           \* idempotency keys of the completions of an upload
  NoKey,          \* a call that is no completion
  Declared,       \* declared_size, in chunks
  MaxUploads,     \* bound: uploads of the Asset, the first and its retries
  VersionBound,   \* bound: a session version at which completion may begin
  CrashBound      \* bound: crashes

ASSUME UploadAssumption ==
  /\ Hole \notin Chunks
  /\ NoKey \notin Keys
  /\ {Declared, MaxUploads} \subseteq Nat \ {0}
  /\ {VersionBound, CrashBound} \subseteq Nat

VARIABLES
  session,      \* the upload_sessions row: retries give it a new upload id
  reservation,  \* the quota_reservations row of each upload id
  record,       \* idempotency_records of upload.complete, by id and key
  asset,        \* ingestion_status, lifecycle and byte_checksum_sha256
  file,         \* per upload id: the inode and its two names
  task,         \* calls in progress
  server        \* has maintenance run since the start, and crashes so far

vars == <<session, reservation, record, asset, file, task, server>>

-----------------------------------------------------------------------------
Uploads == 1..MaxUploads
Contents == UNION {[1..n -> Chunks \cup {Hole}] : n \in 0..Declared}
Terminal == {"completed", "aborted", "expired", "rejected"}
Pending == {"open", "verifying"}

(* received_size is the length of acked; its last chunk is last_chunk_*.   *)
Session == [id : {0} \cup Uploads,
            status : {"none"} \cup Pending \cup Terminal, acked : Contents,
            due : BOOLEAN, version : Nat]
Reservations == {"none", "reserved", "consumed", "released", "expired"}
Records == {"absent", "in_progress", "failed", "completed"}
Asset == [ingestion : {"none", "uploading", "processing", "ready", "failed"},
          active : BOOLEAN, checksum : Contents]
File == [bytes : Contents, staged : BOOLEAN, durable : BOOLEAN]

AppendPoints == {"statting", "truncating", "opening", "writing", "recording"}
CompletePoints == {"checking", "hashing", "linking", "unlinking", "committing"}
RollbackPoints == {"restoring", "unrolling"}
PassPoints == {"expiring", "surveying", "trimming", "listing", "examining",
               "heading"}
Task == [pc : {"idle", "registering", "deleting"} \cup AppendPoints
              \cup CompletePoints \cup RollbackPoints \cup PassPoints,
         up : {0} \cup Uploads, key : {NoKey} \cup Keys,
         received : 0..Declared, version : Nat,
         content : Contents, pass : BOOLEAN]

Idle == [pc |-> "idle", up |-> 0, key |-> NoKey, received |-> 0,
         version |-> 0, content |-> <<>>, pass |-> FALSE]
At(t, pc) == task[t].pc = pc
Goto(t, pc) == task' = [task EXCEPT ![t].pc = pc]
End(t) == task' = [task EXCEPT ![t] = Idle]

Received == Len(session.acked)
Inode(t) == file[task[t].up]

(* The row a call knows by its upload id; a retry replaces the id.          *)
Names(t) == session.id = task[t].up
Verifying(t) == Names(t) /\ session.status = "verifying"
Moved(status) == [session EXCEPT !.status = status, !.version = @ + 1]
MovedIf(guard, status) == session' = IF guard THEN Moved(status) ELSE session

SettleReservation(u, status) ==
  reservation' =
    [reservation EXCEPT ![u] = IF @ = "reserved" THEN status ELSE @]
FailAsset(from) ==
  asset' = IF asset.ingestion \in from
           THEN [asset EXCEPT !.ingestion = "failed"] ELSE asset

(* ftruncate and pwrite fill what lies beyond the end with zeros.           *)
Resized(bytes, n) ==
  [i \in 1..n |-> IF i <= Len(bytes) THEN bytes[i] ELSE Hole]
Written(bytes, n, chunk) ==
  [Resized(bytes, IF n < Len(bytes) THEN Len(bytes) ELSE n + 1)
     EXCEPT ![n + 1] = chunk]
SetBytes(u, bytes) == file' = [file EXCEPT ![u].bytes = bytes]

Begin(t, pc) ==
  [Idle EXCEPT !.pc = pc, !.up = session.id, !.received = Received,
               !.version = session.version]
Accepting(t) == server.recovered /\ At(t, "idle")

-----------------------------------------------------------------------------
(* Initialization, and retry of a failed ingestion *)

(* Identities are never used twice; which one is drawn does not matter.     *)
Fresh == {u \in Uploads : /\ reservation[u] = "none"
                          /\ ~file[u].staged
                          /\ \A s \in Tasks : task[s].up # u}

(* storage.stage creates the staging file before any row refers to it.  Two *)
(* initializations make two Assets, and this module is about one.           *)
Stage(t) ==
  /\ Accepting(t)
  /\ session.status = "none" => \A s \in Tasks : ~At(s, "registering")
  /\ \E u \in Fresh :
       /\ \A v \in Fresh : u <= v
       /\ file' = [file EXCEPT ![u].staged = TRUE]
       /\ task' = [task EXCEPT ![t] =
                     [Idle EXCEPT !.pc = "registering", !.up = u]]
  /\ UNCHANGED <<session, reservation, record, asset, server>>

MayOpen == \/ session.status = "none"
           \/ /\ session.status \in Terminal
              /\ asset.ingestion = "failed"
              /\ asset.active

(* The transaction opens the session of the new upload id; then the staging *)
(* file of the previous one, or of this one if refused, is deleted.         *)
Register(t) ==
  LET u == task[t].up IN
  /\ At(t, "registering")
  /\ \/ /\ MayOpen
        /\ session' = [id |-> u, status |-> "open", acked |-> <<>>,
                       due |-> FALSE, version |-> session.version + 1]
        /\ reservation' = [reservation EXCEPT ![u] = "reserved"]
        /\ asset' = [asset EXCEPT !.ingestion = "uploading", !.checksum = <<>>]
        /\ task' = [task EXCEPT ![t] = IF session.id = 0 THEN Idle
                      ELSE [@ EXCEPT !.pc = "deleting", !.up = session.id]]
     \/ /\ ~MayOpen
        /\ Goto(t, "deleting")
        /\ UNCHANGED <<session, reservation, asset>>
  /\ UNCHANGED <<record, file, server>>

Delete(t) ==
  /\ At(t, "deleting")
  /\ file' = [file EXCEPT ![task[t].up].staged = FALSE]
  /\ IF task[t].pass THEN Goto(t, "listing") ELSE End(t)
  /\ UNCHANGED <<session, reservation, record, asset, server>>

-----------------------------------------------------------------------------
(* appendChunk.  Replays and refusals of its read transaction change        *)
(* nothing.                                                                 *)

AppendChunk(t) ==
  /\ Accepting(t)
  /\ session.status = "open"
  /\ ~session.due
  /\ Received < Declared
  /\ \E c \in Chunks :
       task' = [task EXCEPT ![t] =
                  [Begin(t, "statting") EXCEPT !.content = <<c>>]]
  /\ UNCHANGED <<session, reservation, record, asset, file, server>>

StatStaging(t) ==
  /\ At(t, "statting")
  /\ IF ~Inode(t).staged \/ Len(Inode(t).bytes) < task[t].received THEN End(t)
     ELSE IF Len(Inode(t).bytes) > task[t].received THEN Goto(t, "truncating")
     ELSE Goto(t, "opening")
  /\ UNCHANGED <<session, reservation, record, asset, file, server>>

TruncateStaging(t) ==
  /\ At(t, "truncating")
  /\ IF Inode(t).staged
     THEN /\ SetBytes(task[t].up, Resized(Inode(t).bytes, task[t].received))
          /\ Goto(t, "opening")
     ELSE End(t) /\ UNCHANGED file
  /\ UNCHANGED <<session, reservation, record, asset, server>>

(* appendAtOffset: open and compare the size, then write through the handle. *)
OpenStaging(t) ==
  /\ At(t, "opening")
  /\ IF Inode(t).staged /\ Len(Inode(t).bytes) = task[t].received
     THEN Goto(t, "writing") ELSE End(t)
  /\ UNCHANGED <<session, reservation, record, asset, file, server>>

WriteStaging(t) ==
  /\ At(t, "writing")
  /\ SetBytes(task[t].up,
              Written(Inode(t).bytes, task[t].received, task[t].content[1]))
  /\ Goto(t, "recording")
  /\ UNCHANGED <<session, reservation, record, asset, server>>

ChunkExpectedUnversioned(t) == Names(t) /\ session.status = "open"
ChunkExpected(t) == /\ Names(t)
                    /\ session.status = "open"
                    /\ session.version = task[t].version
                    /\ Received = task[t].received

UpdateChunk(t) ==
  /\ At(t, "recording")
  /\ session' = IF ChunkExpected(t)
       THEN [session EXCEPT
               !.acked = Resized(@, task[t].received) \o task[t].content,
               !.version = @ + 1]
       ELSE session
  /\ End(t)
  /\ UNCHANGED <<reservation, record, asset, file, server>>

-----------------------------------------------------------------------------
(* completeUpload *)

(* begin starts a record for a new key, lets a key that has failed go on    *)
(* with its record as it is, and refuses all others.                        *)
CompleteUpload(t) ==
  /\ Accepting(t)
  /\ session.status = "open"
  /\ Received = Declared
  /\ session.version < VersionBound
  /\ \E k \in Keys :
       /\ record[session.id][k] \in {"absent", "failed"}
       /\ record' = [record EXCEPT ![session.id][k] =
                       IF @ = "absent" THEN "in_progress" ELSE @]
       /\ task' = [task EXCEPT ![t] = [Begin(t, "checking") EXCEPT !.key = k]]
  /\ session' = Moved("verifying")
  /\ UNCHANGED <<reservation, asset, file, server>>

(* markRetryableFailure throws unless the record is in progress, and the    *)
(* whole transaction is rolled back with it.                                *)
MarkAnyFailed(t) ==
  record' = [record EXCEPT ![task[t].up][task[t].key] = "failed"]
MarkRetryableFailure(t) ==
  /\ record[task[t].up][task[t].key] = "in_progress"
  /\ record' = [record EXCEPT ![task[t].up][task[t].key] = "failed"]
Throws(t) ==
  /\ record[task[t].up][task[t].key] # "in_progress"
  /\ UNCHANGED <<session, reservation, record, asset>>

RejectKeepingReservation(t) ==
  \/ /\ FailAsset({"processing", "uploading"})
     /\ MovedIf(Verifying(t), "rejected")
     /\ MarkRetryableFailure(t)
     /\ UNCHANGED reservation
  \/ Throws(t)

(* rejectUpload: terminal for the upload, whatever became of it meanwhile.  *)
RejectUpload(t) ==
  \/ /\ FailAsset({"processing", "uploading"})
     /\ MovedIf(Verifying(t), "rejected")
     /\ SettleReservation(task[t].up, "released")
     /\ MarkRetryableFailure(t)
  \/ Throws(t)

(* reopenVerifyingUpload: a retryable failure, of a session that is still   *)
(* verifying.                                                               *)
ReopenUpload(t) ==
  \/ /\ Verifying(t)
     /\ session' = Moved("open")
     /\ MarkRetryableFailure(t)
     /\ UNCHANGED <<reservation, asset>>
  \/ ~Verifying(t) /\ UNCHANGED <<session, reservation, record, asset>>
  \/ Throws(t)

CheckStaging(t) ==
  /\ At(t, "checking")
  /\ \/ /\ Inode(t).staged
        /\ Len(Inode(t).bytes) = Declared
        /\ Goto(t, "hashing")
        /\ UNCHANGED <<session, reservation, record, asset>>
     \/ /\ ~(Inode(t).staged /\ Len(Inode(t).bytes) = Declared)
        /\ RejectUpload(t)
        /\ End(t)
  /\ UNCHANGED <<file, server>>

(* Checksum, prefix and MIME evidence: accepted, rejected or unreadable.    *)
Inspect(t) ==
  /\ At(t, "hashing")
  /\ \/ /\ Inode(t).staged
        /\ task' = [task EXCEPT ![t].pc = "linking",
                                ![t].content = Inode(t).bytes]
        /\ UNCHANGED <<session, reservation, record, asset>>
     \/ Inode(t).staged /\ RejectUpload(t) /\ End(t)
     \/ ReopenUpload(t) /\ End(t)
  /\ UNCHANGED <<file, server>>

(* Whatever fails from here on is caught, and the finalization rolled back. *)
Uncaught(t) == End(t)
Catch(t) == Goto(t, "restoring")

LinkDurableSwallowing(t) ==
  /\ At(t, "linking")
  /\ file' \in {file, [file EXCEPT ![task[t].up].durable = TRUE]}
  /\ Goto(t, "unlinking")
  /\ UNCHANGED <<session, reservation, record, asset, server>>

(* finalize: link without clobbering, flush, then unlink the staging name.  *)
LinkDurable(t) ==
  /\ At(t, "linking")
  /\ \/ /\ Inode(t).staged /\ ~Inode(t).durable
        /\ file' = [file EXCEPT ![task[t].up].durable = TRUE]
        /\ \/ Goto(t, "unlinking")
           \/ Catch(t)
     \/ /\ ~(Inode(t).staged /\ ~Inode(t).durable)
        /\ Catch(t)
        /\ UNCHANGED file
  /\ UNCHANGED <<session, reservation, record, asset, server>>

UnlinkStaging(t) ==
  /\ At(t, "unlinking")
  /\ file' = [file EXCEPT ![task[t].up].staged = FALSE]
  /\ IF Inode(t).staged THEN Goto(t, "committing") ELSE Catch(t)
  /\ UNCHANGED <<session, reservation, record, asset, server>>

Committable(t) == /\ Verifying(t)
                  /\ asset.ingestion = "uploading"
                  /\ asset.active
                  /\ reservation[task[t].up] = "reserved"
                  /\ record[task[t].up][task[t].key] # "completed"

(* One transaction completes the session, moves the Asset on, consumes the  *)
(* reservation, admits the Job, which a quota may refuse, and stores the    *)
(* answer.                                                                  *)
CommitUpload(t) ==
  /\ At(t, "committing")
  /\ \/ /\ Committable(t)
        /\ session' = Moved("completed")
        /\ asset' = [asset EXCEPT !.ingestion = "processing",
                                  !.checksum = task[t].content]
        /\ reservation' = [reservation EXCEPT ![task[t].up] = "consumed"]
        /\ record' = [record EXCEPT ![task[t].up][task[t].key] = "completed"]
        /\ End(t)
     \/ /\ Catch(t)
        /\ UNCHANGED <<session, asset, reservation, record>>
  /\ UNCHANGED <<file, server>>

-----------------------------------------------------------------------------
(* rollbackFinalize, for a request and for a pass of maintenance *)

Finish(t) == /\ End(t)
             /\ server' = [server EXCEPT !.recovered = @ \/ task[t].pass]

(* The pass marks all records in progress of the upload, and never throws.  *)
MarkRetryableForUpload(u) ==
  record' = [record EXCEPT ![u] =
    [k \in Keys |-> IF @[k] = "in_progress" THEN "failed" ELSE @[k]]]

ReopenVerifying(t) ==
  /\ \/ /\ Verifying(t)
        /\ session' = Moved("open")
        /\ MarkRetryableForUpload(task[t].up)
     \/ ~Verifying(t) /\ UNCHANGED <<session, record>>
  /\ UNCHANGED <<reservation, asset>>

FailVerifying(t) ==
  /\ MovedIf(Verifying(t), "rejected")
  /\ FailAsset({"uploading"})
  /\ SettleReservation(task[t].up, "released")
  /\ MarkRetryableForUpload(task[t].up)

Restored(t) == IF task[t].pass THEN ReopenVerifying(t) ELSE ReopenUpload(t)
NotRestored(t) == IF task[t].pass THEN FailVerifying(t) ELSE RejectUpload(t)

RestoreStagingUnlinked(t) ==
  /\ At(t, "restoring")
  /\ Inode(t).durable
  /\ Goto(t, "unrolling")
  /\ UNCHANGED <<session, reservation, record, asset, file, server>>

RestoreStaging(t) ==
  /\ At(t, "restoring")
  /\ \/ /\ Inode(t).staged /\ ~Inode(t).durable
        /\ Restored(t)
        /\ Finish(t)
        /\ UNCHANGED file
     \/ /\ Inode(t).staged = Inode(t).durable
        /\ NotRestored(t)
        /\ Finish(t)
        /\ UNCHANGED file
     \/ /\ ~Inode(t).staged /\ Inode(t).durable
        /\ file' = [file EXCEPT ![task[t].up].staged = TRUE]
        /\ Goto(t, "unrolling")
        /\ UNCHANGED <<session, reservation, record, asset, server>>

UnlinkDurable(t) ==
  /\ At(t, "unrolling")
  /\ file' = [file EXCEPT ![task[t].up].durable = FALSE]
  /\ IF Inode(t).durable THEN Restored(t) ELSE NotRestored(t)
  /\ Finish(t)

-----------------------------------------------------------------------------
(* Other commands, and the clock *)

(* The deletion of the staging file is not awaited by the request.          *)
AbortUpload(t) ==
  /\ Accepting(t)
  /\ session.status \notin {"none", "completed"}
  /\ MovedIf(session.status = "open", "aborted")
  /\ SettleReservation(session.id, "released")
  /\ task' = [task EXCEPT ![t] = Begin(t, "deleting")]
  /\ UNCHANGED <<record, asset, file, server>>

Expire ==
  /\ session.status \in Pending
  /\ ~session.due
  /\ session' = [session EXCEPT !.due = TRUE]
  /\ UNCHANGED <<reservation, record, asset, file, task, server>>

ToggleLifecycle ==
  /\ server.recovered
  /\ asset.ingestion # "none"
  /\ asset' = [asset EXCEPT !.active = ~@]
  /\ UNCHANGED <<session, reservation, record, file, task, server>>

(* What the Job kernel makes of an Asset in processing. *)
SettleIngestion ==
  /\ server.recovered
  /\ asset.ingestion = "processing"
  /\ asset.active
  /\ \E outcome \in {"ready", "failed"} :
       asset' = [asset EXCEPT !.ingestion = outcome]
  /\ UNCHANGED <<session, reservation, record, file, task, server>>

-----------------------------------------------------------------------------
(* A pass of asset maintenance: at startup before anything is served, then  *)
(* every minute.                                                            *)

MayRunPass == server.recovered \/ \A s \in Tasks : task[s].pc = "idle"

(* The list of open sessions is read once; what follows works from it.      *)
RunMaintenance(t) ==
  /\ At(t, "idle")
  /\ MayRunPass
  /\ task' = [task EXCEPT ![t] =
       [Begin(t, IF session.status # "open" THEN "listing"
                 ELSE IF session.due THEN "expiring" ELSE "surveying")
          EXCEPT !.pass = TRUE]]
  /\ UNCHANGED <<session, reservation, record, asset, file, server>>

StillOpen(t) == Names(t) /\ session.status = "open"

ExpireListed(t) ==
  /\ At(t, "expiring")
  /\ IF StillOpen(t)
     THEN /\ session' = Moved("expired")
          /\ SettleReservation(task[t].up, "expired")
          /\ Goto(t, "deleting")
     ELSE Goto(t, "listing") /\ UNCHANGED <<session, reservation>>
  /\ UNCHANGED <<record, asset, file, server>>

(* A missing or short file fails the Asset by an UPDATE that has no guard.  *)
SurveyListed(t) ==
  /\ At(t, "surveying")
  /\ IF ~Inode(t).staged \/ Len(Inode(t).bytes) < task[t].received
     THEN /\ MovedIf(StillOpen(t), "rejected")
          /\ asset' = [asset EXCEPT !.ingestion = "failed"]
          /\ SettleReservation(task[t].up, "released")
          /\ Goto(t, "listing")
     ELSE /\ Goto(t, IF Len(Inode(t).bytes) > task[t].received
                     THEN "trimming" ELSE "listing")
          /\ UNCHANGED <<session, reservation, asset>>
  /\ UNCHANGED <<record, file, server>>

(* Cut to the received_size of the list.  If the file has gone the pass is  *)
(* rejected.                                                                *)
TrimListed(t) ==
  /\ At(t, "trimming")
  /\ IF Inode(t).staged
     THEN /\ SetBytes(task[t].up, Resized(Inode(t).bytes, task[t].received))
          /\ Goto(t, "listing")
     ELSE End(t) /\ UNCHANGED file
  /\ UNCHANGED <<session, reservation, record, asset, server>>

ListVerifyingForgotten(t) ==
  /\ At(t, "listing")
  /\ Finish(t)
  /\ UNCHANGED <<session, reservation, record, asset, file>>

ListVerifying(t) ==
  /\ At(t, "listing")
  /\ IF session.status = "verifying"
     THEN /\ task' = [task EXCEPT ![t] =
                        [Begin(t, "examining") EXCEPT !.pass = TRUE]]
          /\ UNCHANGED server
     ELSE Finish(t)
  /\ UNCHANGED <<session, reservation, record, asset, file>>

(* A verifying session is taken for one whose completion died with its      *)
(* process.  No file is longer than received_size here: it is Declared.     *)
ExamineVerifying(t) ==
  /\ At(t, "examining")
  /\ \/ /\ Inode(t).staged /\ Len(Inode(t).bytes) >= task[t].received
        /\ ReopenVerifying(t)
        /\ Finish(t)
     \/ /\ Inode(t).staged /\ Len(Inode(t).bytes) < task[t].received
        /\ FailVerifying(t)
        /\ Finish(t)
     \/ /\ ~Inode(t).staged
        /\ Goto(t, "heading")
        /\ UNCHANGED <<session, reservation, record, asset, server>>
  /\ UNCHANGED file

HeadDurable(t) ==
  /\ At(t, "heading")
  /\ \/ /\ Inode(t).durable
        /\ Goto(t, "restoring")
        /\ UNCHANGED <<session, reservation, record, asset, server>>
     \/ /\ ~Inode(t).durable
        /\ FailVerifying(t)
        /\ Finish(t)
  /\ UNCHANGED file

(* The process dies and starts again. *)
Crash ==
  /\ server.crashes < CrashBound
  /\ task' = [t \in Tasks |-> Idle]
  /\ server' = [recovered |-> FALSE, crashes |-> server.crashes + 1]
  /\ UNCHANGED <<session, reservation, record, asset, file>>

-----------------------------------------------------------------------------
Init ==
  /\ session = [id |-> 0, status |-> "none", acked |-> <<>>, due |-> FALSE,
                version |-> 0]
  /\ reservation = [u \in Uploads |-> "none"]
  /\ record = [u \in Uploads |-> [k \in Keys |-> "absent"]]
  /\ asset = [ingestion |-> "none", active |-> TRUE, checksum |-> <<>>]
  /\ file = [u \in Uploads |->
               [bytes |-> <<>>, staged |-> FALSE, durable |-> FALSE]]
  /\ task = [t \in Tasks |-> Idle]
  /\ server = [recovered |-> FALSE, crashes |-> 0]

Request(t) == Stage(t) \/ AppendChunk(t) \/ CompleteUpload(t) \/ AbortUpload(t)

Continue(t) ==
  \/ Register(t) \/ Delete(t)
  \/ StatStaging(t) \/ TruncateStaging(t) \/ OpenStaging(t) \/ WriteStaging(t)
  \/ UpdateChunk(t)
  \/ CheckStaging(t) \/ Inspect(t) \/ LinkDurable(t) \/ UnlinkStaging(t)
  \/ CommitUpload(t) \/ RestoreStaging(t) \/ UnlinkDurable(t)
  \/ ExpireListed(t) \/ SurveyListed(t) \/ TrimListed(t) \/ ListVerifying(t)
  \/ ExamineVerifying(t) \/ HeadDurable(t)

Next ==
  \/ \E t \in Tasks : Request(t) \/ RunMaintenance(t) \/ Continue(t)
  \/ Expire \/ ToggleLifecycle \/ SettleIngestion \/ Crash

Spec == Init /\ [][Next]_vars

(* File operations and transactions return, and the maintenance timer fires *)
(* whatever requests do.                                                    *)
Fairness == \A t \in Tasks : /\ WF_vars(Continue(t))
                             /\ SF_vars(RunMaintenance(t))

FairSpec == Spec /\ Fairness

-----------------------------------------------------------------------------
(* Properties *)

(* Rows, files and calls have their types. *)
TypeOK ==
  /\ session \in Session
  /\ reservation \in [Uploads -> Reservations]
  /\ record \in [Uploads -> [Keys -> Records]]
  /\ asset \in Asset
  /\ file \in [Uploads -> File]
  /\ task \in [Tasks -> Task]
  /\ server \in [recovered : BOOLEAN, crashes : Nat]

(* Whatever calls overlap, capacity is neither leaked nor consumed twice:   *)
(* a reservation outlives no upload that could still use it, and it is      *)
(* consumed exactly by the completion of its upload.                        *)
ReservationsFollowUploads ==
  \A u \in Uploads :
    /\ reservation[u] = "reserved" =>
         session.id = u /\ session.status \in Pending
    /\ session.id = u =>
         (reservation[u] = "consumed" <=> session.status = "completed")

(* The offset a client was told is never taken back while its upload lasts, *)
(* and what was acknowledged before stays acknowledged (AC-ASSET-15).       *)
AcknowledgementsStand ==
  [][session'.id = session.id => IsPrefix(session.acked, session'.acked)]_vars

(* The answer that is stored under a key of a completion is true: some key  *)
(* has one exactly when the upload took its capacity for good, and an Asset *)
(* that is past its upload is past this very one, although a completion, a  *)
(* repeat of it, maintenance and a rejection may all be under way at once.  *)
AnswersFollowUploads ==
  /\ \A u \in Uploads :
       reservation[u] = "consumed" <=>
         \E k \in Keys : record[u][k] = "completed"
  /\ asset.ingestion \in {"processing", "ready"} =>
       reservation[session.id] = "consumed"

(* With one call at a time, and a crash at any await: the bytes the row     *)
(* acknowledges are in the inode, under one name or the other, as long as   *)
(* the upload has its capacity.                                             *)
AcknowledgedBytesKept ==
  session.status \in Pending /\ reservation[session.id] = "reserved" =>
    /\ IsPrefix(session.acked, file[session.id].bytes)
    /\ file[session.id].staged \/ file[session.id].durable

(* The object of an Asset that left the upload behind is durable and has    *)
(* the content whose checksum was recorded.                                 *)
ObjectIsStored ==
  asset.ingestion \in {"processing", "ready"} =>
    /\ file[session.id].durable
    /\ file[session.id].bytes = asset.checksum

(* With one call at a time an upload is verifying only while a call works   *)
(* on it, one died in a crash that no pass has followed yet, or a           *)
(* completion failed for a second time under its key, which rolls back its  *)
(* own reopening or rejection; and only in the last case can an abort come  *)
(* upon it and take the capacity of an upload that goes on.                 *)
FailedBefore == \E k \in Keys : record[session.id][k] = "failed"
VerifyingIsAttended ==
  /\ session.status = "verifying" =>
       \/ \E t \in Tasks : task[t].up = session.id
       \/ ~server.recovered
       \/ FailedBefore
  /\ session.status \in Pending =>
       reservation[session.id] = "reserved" \/ FailedBefore

(* No upload stays in verifying: a request that dies, or whose reopening is *)
(* rolled back, at any point of the finalization is resolved by             *)
(* maintenance.                                                             *)
VerificationEnds ==
  session.status = "verifying" ~> session.status # "verifying"
=============================================================================
