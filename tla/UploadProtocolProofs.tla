------------------------ MODULE UploadProtocolProofs ------------------------
(***************************************************************************)
(* Proofs about UploadProtocol, for every set of calls, every size of the  *)
(* upload, every number of retries and every interleaving: that capacity   *)
(* follows its upload, that acknowledgements are never taken back, and     *)
(* that stored answers are true.                                           *)
(***************************************************************************)
EXTENDS UploadProtocol, TLAPS

-----------------------------------------------------------------------------
(* Reservations.  ReservationsFollowUploads is inductive once the row is    *)
(* known to have its columns and every upload id its reservation.           *)

Columns == {"id", "status", "acked", "due", "version"}
Rows == /\ DOMAIN session = Columns
        /\ reservation \in [Uploads -> Reservations]
ReservationInv == Rows /\ ReservationsFollowUploads

LEMMA InitReserves == Init => ReservationInv
BY UploadAssumption DEF Init, ReservationInv, Rows, Columns, Reservations,
   ReservationsFollowUploads, Uploads, Pending

LEMMA StillReserves ==
  ASSUME ReservationInv, UNCHANGED <<session, reservation>>
  PROVE  ReservationInv'
BY DEF ReservationInv, Rows, ReservationsFollowUploads

(* The ways an interrupted completion ends. *)
LEMMA RejectReserves ==
  ASSUME ReservationInv, NEW t \in Tasks, RejectUpload(t)
  PROVE  ReservationInv'
<1>1. CASE UNCHANGED <<session, reservation>>
  BY <1>1, StillReserves
<1>2. CASE /\ MovedIf(Verifying(t), "rejected")
           /\ SettleReservation(task[t].up, "released")
  BY <1>2 DEF ReservationInv, Rows, Columns, Reservations, Moved,
     ReservationsFollowUploads, MovedIf, Verifying, Names, SettleReservation,
     Pending
<1> QED BY <1>1, <1>2 DEF RejectUpload, Throws

LEMMA FailReserves ==
  ASSUME ReservationInv, NEW t \in Tasks, FailVerifying(t)
  PROVE  ReservationInv'
BY DEF FailVerifying, ReservationInv, Rows, Columns, Reservations, Moved,
   ReservationsFollowUploads, MovedIf, Verifying, Names, SettleReservation,
   Pending

LEMMA OpenReserves ==
  ASSUME ReservationInv, NEW t \in Tasks,
         \/ UNCHANGED <<session, reservation>>
         \/ /\ Verifying(t)
            /\ session' = Moved("open")
            /\ reservation' = reservation
  PROVE  ReservationInv'
BY StillReserves DEF ReservationInv, Rows, Columns, Reservations, Moved,
   ReservationsFollowUploads, Verifying, Names, Pending

LEMMA ReopenReserves ==
  ASSUME ReservationInv, NEW t \in Tasks,
         ReopenUpload(t) \/ ReopenVerifying(t) \/ Restored(t)
  PROVE  ReservationInv'
BY OpenReserves DEF ReopenUpload, ReopenVerifying, Restored, Throws

LEMMA NotRestoredReserves ==
  ASSUME ReservationInv, NEW t \in Tasks, NotRestored(t)
  PROVE  ReservationInv'
BY RejectReserves, FailReserves DEF NotRestored

LEMMA StepReserves == ReservationInv /\ [Next]_vars => ReservationInv'
<1> SUFFICES ASSUME ReservationInv, [Next]_vars PROVE ReservationInv'
  OBVIOUS
<1> USE DEF ReservationInv, Rows, Columns, ReservationsFollowUploads
<1>1. ASSUME NEW t \in Tasks, Request(t) PROVE ReservationInv'
  <2>1. CASE Stage(t) BY <2>1, StillReserves DEF Stage
  <2>2. CASE AppendChunk(t) BY <2>2, StillReserves DEF AppendChunk
  <2>3. CASE CompleteUpload(t)
    BY <2>3 DEF CompleteUpload, Moved, Pending
  <2>4. CASE AbortUpload(t)
    BY <2>4 DEF AbortUpload, MovedIf, Moved, SettleReservation, Pending,
       Reservations
  <2> QED BY <1>1, <2>1, <2>2, <2>3, <2>4 DEF Request
<1>2. ASSUME NEW t \in Tasks, Continue(t) PROVE ReservationInv'
  <2>1. CASE Register(t)
    BY <2>1 DEF Register, MayOpen, Terminal, Pending, Reservations
  <2>2. CASE \/ Delete(t) \/ StatStaging(t) \/ TruncateStaging(t)
             \/ OpenStaging(t) \/ WriteStaging(t) \/ LinkDurable(t)
             \/ UnlinkStaging(t) \/ TrimListed(t) \/ ListVerifying(t)
    BY <2>2, StillReserves
       DEF Delete, StatStaging, TruncateStaging, OpenStaging, WriteStaging,
           LinkDurable, UnlinkStaging, TrimListed, ListVerifying
  <2>3. CASE UpdateChunk(t) BY <2>3 DEF UpdateChunk
  <2>4. CASE CheckStaging(t)
    BY <2>4, StillReserves, RejectReserves DEF CheckStaging
  <2>5. CASE Inspect(t)
    BY <2>5, StillReserves, RejectReserves, ReopenReserves DEF Inspect
  <2>6. CASE CommitUpload(t)
    <3>1. CASE UNCHANGED <<session, reservation>>
      BY <3>1, StillReserves
    <3>2. CASE /\ Committable(t)
               /\ session' = Moved("completed")
               /\ reservation' =
                    [reservation EXCEPT ![task[t].up] = "consumed"]
      <4>1. /\ session.id = task[t].up
            /\ session'.id = session.id
            /\ session'.status = "completed"
            /\ DOMAIN session' = Columns
        BY <3>2 DEF Committable, Verifying, Names, Moved
      <4>2. reservation' \in [Uploads -> Reservations]
        BY <3>2 DEF Reservations
      <4>3. ASSUME NEW u \in Uploads, u # session.id
            PROVE  reservation'[u] # "reserved"
        BY <3>2, <4>1, <4>3
      <4>4. session.id \in Uploads => reservation'[session.id] = "consumed"
        BY <3>2, <4>1
      <4> QED BY <4>1, <4>2, <4>3, <4>4
    <3> QED BY <2>6, <3>1, <3>2 DEF CommitUpload
  <2>7. CASE RestoreStaging(t)
    BY <2>7, StillReserves, ReopenReserves, NotRestoredReserves
       DEF RestoreStaging
  <2>8. CASE UnlinkDurable(t)
    BY <2>8, ReopenReserves, NotRestoredReserves DEF UnlinkDurable
  <2>9. CASE ExpireListed(t)
    BY <2>9 DEF ExpireListed, StillOpen, Names, Moved, SettleReservation,
       Pending, Reservations
  <2>10. CASE SurveyListed(t)
    BY <2>10 DEF SurveyListed, StillOpen, Names, MovedIf, Moved,
       SettleReservation, Pending, Reservations
  <2>11. CASE ExamineVerifying(t)
    BY <2>11, StillReserves, ReopenReserves, FailReserves
       DEF ExamineVerifying
  <2>12. CASE HeadDurable(t)
    BY <2>12, StillReserves, FailReserves DEF HeadDurable
  <2> QED
    BY <1>2, <2>1, <2>2, <2>3, <2>4, <2>5, <2>6, <2>7, <2>8, <2>9, <2>10,
       <2>11, <2>12 DEF Continue
<1>3. ASSUME NEW t \in Tasks, RunMaintenance(t) PROVE ReservationInv'
  BY <1>3, StillReserves DEF RunMaintenance
<1>4. CASE Expire BY <1>4 DEF Expire, Pending
<1>5. CASE ToggleLifecycle \/ SettleIngestion \/ Crash \/ UNCHANGED vars
  BY <1>5, StillReserves DEF ToggleLifecycle, SettleIngestion, Crash, vars
<1> QED BY <1>1, <1>2, <1>3, <1>4, <1>5 DEF Next

(* Whatever calls overlap and wherever the process dies, no capacity is     *)
(* leaked, and none is consumed but by the completion of its upload: the    *)
(* guarded UPDATEs of asset-service.ts and asset-maintenance-service.ts.    *)
THEOREM CapacityFollowsUploads == Spec => []ReservationsFollowUploads
<1>1. ReservationInv => ReservationsFollowUploads BY DEF ReservationInv
<1> QED BY InitReserves, StepReserves, <1>1, PTL DEF Spec

-----------------------------------------------------------------------------
(* Acknowledgements.  A step keeps what a row acknowledges if it keeps the  *)
(* upload id, and a registering call never brings back the id of the row:   *)
(* its id was drawn fresh and has no reservation yet.                       *)

Data == Chunks \cup {Hole}
CallFields ==
  {"pc", "up", "key", "received", "version", "content", "pass"}
Calls == /\ DOMAIN task = Tasks
         /\ \A t \in Tasks : DOMAIN task[t] = CallFields
Carries == \A t \in Tasks : task[t].pc \in AppendPoints =>
                              \E c \in Chunks : task[t].content = <<c>>
FreshIds ==
  /\ session.id # 0 => session.id \in Uploads /\ reservation[session.id] # "none"
  /\ \A t \in Tasks : At(t, "registering") =>
       /\ task[t].up \in Uploads
       /\ reservation[task[t].up] = "none"
       /\ \A s \in Tasks : At(s, "registering") /\ task[s].up = task[t].up
                             => s = t
AckInv == /\ ReservationInv
          /\ session.acked \in Seq(Data)
          /\ Calls
          /\ Carries
          /\ FreshIds

LEMMA InitAcks == Init => AckInv
BY UploadAssumption, InitReserves
   DEF Init, AckInv, Columns, Calls, CallFields, Idle, Carries, FreshIds,
       AppendPoints, At, Uploads, Reservations

(* Growing a sequence by one element keeps it as a prefix. *)
LEMMA GrownPrefix ==
  ASSUME NEW s \in Seq(Data), NEW c \in Data
  PROVE  /\ s \o <<c>> \in Seq(Data)
         /\ IsPrefix(s, s \o <<c>>)
BY DEF IsPrefix

LEMMA SamePrefix ==
  ASSUME NEW s \in Seq(Data)
  PROVE  /\ IsPrefix(s, s)
         /\ Resized(s, Len(s)) = s
BY DEF IsPrefix, Resized

(* What every step but three does: the row keeps its id and acknowledgements, *)
(* no reservation appears, and no call begins to register.                  *)
Proceeds(s) ==
  /\ DOMAIN task'[s] = CallFields
  /\ task'[s].pc # "registering"
  /\ task'[s].pc \in AppendPoints => \E c \in Chunks : task'[s].content = <<c>>
RowStands ==
  /\ session'.id = session.id
  /\ session'.acked = session.acked
  /\ \A u \in Uploads : reservation'[u] = "none" <=> reservation[u] = "none"
CallsProceed ==
  /\ DOMAIN task' = Tasks
  /\ \A s \in Tasks : task'[s] = task[s] \/ Proceeds(s)

LEMMA OrdinaryStep ==
  ASSUME AckInv, ReservationInv', RowStands, CallsProceed
  PROVE  AckInv'
<1>1. Calls' BY DEF AckInv, Calls, CallsProceed, Proceeds
<1>2. Carries' BY DEF AckInv, Carries, CallsProceed, Proceeds
<1>3. FreshIds'
  BY DEF AckInv, FreshIds, RowStands, CallsProceed, Proceeds, At
<1> QED BY <1>1, <1>2, <1>3 DEF AckInv, RowStands

LEMMA GotoProceeds ==
  ASSUME AckInv, NEW t \in Tasks, NEW pc, Goto(t, pc), pc # "registering",
         pc \in AppendPoints => task[t].pc \in AppendPoints
  PROVE  CallsProceed
BY DEF AckInv, Calls, CallFields, Carries, Goto, CallsProceed, Proceeds

LEMMA EndProceeds ==
  ASSUME AckInv, NEW t \in Tasks, End(t)
  PROVE  CallsProceed
BY DEF AckInv, Calls, CallFields, End, Idle, CallsProceed, Proceeds,
       AppendPoints

LEMMA BeginProceeds ==
  ASSUME AckInv, NEW t \in Tasks, NEW pc, pc # "registering",
         pc \notin AppendPoints,
         \/ task' = [task EXCEPT ![t] = Begin(t, pc)]
         \/ task' = [task EXCEPT ![t] = [Begin(t, pc) EXCEPT !.pass = TRUE]]
         \/ \E k \in Keys :
              task' = [task EXCEPT ![t] = [Begin(t, pc) EXCEPT !.key = k]]
  PROVE  CallsProceed
<1>1. DOMAIN Begin(t, pc) = CallFields /\ Begin(t, pc).pc = pc
  BY DEF Begin, Idle, CallFields
<1>2. /\ DOMAIN [Begin(t, pc) EXCEPT !.pass = TRUE] = CallFields
      /\ [Begin(t, pc) EXCEPT !.pass = TRUE].pc = pc
  BY <1>1 DEF CallFields
<1>3. \A k \in Keys :
        /\ DOMAIN [Begin(t, pc) EXCEPT !.key = k] = CallFields
        /\ [Begin(t, pc) EXCEPT !.key = k].pc = pc
  BY <1>1 DEF CallFields
<1> QED BY <1>1, <1>2, <1>3 DEF AckInv, Calls, CallsProceed, Proceeds

LEMMA StillStands ==
  ASSUME UNCHANGED <<session, reservation>>
  PROVE  RowStands
BY DEF RowStands

LEMMA ReopenStands ==
  ASSUME AckInv, NEW t \in Tasks,
         ReopenUpload(t) \/ ReopenVerifying(t) \/ Restored(t)
  PROVE  RowStands
<1>1. /\ session' = session \/ session' = Moved("open")
      /\ reservation' = reservation
  BY DEF ReopenUpload, ReopenVerifying, Restored, Throws
<1> QED
  BY <1>1 DEF AckInv, ReservationInv, Rows, Columns, Moved, RowStands

LEMMA RejectStands ==
  ASSUME AckInv, NEW t \in Tasks, RejectUpload(t)
  PROVE  RowStands
<1>1. CASE UNCHANGED <<session, reservation>>
  BY <1>1, StillStands
<1>2. CASE /\ MovedIf(Verifying(t), "rejected")
           /\ SettleReservation(task[t].up, "released")
  BY <1>2 DEF AckInv, ReservationInv, Rows, Columns, MovedIf, Moved,
     RowStands, SettleReservation
<1> QED BY <1>1, <1>2 DEF RejectUpload, Throws

LEMMA FailStands ==
  ASSUME AckInv, NEW t \in Tasks, FailVerifying(t)
  PROVE  RowStands
BY DEF AckInv, ReservationInv, Rows, Columns, FailVerifying, MovedIf, Moved,
       RowStands, SettleReservation

LEMMA NotRestoredStands ==
  ASSUME AckInv, NEW t \in Tasks, NotRestored(t)
  PROVE  RowStands
BY RejectStands, FailStands DEF NotRestored

LEMMA FinishProceeds ==
  ASSUME AckInv, NEW t \in Tasks, Finish(t)
  PROVE  CallsProceed
BY EndProceeds DEF Finish

(* The transaction of UpdateChunk appends to what is acknowledged, and the  *)
(* guard on received_size makes the offset of the chunk its end.            *)
LEMMA UpdateGrows ==
  ASSUME AckInv, NEW t \in Tasks, UpdateChunk(t)
  PROVE  /\ session'.id = session.id
         /\ session'.acked \in Seq(Data)
         /\ IsPrefix(session.acked, session'.acked)
<1>1. CASE ~ChunkExpected(t)
  BY <1>1, SamePrefix DEF UpdateChunk, AckInv
<1>2. CASE ChunkExpected(t)
  <2>1. PICK c \in Chunks : task[t].content = <<c>>
    BY DEF AckInv, Carries, UpdateChunk, At, AppendPoints
  <2>2. task[t].received = Len(session.acked)
    BY <1>2 DEF ChunkExpected, Received
  <2>3. Resized(session.acked, task[t].received) = session.acked
    BY <2>2, SamePrefix DEF AckInv
  <2>4. session' = [session EXCEPT !.acked = session.acked \o <<c>>,
                                   !.version = session.version + 1]
    BY <1>2, <2>1, <2>3 DEF UpdateChunk
  <2>5. /\ session'.id = session.id
        /\ session'.acked = session.acked \o <<c>>
    BY <2>4 DEF AckInv, ReservationInv, Rows, Columns
  <2> QED BY <2>5, GrownPrefix DEF AckInv, Data
<1> QED BY <1>1, <1>2

LEMMA UpdateKeeps ==
  ASSUME AckInv, ReservationInv', NEW t \in Tasks, UpdateChunk(t)
  PROVE  AckInv'
<1>1. CallsProceed BY EndProceeds DEF UpdateChunk
<1>2. Calls' BY <1>1 DEF AckInv, Calls, CallsProceed, Proceeds
<1>3. Carries' BY <1>1 DEF AckInv, Carries, CallsProceed, Proceeds
<1>4. session'.id = session.id /\ reservation' = reservation
  BY UpdateGrows DEF UpdateChunk
<1>5. FreshIds'
  BY <1>1, <1>4 DEF AckInv, FreshIds, CallsProceed, Proceeds, At
<1> QED BY <1>2, <1>3, <1>5, UpdateGrows DEF AckInv

(* The id that registers is not the id of the row. *)
LEMMA RegisterDiffers ==
  ASSUME AckInv, ReservationInv', NEW t \in Tasks, Register(t)
  PROVE  /\ AckInv'
         /\ session' # session => session'.id # session.id
<1> DEFINE u == task[t].up
<1>1. /\ At(t, "registering")
      /\ u \in Uploads
      /\ reservation[u] = "none"
      /\ session.id # u
      /\ u # 0
  BY DEF Register, AckInv, FreshIds, At, Uploads
<1>2. CASE UNCHANGED <<session, reservation>> /\ Goto(t, "deleting")
  BY <1>2, GotoProceeds, StillStands, OrdinaryStep DEF AppendPoints
<1>3. CASE /\ session' = [id |-> u, status |-> "open", acked |-> <<>>,
                          due |-> FALSE, version |-> session.version + 1]
           /\ reservation' = [reservation EXCEPT ![u] = "reserved"]
           /\ task' = [task EXCEPT ![t] = IF session.id = 0 THEN Idle
                         ELSE [@ EXCEPT !.pc = "deleting", !.up = session.id]]
  <2>1. CallsProceed
    BY <1>3 DEF AckInv, Calls, CallFields, CallsProceed, Proceeds, Idle,
                AppendPoints
  <2>2. task'[t].pc # "registering"
    BY <1>3 DEF AckInv, Calls, CallFields, Idle
  <2>3. Calls' BY <2>1 DEF AckInv, Calls, CallsProceed, Proceeds
  <2>4. Carries' BY <2>1 DEF AckInv, Carries, CallsProceed, Proceeds
  <2>5. session'.id = u /\ reservation'[u] = "reserved"
    BY <1>1, <1>3 DEF AckInv, ReservationInv, Rows
  <2>6. \A v \in Uploads : v # u => reservation'[v] = reservation[v]
    BY <1>3 DEF AckInv, ReservationInv, Rows
  <2>7. ASSUME NEW s \in Tasks, At(s, "registering")'
        PROVE  /\ task'[s] = task[s]
               /\ At(s, "registering")
               /\ task[s].up # u
    BY <1>1, <2>1, <2>2, <2>7 DEF CallsProceed, Proceeds, At, AckInv, FreshIds
  <2>8. FreshIds'
    BY <1>1, <2>5, <2>6, <2>7 DEF AckInv, FreshIds, At
  <2>9. session'.acked \in Seq(Data)
    BY <1>3
  <2> QED BY <1>1, <2>3, <2>4, <2>5, <2>8, <2>9 DEF AckInv
<1> HIDE DEF u
<1> QED BY <1>2, <1>3 DEF Register, u

(* A fresh id is nobody's: Stage keeps the ids of registering calls apart.  *)
LEMMA StageKeeps ==
  ASSUME AckInv, ReservationInv', NEW t \in Tasks, Stage(t)
  PROVE  AckInv'
<1>1. PICK u \in Fresh :
        task' = [task EXCEPT ![t] =
                   [Idle EXCEPT !.pc = "registering", !.up = u]]
  BY DEF Stage
<1>2. /\ u \in Uploads
      /\ reservation[u] = "none"
      /\ \A s \in Tasks : task[s].up # u
  BY DEF Fresh
<1>3. UNCHANGED <<session, reservation>> BY DEF Stage
<1>4. /\ DOMAIN task'[t] = CallFields
      /\ task'[t].pc = "registering"
      /\ task'[t].up = u
  BY <1>1 DEF AckInv, Calls, CallFields, Idle
<1>5. \A s \in Tasks : s # t => task'[s] = task[s]
  BY <1>1 DEF AckInv, Calls
<1>6. Calls' BY <1>1, <1>4, <1>5 DEF AckInv, Calls
<1>7. Carries' BY <1>4, <1>5 DEF AckInv, Carries, AppendPoints
<1>8. FreshIds' BY <1>2, <1>3, <1>4, <1>5 DEF AckInv, FreshIds, At
<1> QED BY <1>3, <1>6, <1>7, <1>8 DEF AckInv

Grows == session'.id = session.id => IsPrefix(session.acked, session'.acked)

LEMMA OrdinaryKeeps ==
  ASSUME AckInv, ReservationInv', RowStands, CallsProceed
  PROVE  AckInv' /\ Grows
BY OrdinaryStep, SamePrefix DEF RowStands, Grows, AckInv

LEMMA StepAcks == AckInv /\ [Next]_vars => AckInv' /\ Grows
<1> SUFFICES ASSUME AckInv, [Next]_vars PROVE AckInv' /\ Grows
  OBVIOUS
<1>0. ReservationInv' BY StepReserves DEF AckInv
<1>1. ASSUME NEW t \in Tasks, Request(t) PROVE AckInv' /\ Grows
  <2>1. CASE Stage(t)
    BY <1>0, <2>1, StageKeeps, SamePrefix DEF Stage, Grows, AckInv
  <2>2. CASE AppendChunk(t)
    <3>1. CallsProceed
      BY <2>2 DEF AppendChunk, Begin, Idle, AckInv, Calls, CallFields,
                  CallsProceed, Proceeds
    <3> QED BY <1>0, <2>2, <3>1, StillStands, OrdinaryKeeps DEF AppendChunk
  <2>3. CASE CompleteUpload(t)
    <3>0. \E k \in Keys :
            task' = [task EXCEPT ![t] = [Begin(t, "checking") EXCEPT !.key = k]]
      BY <2>3 DEF CompleteUpload
    <3>1. CallsProceed
      <4>1. "checking" \notin AppendPoints /\ "checking" # "registering"
        BY DEF AppendPoints
      <4> QED BY <3>0, <4>1, BeginProceeds
    <3>2. RowStands
      BY <2>3 DEF CompleteUpload, Moved, RowStands, AckInv, ReservationInv,
                  Rows, Columns
    <3> QED BY <1>0, <3>1, <3>2, OrdinaryKeeps
  <2>4. CASE AbortUpload(t)
    <3>0. task' = [task EXCEPT ![t] = Begin(t, "deleting")]
      BY <2>4 DEF AbortUpload
    <3>1. CallsProceed
      <4>1. "deleting" \notin AppendPoints /\ "deleting" # "registering"
        BY DEF AppendPoints
      <4> QED BY <3>0, <4>1, BeginProceeds
    <3>2. RowStands
      BY <2>4 DEF AbortUpload, MovedIf, Moved, SettleReservation, RowStands,
                  AckInv, ReservationInv, Rows, Columns
    <3> QED BY <1>0, <3>1, <3>2, OrdinaryKeeps
  <2> QED BY <1>1, <2>1, <2>2, <2>3, <2>4 DEF Request
<1>2. ASSUME NEW t \in Tasks, Continue(t) PROVE AckInv' /\ Grows
  <2>1. CASE Register(t)
    BY <1>0, <2>1, RegisterDiffers, SamePrefix DEF Grows, AckInv
  <2>2. CASE UpdateChunk(t)
    BY <1>0, <2>2, UpdateKeeps, UpdateGrows DEF Grows
  <2>3. CASE Delete(t)
    <3>1. CallsProceed
      BY <2>3, EndProceeds, GotoProceeds DEF Delete, AppendPoints
    <3> QED BY <1>0, <2>3, <3>1, StillStands, OrdinaryKeeps DEF Delete
  <2>4. CASE StatStaging(t)
    <3>1. CallsProceed
      BY <2>4, EndProceeds, GotoProceeds DEF StatStaging, AppendPoints, At
    <3> QED BY <1>0, <2>4, <3>1, StillStands, OrdinaryKeeps DEF StatStaging
  <2>5. CASE TruncateStaging(t)
    <3>1. CallsProceed
      BY <2>5, EndProceeds, GotoProceeds DEF TruncateStaging, AppendPoints, At
    <3> QED BY <1>0, <2>5, <3>1, StillStands, OrdinaryKeeps DEF TruncateStaging
  <2>6. CASE OpenStaging(t)
    <3>1. CallsProceed
      BY <2>6, EndProceeds, GotoProceeds DEF OpenStaging, AppendPoints, At
    <3> QED BY <1>0, <2>6, <3>1, StillStands, OrdinaryKeeps DEF OpenStaging
  <2>7. CASE WriteStaging(t)
    <3>1. CallsProceed
      BY <2>7, GotoProceeds DEF WriteStaging, AppendPoints, At
    <3> QED BY <1>0, <2>7, <3>1, StillStands, OrdinaryKeeps DEF WriteStaging
  <2>8. CASE CheckStaging(t)
    <3>1. CallsProceed
      BY <2>8, EndProceeds, GotoProceeds DEF CheckStaging, AppendPoints
    <3>2. RowStands
      BY <2>8, StillStands, RejectStands DEF CheckStaging
    <3> QED BY <1>0, <3>1, <3>2, OrdinaryKeeps
  <2>9. CASE Inspect(t)
    <3>1. CallsProceed
      <4>1. CASE task' = [task EXCEPT ![t].pc = "linking",
                                      ![t].content = Inode(t).bytes]
        BY <4>1 DEF AckInv, Calls, CallFields, CallsProceed, Proceeds,
                    AppendPoints
      <4> QED BY <2>9, <4>1, EndProceeds DEF Inspect
    <3>2. RowStands
      BY <2>9, StillStands, RejectStands, ReopenStands DEF Inspect
    <3> QED BY <1>0, <3>1, <3>2, OrdinaryKeeps
  <2>10. CASE LinkDurable(t)
    <3>1. CallsProceed
      BY <2>10, GotoProceeds DEF LinkDurable, Catch, AppendPoints
    <3> QED BY <1>0, <2>10, <3>1, StillStands, OrdinaryKeeps DEF LinkDurable
  <2>11. CASE UnlinkStaging(t)
    <3>1. CallsProceed
      BY <2>11, GotoProceeds DEF UnlinkStaging, Catch, AppendPoints
    <3> QED BY <1>0, <2>11, <3>1, StillStands, OrdinaryKeeps DEF UnlinkStaging
  <2>12. CASE CommitUpload(t)
    <3>1. CallsProceed
      BY <2>12, EndProceeds, GotoProceeds DEF CommitUpload, Catch, AppendPoints
    <3>2. RowStands
      <4>1. CASE UNCHANGED <<session, reservation>> BY <4>1, StillStands
      <4>2. CASE /\ Committable(t)
                 /\ session' = Moved("completed")
                 /\ reservation' =
                      [reservation EXCEPT ![task[t].up] = "consumed"]
        BY <4>2 DEF Committable, Moved, RowStands, AckInv, ReservationInv,
                    Rows, Columns
      <4> QED BY <2>12, <4>1, <4>2 DEF CommitUpload
    <3> QED BY <1>0, <3>1, <3>2, OrdinaryKeeps
  <2>13. CASE RestoreStaging(t)
    <3>1. CallsProceed
      BY <2>13, FinishProceeds, GotoProceeds DEF RestoreStaging, AppendPoints
    <3>2. RowStands
      BY <2>13, StillStands, ReopenStands, NotRestoredStands
         DEF RestoreStaging
    <3> QED BY <1>0, <3>1, <3>2, OrdinaryKeeps
  <2>14. CASE UnlinkDurable(t)
    <3>1. CallsProceed BY <2>14, FinishProceeds DEF UnlinkDurable
    <3>2. RowStands
      BY <2>14, ReopenStands, NotRestoredStands DEF UnlinkDurable
    <3> QED BY <1>0, <3>1, <3>2, OrdinaryKeeps
  <2>15. CASE ExpireListed(t)
    <3>1. CallsProceed
      BY <2>15, GotoProceeds DEF ExpireListed, AppendPoints
    <3>2. RowStands
      BY <2>15 DEF ExpireListed, Moved, SettleReservation, RowStands, AckInv,
                   ReservationInv, Rows, Columns
    <3> QED BY <1>0, <3>1, <3>2, OrdinaryKeeps
  <2>16. CASE SurveyListed(t)
    <3>1. CallsProceed
      BY <2>16, GotoProceeds DEF SurveyListed, AppendPoints
    <3>2. RowStands
      BY <2>16 DEF SurveyListed, MovedIf, Moved, SettleReservation, RowStands,
                   AckInv, ReservationInv, Rows, Columns
    <3> QED BY <1>0, <3>1, <3>2, OrdinaryKeeps
  <2>17. CASE TrimListed(t)
    <3>1. CallsProceed
      BY <2>17, EndProceeds, GotoProceeds DEF TrimListed, AppendPoints
    <3> QED BY <1>0, <2>17, <3>1, StillStands, OrdinaryKeeps DEF TrimListed
  <2>18. CASE ListVerifying(t)
    <3>1. CallsProceed
      <4>1. CASE task' = [task EXCEPT ![t] =
                            [Begin(t, "examining") EXCEPT !.pass = TRUE]]
        <5>1. "examining" \notin AppendPoints /\ "examining" # "registering"
          BY DEF AppendPoints
        <5> QED BY <4>1, <5>1, BeginProceeds
      <4> QED BY <2>18, <4>1, FinishProceeds DEF ListVerifying
    <3> QED BY <1>0, <2>18, <3>1, StillStands, OrdinaryKeeps DEF ListVerifying
  <2>19. CASE ExamineVerifying(t)
    <3>1. CallsProceed
      BY <2>19, FinishProceeds, GotoProceeds
         DEF ExamineVerifying, AppendPoints
    <3>2. RowStands
      BY <2>19, StillStands, ReopenStands, FailStands DEF ExamineVerifying
    <3> QED BY <1>0, <3>1, <3>2, OrdinaryKeeps
  <2>20. CASE HeadDurable(t)
    <3>1. CallsProceed
      BY <2>20, FinishProceeds, GotoProceeds DEF HeadDurable, AppendPoints
    <3>2. RowStands BY <2>20, StillStands, FailStands DEF HeadDurable
    <3> QED BY <1>0, <3>1, <3>2, OrdinaryKeeps
  <2> QED
    BY <1>2, <2>1, <2>2, <2>3, <2>4, <2>5, <2>6, <2>7, <2>8, <2>9, <2>10,
       <2>11, <2>12, <2>13, <2>14, <2>15, <2>16, <2>17, <2>18, <2>19, <2>20
       DEF Continue
<1>3. ASSUME NEW t \in Tasks, RunMaintenance(t) PROVE AckInv' /\ Grows
  <2>1. PICK pc \in {"listing", "expiring", "surveying"} :
          task' = [task EXCEPT ![t] = [Begin(t, pc) EXCEPT !.pass = TRUE]]
    BY <1>3 DEF RunMaintenance
  <2>2. CallsProceed BY <2>1, BeginProceeds DEF AppendPoints
  <2> QED BY <1>0, <1>3, <2>2, StillStands, OrdinaryKeeps DEF RunMaintenance
<1>4. CASE Expire
  <2>1. CallsProceed BY <1>4 DEF Expire, CallsProceed, AckInv, Calls
  <2>2. RowStands
    BY <1>4 DEF Expire, RowStands, AckInv, ReservationInv, Rows, Columns
  <2> QED BY <1>0, <2>1, <2>2, OrdinaryKeeps
<1>5. CASE ToggleLifecycle \/ SettleIngestion \/ UNCHANGED vars
  <2>1. CallsProceed
    BY <1>5 DEF ToggleLifecycle, SettleIngestion, vars, CallsProceed, AckInv,
                Calls
  <2>2. RowStands
    BY <1>5, StillStands DEF ToggleLifecycle, SettleIngestion, vars
  <2> QED BY <1>0, <2>1, <2>2, OrdinaryKeeps
<1>6. CASE Crash
  <2>1. CallsProceed
    BY <1>6 DEF Crash, Idle, CallFields, CallsProceed, Proceeds, AppendPoints
  <2> QED BY <1>0, <1>6, <2>1, StillStands, OrdinaryKeeps DEF Crash
<1> QED BY <1>1, <1>2, <1>3, <1>4, <1>5, <1>6 DEF Next

(* No call, no pass of maintenance and no crash takes back an offset that   *)
(* updateChunk acknowledged, as long as the upload keeps its id.            *)
THEOREM AcknowledgedStaysAcknowledged == Spec => AcknowledgementsStand
<1>1. AckInv /\ [Next]_vars => AckInv' BY StepAcks
<1>2. AckInv /\ [Next]_vars =>
        [session'.id = session.id
           => IsPrefix(session.acked, session'.acked)]_vars
  BY StepAcks DEF Grows
<1> QED
  BY InitAcks, <1>1, <1>2, PTL DEF Spec, AcknowledgementsStand

-----------------------------------------------------------------------------
(* Types.  No file and no acknowledgement outgrows the declared size: a call *)
(* that appends was begun below it, and writes one chunk at its offset.      *)

LEMMA ContentLength ==
  ASSUME NEW bytes \in Contents
  PROVE  Len(bytes) \in 0..Declared /\ bytes \in [1..Len(bytes) -> Data]
<1>1. PICK n \in 0..Declared : bytes \in [1..n -> Data]
  BY DEF Contents, Data
<1>2. n \in Nat
  BY <1>1, UploadAssumption
<1>3. bytes \in Seq(Data) /\ Len(bytes) = n
  BY <1>1, <1>2
<1> QED
  BY <1>1, <1>3

LEMMA ContentOf ==
  ASSUME NEW n \in 0..Declared, NEW bytes \in [1..n -> Data]
  PROVE  bytes \in Contents
BY DEF Contents, Data

LEMMA EmptyTyped == <<>> \in Contents /\ 0 \in 0..Declared
<1>1. <<>> \in [1..0 -> Data]
  OBVIOUS
<1>2. 0 \in 0..Declared
  BY UploadAssumption
<1> QED
  BY <1>1, <1>2, ContentOf

LEMMA ResizedTyped ==
  ASSUME NEW bytes \in Contents, NEW n \in 0..Declared
  PROVE  Resized(bytes, n) \in Contents /\ Resized(bytes, n) \in [1..n -> Data]
<1>1. Resized(bytes, n) \in [1..n -> Data]
  BY ContentLength, UploadAssumption DEF Resized, Data
<1> QED
  BY <1>1, ContentOf

LEMMA WrittenTyped ==
  ASSUME NEW bytes \in Contents, NEW n \in 0..Declared, n < Declared,
         NEW c \in Data
  PROVE  Written(bytes, n, c) \in Contents
<1> DEFINE m == IF n < Len(bytes) THEN Len(bytes) ELSE n + 1
<1>1. m \in 0..Declared /\ n + 1 \in 1..m
  BY ContentLength, UploadAssumption
<1>2. Resized(bytes, m) \in [1..m -> Data]
  BY <1>1, ResizedTyped
<1> HIDE DEF m
<1>3. [Resized(bytes, m) EXCEPT ![n + 1] = c] \in [1..m -> Data]
  BY <1>1, <1>2
<1>4. Written(bytes, n, c) = [Resized(bytes, m) EXCEPT ![n + 1] = c]
  BY DEF Written, m
<1> QED
  BY <1>1, <1>3, <1>4, ContentOf

LEMMA AppendedTyped ==
  ASSUME NEW bytes \in Contents, NEW n \in 0..Declared, n < Declared,
         NEW c \in Data
  PROVE  Resized(bytes, n) \o <<c>> \in Contents
<1>1. Resized(bytes, n) \in [1..n -> Data] /\ n \in Nat /\ n + 1 \in 0..Declared
  BY ResizedTyped, UploadAssumption
<1>2. Resized(bytes, n) \in Seq(Data) /\ Len(Resized(bytes, n)) = n
  BY <1>1
<1> DEFINE s == Resized(bytes, n) \o <<c>>
<1>3. s \in Seq(Data) /\ Len(s) = n + 1
  BY <1>1, <1>2
<1> HIDE DEF s
<1>4. s \in [1..(n + 1) -> Data]
  BY <1>3
<1>5. s \in Contents
  BY <1>1, <1>4, ContentOf
<1> QED
  BY <1>5 DEF s

Points == {"idle", "registering", "deleting"} \cup AppendPoints
            \cup CompletePoints \cup RollbackPoints \cup PassPoints
CallTyped(call) ==
  /\ call \in Task
  /\ call.pc \notin {"idle", "listing"} => call.up \in Uploads
  /\ call.pc \in CompletePoints => call.key \in Keys
  /\ call.pc \in AppendPoints => /\ call.received < Declared
                                 /\ \E c \in Chunks : call.content = <<c>>
CallsTyped == task \in [Tasks -> Task] /\ \A t \in Tasks : CallTyped(task[t])
RowTyped == session \in Session /\ (session.status # "none" => session.id \in Uploads)
ReservedTyped == reservation \in [Uploads -> Reservations]
AssetTyped == asset \in Asset
FileTyped == file \in [Uploads -> File]
ServerTyped == server \in [recovered : BOOLEAN, crashes : Nat]

TypeInv == /\ RowTyped /\ ReservedTyped /\ AssetTyped
           /\ FileTyped /\ CallsTyped /\ ServerTyped

LEMMA IdleTyped == Idle \in Task /\ CallTyped(Idle)
BY EmptyTyped DEF Idle, Task, CallTyped, AppendPoints, CompletePoints

LEMMA CallStepTyped ==
  ASSUME CallsTyped, NEW t \in Tasks, NEW call, CallTyped(call),
         task' = [task EXCEPT ![t] = call]
  PROVE  CallsTyped'
BY DEF CallsTyped, CallTyped

LEMMA GotoTyped ==
  ASSUME CallsTyped, NEW t \in Tasks, NEW pc \in Points, Goto(t, pc),
         task[t].pc \notin {"idle", "listing"},
         pc \in AppendPoints => task[t].pc \in AppendPoints,
         pc \in CompletePoints => task[t].pc \in CompletePoints
  PROVE  CallsTyped'
<1> DEFINE call == [task[t] EXCEPT !.pc = pc]
<1>1. CallTyped(call)
  BY DEF CallsTyped, CallTyped, Task, Points
<1>2. task' = [task EXCEPT ![t] = call]
  BY DEF Goto, CallsTyped
<1> HIDE DEF call
<1> QED
  BY <1>1, <1>2, CallStepTyped

LEMMA EndTyped ==
  ASSUME CallsTyped, NEW t \in Tasks, End(t)
  PROVE  CallsTyped'
BY IdleTyped, CallStepTyped DEF End

LEMMA FinishTyped ==
  ASSUME CallsTyped, ServerTyped, NEW t \in Tasks, Finish(t)
  PROVE  CallsTyped' /\ ServerTyped'
<1>1. CallsTyped'
  BY EndTyped DEF Finish
<1>2. task[t].pass \in BOOLEAN
  BY DEF CallsTyped, Task
<1> QED
  BY <1>1, <1>2 DEF Finish, ServerTyped

LEMMA BeginTyped ==
  ASSUME TypeInv, NEW t \in Tasks, NEW pc \in Points \ AppendPoints,
         pc # "listing" => session.id \in Uploads,
         \/ /\ pc \notin CompletePoints
            /\ \/ task' = [task EXCEPT ![t] = Begin(t, pc)]
               \/ task' = [task EXCEPT ![t] = [Begin(t, pc) EXCEPT !.pass = TRUE]]
         \/ \E k \in Keys :
              task' = [task EXCEPT ![t] = [Begin(t, pc) EXCEPT !.key = k]]
  PROVE  CallsTyped'
<1>1. /\ Received \in 0..Declared /\ <<>> \in Contents
      /\ session.version \in Nat /\ session.id \in {0} \cup Uploads
  BY ContentLength, EmptyTyped
     DEF TypeInv, RowTyped, Session, Received
<1>2. ASSUME pc \notin CompletePoints
      PROVE  /\ CallTyped(Begin(t, pc))
             /\ CallTyped([Begin(t, pc) EXCEPT !.pass = TRUE])
  BY <1>1, <1>2 DEF Begin, Idle, CallTyped, Task, Points
<1>3. ASSUME NEW k \in Keys
      PROVE  CallTyped([Begin(t, pc) EXCEPT !.key = k])
  BY <1>1 DEF Begin, Idle, CallTyped, Task, Points
<1> QED
  BY <1>2, <1>3, CallStepTyped DEF TypeInv

LEMMA MovedTyped ==
  ASSUME RowTyped, NEW status \in Pending \cup Terminal,
         session' = session
           \/ (session' = Moved(status) /\ session.status # "none")
  PROVE  RowTyped'
<1>1. CASE session' = session
  BY <1>1 DEF RowTyped
<1>2. CASE session' = Moved(status) /\ session.status # "none"
  <2>1. session' = [id |-> session.id, status |-> status,
                    acked |-> session.acked, due |-> session.due,
                    version |-> session.version + 1]
    BY <1>2 DEF RowTyped, Moved, Session
  <2> QED
    BY <1>2, <2>1 DEF RowTyped, Session
<1> QED
  BY <1>1, <1>2

LEMMA SettledTyped ==
  ASSUME ReservedTyped, NEW u, NEW status \in Reservations,
         SettleReservation(u, status)
  PROVE  ReservedTyped'
BY DEF ReservedTyped, SettleReservation

LEMMA FailAssetTyped ==
  ASSUME AssetTyped, NEW from, FailAsset(from)
  PROVE  AssetTyped'
BY DEF AssetTyped, FailAsset, Asset

LEMMA BytesTyped ==
  ASSUME FileTyped, NEW u, NEW bytes, u \in Uploads => bytes \in Contents,
         SetBytes(u, bytes)
  PROVE  FileTyped'
BY DEF FileTyped, SetBytes, File

LEMMA RowsSame ==
  ASSUME TypeInv, UNCHANGED <<session, reservation, asset>>
  PROVE  RowTyped' /\ ReservedTyped' /\ AssetTyped'
BY DEF TypeInv, RowTyped, ReservedTyped, AssetTyped

LEMMA ReopenTyped ==
  ASSUME TypeInv, NEW t \in Tasks,
         ReopenUpload(t) \/ ReopenVerifying(t) \/ Restored(t)
  PROVE  RowTyped' /\ ReservedTyped' /\ AssetTyped'
<1>1. /\ session' = session \/ (session' = Moved("open") /\ Verifying(t))
      /\ UNCHANGED <<reservation, asset>>
  BY DEF ReopenUpload, ReopenVerifying, Restored, Throws
<1>2. RowTyped'
  BY <1>1, MovedTyped DEF TypeInv, Verifying, Pending
<1> QED
  BY <1>1, <1>2 DEF TypeInv, ReservedTyped, AssetTyped

LEMMA NotRestoredTyped ==
  ASSUME TypeInv, NEW t \in Tasks,
         RejectUpload(t) \/ FailVerifying(t) \/ NotRestored(t)
  PROVE  RowTyped' /\ ReservedTyped' /\ AssetTyped'
<1>1. CASE UNCHANGED <<session, reservation, asset>>
  BY <1>1, RowsSame
<1>2. CASE /\ MovedIf(Verifying(t), "rejected")
           /\ SettleReservation(task[t].up, "released")
           /\ \E from : FailAsset(from)
  <2>1. RowTyped'
    BY <1>2, MovedTyped DEF TypeInv, MovedIf, Verifying, Terminal
  <2> QED
    BY <1>2, <2>1, SettledTyped, FailAssetTyped DEF TypeInv, Reservations
<1> QED
  BY <1>1, <1>2 DEF RejectUpload, FailVerifying, NotRestored, Throws

LEMMA InitTyped == Init => TypeInv
BY EmptyTyped, IdleTyped
     DEF Init, TypeInv, RowTyped, Session, ReservedTyped, Reservations,
         AssetTyped, Asset, FileTyped, File, CallsTyped, ServerTyped

LEMMA AppendTyped ==
  ASSUME TypeInv, NEW t \in Tasks,
         \/ AppendChunk(t) \/ StatStaging(t) \/ TruncateStaging(t)
         \/ OpenStaging(t) \/ WriteStaging(t) \/ UpdateChunk(t)
  PROVE  TypeInv'
<1> USE DEF TypeInv
<1>1. ServerTyped'
  BY DEF ServerTyped, AppendChunk, StatStaging, TruncateStaging, OpenStaging,
         WriteStaging, UpdateChunk
<1>2. CASE AppendChunk(t)
  <2>1. PICK c \in Chunks :
          task' = [task EXCEPT ![t] =
                     [Begin(t, "statting") EXCEPT !.content = <<c>>]]
    BY <1>2 DEF AppendChunk
  <2>2. <<c>> \in Contents
    <3>1. <<c>> \in [1..1 -> Data] /\ 1 \in 0..Declared
      BY UploadAssumption DEF Data
    <3> QED
      BY <3>1, ContentOf
  <2>3. /\ Received \in 0..Declared /\ session.version \in Nat
        /\ session.id \in Uploads /\ Received < Declared
    BY <1>2, ContentLength DEF AppendChunk, RowTyped, Session, Received
  <2>4. CallTyped([Begin(t, "statting") EXCEPT !.content = <<c>>])
    BY <2>2, <2>3 DEF Begin, Idle, CallTyped, Task, AppendPoints,
                      CompletePoints
  <2>5. CallsTyped'
    BY <2>1, <2>4, CallStepTyped
  <2> QED
    BY <1>1, <1>2, <2>5, RowsSame DEF AppendChunk, FileTyped
<1>3. CASE StatStaging(t) \/ OpenStaging(t)
  <2>1. CallsTyped'
    BY <1>3, EndTyped, GotoTyped
       DEF StatStaging, OpenStaging, At, Points, AppendPoints, CompletePoints
  <2> QED
    BY <1>1, <1>3, <2>1, RowsSame DEF StatStaging, OpenStaging, FileTyped
<1>4. CASE TruncateStaging(t)
  <2>1. CallsTyped'
    BY <1>4, EndTyped, GotoTyped DEF TruncateStaging, At, Points,
                                     AppendPoints, CompletePoints
  <2>2. task[t].up \in Uploads /\ task[t].received \in 0..Declared
    BY <1>4 DEF TruncateStaging, At, CallsTyped, CallTyped, Task
  <2>3. Resized(Inode(t).bytes, task[t].received) \in Contents
    BY <2>2, ResizedTyped DEF Inode, FileTyped, File
  <2>4. FileTyped'
    BY <1>4, <2>3, BytesTyped DEF TruncateStaging, FileTyped
  <2> QED
    BY <1>1, <1>4, <2>1, <2>4, RowsSame DEF TruncateStaging
<1>5. CASE WriteStaging(t)
  <2>1. CallsTyped'
    BY <1>5, GotoTyped DEF WriteStaging, At, Points, AppendPoints,
                           CompletePoints
  <2>2. /\ task[t].up \in Uploads /\ task[t].received \in 0..Declared
        /\ task[t].received < Declared /\ task[t].content[1] \in Data
    BY <1>5 DEF WriteStaging, At, CallsTyped, CallTyped, Task, AppendPoints,
                CompletePoints, Data
  <2>3. Written(Inode(t).bytes, task[t].received, task[t].content[1]) \in Contents
    BY <2>2, WrittenTyped DEF Inode, FileTyped, File
  <2>4. FileTyped'
    BY <1>5, <2>3, BytesTyped DEF WriteStaging
  <2> QED
    BY <1>1, <1>5, <2>1, <2>4, RowsSame DEF WriteStaging
<1>6. CASE UpdateChunk(t)
  <2>1. CallsTyped'
    BY <1>6, EndTyped DEF UpdateChunk
  <2>2. PICK c \in Chunks : task[t].content = <<c>>
    BY <1>6 DEF UpdateChunk, At, CallsTyped, CallTyped, AppendPoints,
                CompletePoints
  <2>3. task[t].received \in 0..Declared /\ task[t].received < Declared
    BY <1>6 DEF UpdateChunk, At, CallsTyped, CallTyped, AppendPoints,
                CompletePoints, Task
  <2>4. Resized(session.acked, task[t].received) \o <<c>> \in Contents
    BY <2>3, AppendedTyped DEF RowTyped, Session, Data
  <2>5. RowTyped'
    <3>1. CASE session' = session
      BY <3>1 DEF RowTyped
    <3>2. CASE session' = [session EXCEPT
                             !.acked = Resized(@, task[t].received) \o <<c>>,
                             !.version = @ + 1]
      <4> DEFINE acked == Resized(session.acked, task[t].received) \o <<c>>
      <4>1. session' = [id |-> session.id, status |-> session.status,
                        acked |-> acked, due |-> session.due,
                        version |-> session.version + 1]
        BY <3>2 DEF RowTyped, Session
      <4>2. acked \in Contents
        BY <2>4
      <4> HIDE DEF acked
      <4> QED
        BY <4>1, <4>2 DEF RowTyped, Session
    <3> QED
      BY <1>6, <2>2, <3>1, <3>2 DEF UpdateChunk
  <2> QED
    BY <1>1, <1>6, <2>1, <2>5
       DEF UpdateChunk, ReservedTyped, AssetTyped, FileTyped
<1> QED
  BY <1>2, <1>3, <1>4, <1>5, <1>6

LEMMA CompleteTyped ==
  ASSUME TypeInv, NEW t \in Tasks,
         \/ CompleteUpload(t) \/ CheckStaging(t) \/ Inspect(t)
         \/ LinkDurable(t) \/ UnlinkStaging(t) \/ CommitUpload(t)
         \/ RestoreStaging(t) \/ UnlinkDurable(t)
  PROVE  TypeInv'
<1> USE DEF TypeInv
<1>1. CASE CompleteUpload(t)
  <2>1. session.id \in Uploads /\ session.status # "none"
    BY <1>1 DEF CompleteUpload, RowTyped
  <2>2. \E k \in Keys :
          task' = [task EXCEPT ![t] = [Begin(t, "checking") EXCEPT !.key = k]]
    BY <1>1 DEF CompleteUpload
  <2>4. "checking" \in Points \ AppendPoints
    BY DEF Points, AppendPoints, CompletePoints
  <2>5. CallsTyped'
    BY <2>1, <2>2, <2>4, BeginTyped
  <2>3. RowTyped'
    BY <1>1, <2>1, MovedTyped DEF CompleteUpload, Pending
  <2> QED
    BY <1>1, <2>3, <2>5
       DEF CompleteUpload, ReservedTyped, AssetTyped, FileTyped, ServerTyped
<1>2. CASE CheckStaging(t)
  <2>1. CallsTyped'
    BY <1>2, EndTyped, GotoTyped
       DEF CheckStaging, At, Points, AppendPoints, CompletePoints
  <2> QED
    BY <1>2, <2>1, RowsSame, NotRestoredTyped
       DEF CheckStaging, FileTyped, ServerTyped
<1>3. CASE Inspect(t)
  <2>1. ASSUME task' = [task EXCEPT ![t].pc = "linking",
                                    ![t].content = Inode(t).bytes]
        PROVE  CallsTyped'
    <3> DEFINE call == [task[t] EXCEPT !.pc = "linking",
                                       !.content = Inode(t).bytes]
    <3>1. /\ task[t] \in Task /\ task[t].up \in Uploads
          /\ task[t].key \in Keys /\ Inode(t).bytes \in Contents
      BY <1>3 DEF Inspect, At, CallsTyped, CallTyped, Inode, FileTyped, File,
                  CompletePoints
    <3>2. CallTyped(call)
      BY <3>1 DEF CallTyped, Task, AppendPoints, CompletePoints
    <3>3. task' = [task EXCEPT ![t] = call]
      BY <2>1 DEF CallsTyped
    <3> HIDE DEF call
    <3> QED
      BY <3>2, <3>3, CallStepTyped
  <2>2. CallsTyped'
    BY <1>3, <2>1, EndTyped DEF Inspect
  <2> QED
    BY <1>3, <2>2, RowsSame, NotRestoredTyped, ReopenTyped
       DEF Inspect, FileTyped, ServerTyped
<1>4. CASE LinkDurable(t) \/ UnlinkStaging(t)
  <2>1. CallsTyped'
    BY <1>4, GotoTyped
       DEF LinkDurable, UnlinkStaging, Catch, At, Points, AppendPoints,
           CompletePoints, RollbackPoints
  <2>2. FileTyped'
    <3>1. CASE UNCHANGED file
      BY <3>1 DEF FileTyped
    <3>2. CASE file' = [file EXCEPT ![task[t].up].durable = TRUE]
      BY <3>2 DEF FileTyped, File
    <3>3. CASE file' = [file EXCEPT ![task[t].up].staged = FALSE]
      BY <3>3 DEF FileTyped, File
    <3> QED
      BY <1>4, <3>1, <3>2, <3>3 DEF LinkDurable, UnlinkStaging
  <2> QED
    BY <1>4, <2>1, <2>2, RowsSame DEF LinkDurable, UnlinkStaging, ServerTyped
<1>5. CASE CommitUpload(t)
  <2>1. CallsTyped'
    BY <1>5, EndTyped, GotoTyped
       DEF CommitUpload, Catch, At, Points, AppendPoints, CompletePoints,
           RollbackPoints
  <2>2. task[t].content \in Contents
    BY DEF CallsTyped, Task
  <2>3. RowTyped' /\ ReservedTyped' /\ AssetTyped'
    <3>1. CASE UNCHANGED <<session, asset, reservation>>
      BY <3>1, RowsSame
    <3>2. CASE Committable(t) /\ session' = Moved("completed")
               /\ asset' = [asset EXCEPT !.ingestion = "processing",
                                         !.checksum = task[t].content]
               /\ reservation' = [reservation EXCEPT ![task[t].up] = "consumed"]
      BY <2>2, <3>2, MovedTyped
         DEF Committable, Verifying, Terminal, ReservedTyped, Reservations,
             AssetTyped, Asset
    <3> QED
      BY <1>5, <3>1, <3>2 DEF CommitUpload
  <2> QED
    BY <1>5, <2>1, <2>3 DEF CommitUpload, FileTyped, ServerTyped
<1>6. CASE RestoreStaging(t)
  <2>1. CallsTyped' /\ ServerTyped'
    BY <1>6, FinishTyped, GotoTyped
       DEF RestoreStaging, At, Points, AppendPoints, CompletePoints,
           RollbackPoints, ServerTyped
  <2>2. FileTyped'
    BY <1>6 DEF RestoreStaging, FileTyped, File
  <2> QED
    BY <1>6, <2>1, <2>2, RowsSame, ReopenTyped, NotRestoredTyped
       DEF RestoreStaging
<1>7. CASE UnlinkDurable(t)
  <2>1. FileTyped'
    BY <1>7 DEF UnlinkDurable, FileTyped, File
  <2> QED
    BY <1>7, <2>1, FinishTyped, ReopenTyped, NotRestoredTyped DEF UnlinkDurable
<1> QED
  BY <1>1, <1>2, <1>3, <1>4, <1>5, <1>6, <1>7

LEMMA PassTyped ==
  ASSUME TypeInv, NEW t \in Tasks,
         \/ RunMaintenance(t) \/ ExpireListed(t) \/ SurveyListed(t)
         \/ TrimListed(t) \/ ListVerifying(t) \/ ExamineVerifying(t)
         \/ HeadDurable(t)
  PROVE  TypeInv'
<1> USE DEF TypeInv
<1>1. CASE RunMaintenance(t)
  <2>1. PICK pc \in {"listing", "expiring", "surveying"} :
          /\ task' = [task EXCEPT ![t] = [Begin(t, pc) EXCEPT !.pass = TRUE]]
          /\ pc # "listing" => session.status = "open"
    BY <1>1 DEF RunMaintenance
  <2>2. CallsTyped'
    BY <2>1, BeginTyped DEF Points, AppendPoints, CompletePoints, PassPoints,
                            RowTyped
  <2> QED
    BY <1>1, <2>2, RowsSame DEF RunMaintenance, FileTyped, ServerTyped
<1>2. CASE ExpireListed(t)
  <2>1. CallsTyped'
    BY <1>2, GotoTyped DEF ExpireListed, At, Points, AppendPoints,
                           CompletePoints, PassPoints
  <2>2. RowTyped'
    BY <1>2, MovedTyped DEF ExpireListed, StillOpen, Terminal
  <2>3. ReservedTyped'
    BY <1>2, SettledTyped DEF ExpireListed, ReservedTyped, Reservations
  <2> QED
    BY <1>2, <2>1, <2>2, <2>3
       DEF ExpireListed, AssetTyped, FileTyped, ServerTyped
<1>3. CASE SurveyListed(t)
  <2>1. CallsTyped'
    BY <1>3, GotoTyped DEF SurveyListed, At, Points, AppendPoints,
                           CompletePoints, PassPoints
  <2>2. RowTyped'
    BY <1>3, MovedTyped DEF SurveyListed, MovedIf, StillOpen, Terminal
  <2>3. ReservedTyped'
    BY <1>3, SettledTyped DEF SurveyListed, ReservedTyped, Reservations
  <2>4. AssetTyped'
    BY <1>3 DEF SurveyListed, AssetTyped, Asset
  <2> QED
    BY <1>3, <2>1, <2>2, <2>3, <2>4 DEF SurveyListed, FileTyped, ServerTyped
<1>4. CASE TrimListed(t)
  <2>1. CallsTyped'
    BY <1>4, EndTyped, GotoTyped
       DEF TrimListed, At, Points, AppendPoints, CompletePoints, PassPoints
  <2>2. task[t].up \in Uploads /\ task[t].received \in 0..Declared
    BY <1>4 DEF TrimListed, At, CallsTyped, CallTyped, Task
  <2>3. Resized(Inode(t).bytes, task[t].received) \in Contents
    BY <2>2, ResizedTyped DEF Inode, FileTyped, File
  <2>4. FileTyped'
    BY <1>4, <2>3, BytesTyped DEF TrimListed, FileTyped
  <2> QED
    BY <1>4, <2>1, <2>4, RowsSame DEF TrimListed, ServerTyped
<1>5. CASE ListVerifying(t)
  <2>1. CASE session.status = "verifying"
    <3>1. CallsTyped'
      BY <1>5, <2>1, BeginTyped
         DEF ListVerifying, Points, AppendPoints, CompletePoints, PassPoints,
             RowTyped
    <3> QED
      BY <1>5, <2>1, <3>1, RowsSame DEF ListVerifying, FileTyped, ServerTyped
  <2>2. CASE session.status # "verifying"
    BY <1>5, <2>2, FinishTyped, RowsSame DEF ListVerifying, FileTyped
  <2> QED
    BY <2>1, <2>2
<1>6. CASE ExamineVerifying(t) \/ HeadDurable(t)
  <2>1. CallsTyped' /\ ServerTyped'
    BY <1>6, FinishTyped, GotoTyped
       DEF ExamineVerifying, HeadDurable, At, Points, AppendPoints,
           CompletePoints, PassPoints,
           RollbackPoints, ServerTyped
  <2> QED
    BY <1>6, <2>1, RowsSame, ReopenTyped, NotRestoredTyped
       DEF ExamineVerifying, HeadDurable, FileTyped
<1> QED
  BY <1>1, <1>2, <1>3, <1>4, <1>5, <1>6

LEMMA OtherTyped ==
  ASSUME TypeInv, NEW t \in Tasks,
         Stage(t) \/ Register(t) \/ Delete(t) \/ AbortUpload(t)
  PROVE  TypeInv'
<1> USE DEF TypeInv
<1>1. CASE Stage(t)
  <2>1. PICK u \in Uploads :
          /\ file' = [file EXCEPT ![u].staged = TRUE]
          /\ task' = [task EXCEPT ![t] =
                        [Idle EXCEPT !.pc = "registering", !.up = u]]
    BY <1>1 DEF Stage, Fresh
  <2>2. CallTyped([Idle EXCEPT !.pc = "registering", !.up = u])
    BY IdleTyped DEF CallTyped, Task, Idle, AppendPoints, CompletePoints
  <2>3. CallsTyped' /\ FileTyped'
    BY <2>1, <2>2, CallStepTyped DEF FileTyped, File
  <2> QED
    BY <1>1, <2>3, RowsSame DEF Stage, ServerTyped
<1>2. CASE Register(t)
  <2>1. task[t].up \in Uploads /\ task[t].pc = "registering"
    BY <1>2 DEF Register, At, CallsTyped, CallTyped
  <2>2. CASE Goto(t, "deleting") /\ UNCHANGED <<session, reservation, asset>>
    <3>1. CallsTyped'
      BY <2>1, <2>2, GotoTyped DEF Points, AppendPoints, CompletePoints
    <3> QED
      BY <1>2, <2>2, <3>1, RowsSame DEF Register, FileTyped, ServerTyped
  <2>3. CASE /\ session' = [id |-> task[t].up, status |-> "open",
                            acked |-> <<>>, due |-> FALSE,
                            version |-> session.version + 1]
             /\ reservation' = [reservation EXCEPT ![task[t].up] = "reserved"]
             /\ asset' = [asset EXCEPT !.ingestion = "uploading",
                                       !.checksum = <<>>]
             /\ task' = [task EXCEPT ![t] = IF session.id = 0 THEN Idle
                           ELSE [@ EXCEPT !.pc = "deleting", !.up = session.id]]
    <3>1. RowTyped'
      BY <2>1, <2>3, EmptyTyped DEF RowTyped, Session, Pending
    <3>2. ReservedTyped' /\ AssetTyped'
      BY <2>3, EmptyTyped
         DEF ReservedTyped, Reservations, AssetTyped, Asset
    <3> DEFINE call == IF session.id = 0 THEN Idle
                       ELSE [task[t] EXCEPT !.pc = "deleting",
                                            !.up = session.id]
    <3>3. CallTyped(call)
      BY IdleTyped DEF CallsTyped, CallTyped, Task, RowTyped, Session,
                       AppendPoints, CompletePoints
    <3>4. task' = [task EXCEPT ![t] = call]
      BY <2>3 DEF CallsTyped
    <3> HIDE DEF call
    <3>5. CallsTyped'
      BY <3>3, <3>4, CallStepTyped
    <3> QED
      BY <1>2, <3>1, <3>2, <3>5 DEF Register, FileTyped, ServerTyped
  <2> QED
    BY <1>2, <2>2, <2>3 DEF Register
<1>3. CASE Delete(t)
  <2>1. CallsTyped'
    BY <1>3, EndTyped, GotoTyped DEF Delete, At, Points, AppendPoints,
                                     CompletePoints, PassPoints
  <2>2. FileTyped'
    BY <1>3 DEF Delete, FileTyped, File
  <2> QED
    BY <1>3, <2>1, <2>2, RowsSame DEF Delete, ServerTyped
<1>4. CASE AbortUpload(t)
  <2>1. session.status # "none" /\ session.id \in Uploads
    BY <1>4 DEF AbortUpload, RowTyped
  <2>2. CallsTyped'
    BY <1>4, <2>1, BeginTyped DEF AbortUpload, Points, AppendPoints,
                                  CompletePoints
  <2>3. RowTyped'
    BY <1>4, <2>1, MovedTyped DEF AbortUpload, MovedIf, Terminal
  <2>4. ReservedTyped'
    BY <1>4, SettledTyped DEF AbortUpload, Reservations
  <2> QED
    BY <1>4, <2>2, <2>3, <2>4 DEF AbortUpload, AssetTyped, FileTyped,
                                  ServerTyped
<1> QED
  BY <1>1, <1>2, <1>3, <1>4

LEMMA StepTyped == TypeInv /\ [Next]_vars => TypeInv'
<1> SUFFICES ASSUME TypeInv, [Next]_vars PROVE TypeInv'
  OBVIOUS
<1>1. ASSUME NEW t \in Tasks, Request(t) \/ RunMaintenance(t) \/ Continue(t)
      PROVE  TypeInv'
  BY <1>1, AppendTyped, CompleteTyped, PassTyped, OtherTyped
     DEF Request, Continue
<1>2. CASE Expire
  BY <1>2 DEF Expire, TypeInv, RowTyped, Session, ReservedTyped, AssetTyped,
              FileTyped, CallsTyped, CallTyped, ServerTyped
<1>3. CASE ToggleLifecycle \/ SettleIngestion
  <2>1. AssetTyped'
    BY <1>3 DEF ToggleLifecycle, SettleIngestion, TypeInv, AssetTyped, Asset
  <2> QED
    BY <1>3, <2>1
       DEF ToggleLifecycle, SettleIngestion, TypeInv, RowTyped, ReservedTyped,
           FileTyped, CallsTyped, CallTyped, ServerTyped
<1>4. CASE Crash
  <2>1. CallsTyped'
    BY <1>4, IdleTyped DEF Crash, CallsTyped
  <2>2. ServerTyped'
    BY <1>4 DEF Crash, TypeInv, ServerTyped
  <2> QED
    BY <1>4, <2>1, <2>2, RowsSame DEF Crash, TypeInv, FileTyped
<1>5. CASE UNCHANGED vars
  BY <1>5 DEF vars, TypeInv, RowTyped, ReservedTyped, AssetTyped, FileTyped,
              CallsTyped, CallTyped, ServerTyped
<1> QED
  BY <1>1, <1>2, <1>3, <1>4, <1>5 DEF Next

(* The records of the answers. *)
RecordTyped == record \in [Uploads -> [Keys -> Records]]

(* What every step but the commit of a completion does to the records.      *)
AnswersSame ==
  \A u \in Uploads : \A k \in Keys :
    record'[u][k] = "completed" <=> record[u][k] = "completed"

LEMMA MarksTyped ==
  ASSUME RecordTyped, NEW t \in Tasks, NEW u,
         \/ UNCHANGED record
         \/ MarkRetryableFailure(t)
         \/ MarkRetryableForUpload(u)
  PROVE  RecordTyped' /\ AnswersSame
<1>1. CASE UNCHANGED record
  BY <1>1 DEF RecordTyped, AnswersSame
<1>2. CASE MarkRetryableFailure(t)
  BY <1>2 DEF RecordTyped, AnswersSame, MarkRetryableFailure, Records
<1>3. CASE MarkRetryableForUpload(u)
  BY <1>3 DEF RecordTyped, AnswersSame, MarkRetryableForUpload, Records
<1> QED
  BY <1>1, <1>2, <1>3

LEMMA EndedTyped ==
  ASSUME RecordTyped, NEW t \in Tasks,
         \/ ReopenUpload(t) \/ ReopenVerifying(t) \/ Restored(t)
         \/ RejectUpload(t) \/ FailVerifying(t) \/ NotRestored(t)
  PROVE  RecordTyped' /\ AnswersSame
BY MarksTyped DEF ReopenUpload, ReopenVerifying, Restored, RejectUpload,
                  FailVerifying, NotRestored, Throws

LEMMA BegunTyped ==
  ASSUME RecordTyped, NEW t \in Tasks, CompleteUpload(t)
  PROVE  RecordTyped' /\ AnswersSame
<1>1. PICK k \in Keys :
        /\ record[session.id][k] \in {"absent", "failed"}
        /\ record' = [record EXCEPT ![session.id][k] =
                        IF @ = "absent" THEN "in_progress" ELSE @]
  BY DEF CompleteUpload
<1> QED
  BY <1>1 DEF RecordTyped, AnswersSame, Records

Commits(t) ==
  /\ At(t, "committing")
  /\ Committable(t)
  /\ session' = Moved("completed")
  /\ asset' = [asset EXCEPT !.ingestion = "processing",
                            !.checksum = task[t].content]
  /\ reservation' = [reservation EXCEPT ![task[t].up] = "consumed"]
  /\ record' = [record EXCEPT ![task[t].up][task[t].key] = "completed"]

LEMMA RecordsStep ==
  ASSUME RecordTyped, [Next]_vars
  PROVE  /\ RecordTyped'
         /\ AnswersSame \/ \E t \in Tasks : Commits(t)
<1>1. ASSUME UNCHANGED record
      PROVE  RecordTyped' /\ AnswersSame
  BY <1>1 DEF RecordTyped, AnswersSame
<1>2. ASSUME NEW t \in Tasks, Request(t)
      PROVE  RecordTyped' /\ AnswersSame
  BY <1>1, <1>2, BegunTyped DEF Request, Stage, AppendChunk, AbortUpload
<1>3. ASSUME NEW t \in Tasks, RunMaintenance(t)
      PROVE  RecordTyped' /\ AnswersSame
  BY <1>1, <1>3 DEF RunMaintenance
<1>4. ASSUME NEW t \in Tasks, Continue(t)
      PROVE  RecordTyped' /\ (AnswersSame \/ Commits(t))
  <2>1. CASE \/ Register(t) \/ Delete(t) \/ StatStaging(t)
             \/ TruncateStaging(t) \/ OpenStaging(t) \/ WriteStaging(t)
             \/ UpdateChunk(t) \/ LinkDurable(t) \/ UnlinkStaging(t)
             \/ ExpireListed(t) \/ SurveyListed(t) \/ TrimListed(t)
             \/ ListVerifying(t)
    BY <1>1, <2>1
       DEF Register, Delete, StatStaging, TruncateStaging, OpenStaging,
           WriteStaging, UpdateChunk, LinkDurable, UnlinkStaging,
           ExpireListed, SurveyListed, TrimListed, ListVerifying
  <2>2. CASE \/ CheckStaging(t) \/ Inspect(t) \/ RestoreStaging(t)
             \/ UnlinkDurable(t) \/ ExamineVerifying(t) \/ HeadDurable(t)
    BY <1>1, <2>2, EndedTyped
       DEF CheckStaging, Inspect, RestoreStaging, UnlinkDurable,
           ExamineVerifying, HeadDurable
  <2>3. CASE CommitUpload(t)
    <3>1. CASE UNCHANGED record
      BY <1>1, <3>1
    <3>2. CASE Commits(t)
      BY <3>2 DEF Commits, RecordTyped, Records
    <3> QED
      BY <2>3, <3>1, <3>2 DEF CommitUpload, Commits
  <2> QED
    BY <1>4, <2>1, <2>2, <2>3 DEF Continue
<1>5. CASE \/ Expire \/ ToggleLifecycle \/ SettleIngestion \/ Crash
           \/ UNCHANGED vars
  BY <1>1, <1>5 DEF Expire, ToggleLifecycle, SettleIngestion, Crash, vars
<1> QED
  BY <1>2, <1>3, <1>4, <1>5 DEF Next

(* Rows, files and calls keep their types; no file and no acknowledgement   *)
(* ever holds more than the declared size.                                  *)
THEOREM TypeCorrect == Spec => []TypeOK
<1>1. Init => RecordTyped
  BY DEF Init, RecordTyped, Records
<1>2. TypeInv /\ RecordTyped => TypeOK
  BY DEF TypeInv, TypeOK, RowTyped, ReservedTyped, AssetTyped, FileTyped,
         CallsTyped, ServerTyped, RecordTyped
<1> QED
  BY InitTyped, StepTyped, RecordsStep, <1>1, <1>2, PTL DEF Spec

-----------------------------------------------------------------------------
(* Answers.  A step that leaves the answers alone consumes no reservation    *)
(* and moves no Asset past its upload.                                      *)

Uploaded == asset.ingestion \in {"processing", "ready"} =>
              session.id \in Uploads
AnswerInv == /\ AckInv /\ TypeInv /\ RecordTyped
             /\ AnswersFollowUploads /\ Uploaded

ConsumedSame == \A u \in Uploads :
                  reservation'[u] = "consumed" <=> reservation[u] = "consumed"
AssetStands == asset'.ingestion \in {"processing", "ready"} =>
                 asset.ingestion \in {"processing", "ready"}
Settles == session'.id = session.id /\ ConsumedSame /\ AssetStands

LEMMA SettlesKeeps ==
  ASSUME AnswersFollowUploads, Uploaded, AnswersSame, Settles
  PROVE  AnswersFollowUploads' /\ Uploaded'
BY DEF AnswersFollowUploads, Uploaded, AnswersSame, Settles, ConsumedSame,
       AssetStands

LEMMA StillSettles ==
  ASSUME UNCHANGED <<session, reservation, asset>>
  PROVE  Settles
BY DEF Settles, ConsumedSame, AssetStands

LEMMA MovedKeeps ==
  ASSUME TypeInv, NEW status, session' = session \/ session' = Moved(status)
  PROVE  session'.id = session.id
BY DEF TypeInv, RowTyped, Session, Moved

LEMMA ReleaseKeeps ==
  ASSUME TypeInv, NEW u, NEW status \in {"released", "expired"},
         SettleReservation(u, status)
  PROVE  ConsumedSame
BY DEF TypeInv, ReservedTyped, SettleReservation, ConsumedSame

LEMMA FailedStands ==
  ASSUME TypeInv, NEW from, FailAsset(from)
  PROVE  AssetStands
BY DEF TypeInv, AssetTyped, Asset, FailAsset, AssetStands

LEMMA EndedSettles ==
  ASSUME TypeInv, NEW t \in Tasks,
         \/ ReopenUpload(t) \/ ReopenVerifying(t) \/ Restored(t)
         \/ RejectUpload(t) \/ FailVerifying(t) \/ NotRestored(t)
  PROVE  Settles
<1>1. CASE UNCHANGED <<session, reservation, asset>>
  BY <1>1, StillSettles
<1>2. CASE session' = Moved("open") /\ UNCHANGED <<reservation, asset>>
  BY <1>2, MovedKeeps DEF Settles, ConsumedSame, AssetStands
<1>3. CASE /\ MovedIf(Verifying(t), "rejected")
           /\ SettleReservation(task[t].up, "released")
           /\ \E from : FailAsset(from)
  BY <1>3, MovedKeeps, ReleaseKeeps, FailedStands DEF MovedIf, Settles
<1> QED
  BY <1>1, <1>2, <1>3
     DEF ReopenUpload, ReopenVerifying, Restored, RejectUpload, FailVerifying,
         NotRestored, Throws

(* A registering id has no reservation yet, hence no answer either.         *)
LEMMA RegisterAnswers ==
  ASSUME AnswerInv, NEW t \in Tasks, Register(t), AnswersSame
  PROVE  AnswersFollowUploads' /\ Uploaded'
<1>1. CASE UNCHANGED <<session, reservation, asset>>
  BY <1>1, StillSettles, SettlesKeeps DEF AnswerInv
<1>2. CASE /\ reservation' = [reservation EXCEPT ![task[t].up] = "reserved"]
           /\ asset' = [asset EXCEPT !.ingestion = "uploading",
                                     !.checksum = <<>>]
  <2>1. task[t].up \in Uploads /\ reservation[task[t].up] = "none"
    BY DEF Register, AnswerInv, AckInv, FreshIds, At
  <2>2. ConsumedSame
    BY <1>2, <2>1 DEF AnswerInv, TypeInv, ReservedTyped, ConsumedSame
  <2>3. asset'.ingestion = "uploading"
    BY <1>2 DEF AnswerInv, TypeInv, AssetTyped, Asset
  <2> QED
    BY <2>2, <2>3
       DEF AnswerInv, AnswersFollowUploads, Uploaded, AnswersSame, ConsumedSame
<1> QED
  BY <1>1, <1>2 DEF Register

(* The commit consumes, answers and moves the Asset on, for one upload id.  *)
LEMMA CommitAnswers ==
  ASSUME AnswerInv, NEW t \in Tasks, Commits(t)
  PROVE  AnswersFollowUploads' /\ Uploaded'
<1>1. /\ task[t].up \in Uploads
      /\ task[t].key \in Keys
  BY DEF Commits, At, AnswerInv, TypeInv, CallsTyped, CallTyped,
         CompletePoints
<1>2. session'.id = task[t].up
  BY MovedKeeps DEF Commits, Committable, Verifying, Names, AnswerInv
<1>3. /\ reservation'[task[t].up] = "consumed"
      /\ \A u \in Uploads : u # task[t].up => reservation'[u] = reservation[u]
  BY <1>1 DEF Commits, AnswerInv, TypeInv, ReservedTyped
<1>4. /\ record'[task[t].up][task[t].key] = "completed"
      /\ \A u \in Uploads : u # task[t].up => record'[u] = record[u]
  BY <1>1 DEF Commits, AnswerInv, RecordTyped
<1> QED
  BY <1>1, <1>2, <1>3, <1>4 DEF AnswerInv, AnswersFollowUploads, Uploaded

LEMMA RequestAnswers ==
  ASSUME TypeInv, NEW t \in Tasks, Request(t)
  PROVE  Settles
<1>1. CASE Stage(t) \/ AppendChunk(t)
  BY <1>1, StillSettles DEF Stage, AppendChunk
<1>2. CASE CompleteUpload(t)
  BY <1>2, MovedKeeps DEF CompleteUpload, Settles, ConsumedSame, AssetStands
<1>3. CASE AbortUpload(t)
  BY <1>3, MovedKeeps, ReleaseKeeps
     DEF AbortUpload, MovedIf, Settles, AssetStands
<1> QED
  BY <1>1, <1>2, <1>3 DEF Request

LEMMA ContinueAnswers ==
  ASSUME TypeInv, NEW t \in Tasks, Continue(t), ~Register(t), ~Commits(t)
  PROVE  Settles
<1>1. CASE \/ Delete(t) \/ StatStaging(t) \/ TruncateStaging(t)
           \/ OpenStaging(t) \/ WriteStaging(t) \/ LinkDurable(t)
           \/ UnlinkStaging(t) \/ TrimListed(t) \/ ListVerifying(t)
  BY <1>1, StillSettles
     DEF Delete, StatStaging, TruncateStaging, OpenStaging, WriteStaging,
         LinkDurable, UnlinkStaging, TrimListed, ListVerifying
<1>2. CASE UpdateChunk(t)
  <2>1. session'.id = session.id
    BY <1>2 DEF UpdateChunk, TypeInv, RowTyped, Session
  <2> QED
    BY <1>2, <2>1 DEF UpdateChunk, Settles, ConsumedSame, AssetStands
<1>3. CASE \/ CheckStaging(t) \/ Inspect(t) \/ RestoreStaging(t)
           \/ UnlinkDurable(t) \/ ExamineVerifying(t) \/ HeadDurable(t)
  BY <1>3, StillSettles, EndedSettles
     DEF CheckStaging, Inspect, RestoreStaging, UnlinkDurable,
         ExamineVerifying, HeadDurable
<1>4. CASE CommitUpload(t)
  BY <1>4, StillSettles DEF CommitUpload, Commits
<1>5. CASE ExpireListed(t)
  <2>1. CASE UNCHANGED <<session, reservation>>
    BY <1>5, <2>1, StillSettles DEF ExpireListed
  <2>2. CASE /\ session' = Moved("expired")
             /\ SettleReservation(task[t].up, "expired")
    BY <1>5, <2>2, MovedKeeps, ReleaseKeeps
       DEF ExpireListed, Settles, AssetStands
  <2> QED
    BY <1>5, <2>1, <2>2 DEF ExpireListed
<1>6. CASE SurveyListed(t)
  <2>1. CASE UNCHANGED <<session, reservation, asset>>
    BY <2>1, StillSettles
  <2>2. CASE /\ MovedIf(StillOpen(t), "rejected")
             /\ asset' = [asset EXCEPT !.ingestion = "failed"]
             /\ SettleReservation(task[t].up, "released")
    <3>1. AssetStands
      BY <2>2 DEF AssetStands, TypeInv, AssetTyped, Asset
    <3> QED
      BY <2>2, <3>1, MovedKeeps, ReleaseKeeps DEF MovedIf, Settles
  <2> QED
    BY <1>6, <2>1, <2>2 DEF SurveyListed
<1> QED
  BY <1>1, <1>2, <1>3, <1>4, <1>5, <1>6 DEF Continue

LEMMA StepAnswers == AnswerInv /\ [Next]_vars => AnswerInv'
<1> SUFFICES ASSUME AnswerInv, [Next]_vars PROVE AnswerInv'
  OBVIOUS
<1>1. AckInv' /\ TypeInv' /\ RecordTyped'
  BY StepAcks, StepTyped, RecordsStep DEF AnswerInv
<1>2. CASE \E t \in Tasks : Commits(t)
  BY <1>1, <1>2, CommitAnswers DEF AnswerInv
<1>3. CASE AnswersSame /\ ~\E t \in Tasks : Commits(t)
  <2>1. ASSUME Settles PROVE AnswerInv'
    BY <1>1, <1>3, <2>1, SettlesKeeps DEF AnswerInv
  <2>2. ASSUME NEW t \in Tasks, Request(t) PROVE AnswerInv'
    BY <2>1, <2>2, RequestAnswers DEF AnswerInv
  <2>3. ASSUME NEW t \in Tasks, RunMaintenance(t) PROVE AnswerInv'
    BY <2>1, <2>3, StillSettles DEF RunMaintenance
  <2>4. ASSUME NEW t \in Tasks, Continue(t) PROVE AnswerInv'
    <3>1. CASE Register(t)
      BY <1>1, <1>3, <3>1, RegisterAnswers DEF AnswerInv
    <3>2. CASE ~Register(t)
      BY <1>3, <2>1, <2>4, <3>2, ContinueAnswers DEF AnswerInv
    <3> QED
      BY <3>1, <3>2
  <2>5. CASE Expire
    <3>1. session'.id = session.id
      BY <2>5 DEF Expire, AnswerInv, TypeInv, RowTyped, Session
    <3> QED
      BY <2>1, <2>5, <3>1 DEF Expire, Settles, ConsumedSame, AssetStands
  <2>6. CASE ToggleLifecycle \/ SettleIngestion
    <3>1. AssetStands
      BY <2>6 DEF ToggleLifecycle, SettleIngestion, AssetStands, AnswerInv,
                  TypeInv, AssetTyped, Asset
    <3> QED
      BY <2>1, <2>6, <3>1
         DEF ToggleLifecycle, SettleIngestion, Settles, ConsumedSame
  <2>7. CASE Crash \/ UNCHANGED vars
    BY <2>1, <2>7, StillSettles DEF Crash, vars
  <2> QED
    BY <2>2, <2>3, <2>4, <2>5, <2>6, <2>7 DEF Next
<1> QED
  BY <1>2, <1>3, RecordsStep DEF AnswerInv

(* However completions, their repeats under one key, rejections, aborts,    *)
(* maintenance and crashes overlap, an answer is stored exactly for the     *)
(* uploads that took their capacity, and no Asset gets past an upload that  *)
(* did not: the transaction of completeUpload with the guards of            *)
(* idempotency-repository.ts.                                               *)
THEOREM AnswersAreTrue == Spec => []AnswersFollowUploads
<1>1. Init => AnswerInv
  BY InitAcks, InitTyped
     DEF Init, AnswerInv, RecordTyped, Records, AnswersFollowUploads, Uploaded
<1>2. AnswerInv => AnswersFollowUploads
  BY DEF AnswerInv
<1> QED
  BY <1>1, <1>2, StepAnswers, PTL DEF Spec

=============================================================================
