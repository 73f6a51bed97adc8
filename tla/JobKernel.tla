------------------------------ MODULE JobKernel ------------------------------
(***************************************************************************)
(* The durable Job kernel: the jobs, job_steps and assets rows that        *)
(* job-repository.ts, job-admission-service.ts and job-service.ts update   *)
(* inside immediate SQLite transactions, and the server processes whose    *)
(* dispatcher claims a Job, awaits the inspection of its Asset and settles *)
(* it.  A transaction is one atomic action; between two transactions of a  *)
(* process anything may happen that its event loop, another process, the   *)
(* clock or a crash can do.                                                *)
(*                                                                         *)
(* Time is kept as what is left of each timer: lease is the number of      *)
(* ticks until lease_expires_at (0: expired), wait the number of ticks     *)
(* until available_at (0: due).  A process that starts draws a fresh lease *)
(* owner (app.ts): any member of Workers that no row names stands for one. *)
(***************************************************************************)
EXTENDS Integers, FiniteSets

CONSTANTS
  Jobs,            \* identities of asset_ingestion Jobs, admitted or not yet
  Assets,          \* Assets whose ingestion the Jobs inspect
  AssetOf,         \* the Asset named by a Job's request_json
  Projects,        \* Projects of the user whose Assets and Jobs these are
  ProjectOf,       \* the Project an Asset belongs to
  Workers,         \* workerIds of processes
  NoWorker,        \* lease_owner IS NULL
  NoJob,           \* a process that holds no claim
  LeaseTicks,      \* leaseDurationMs, in ticks
  RetryTicks,      \* the retry delay of failAssetIngestion, in ticks
  MaxAttempts,     \* max_attempts of a Job and its step
  MaxQueuedJobs,   \* quota.maxQueuedJobsPerUser
  MaxLive,         \* processes alive at once (1 in production)
  AttemptBound,    \* bound: claims of a Job whose Asset is not ingestible
  BeatBound,       \* bound: heartbeats of one claim
  CrashBound,      \* bound: crashes and stops
  StallBound,      \* bound: leases lost while their holder lives
  DeleteBound,     \* bound: soft deletions of Assets and Projects
  StaleBound       \* bound: stale failures of one Asset

ASSUME KernelAssumption ==
  /\ AssetOf \in [Jobs -> Assets]
  /\ \A a \in Assets : \E j \in Jobs : AssetOf[j] = a
  /\ ProjectOf \in [Assets -> Projects]
  /\ NoWorker \notin Workers
  /\ IsFiniteSet(Workers)
  /\ NoJob \notin Jobs
  /\ {LeaseTicks, RetryTicks, MaxAttempts} \subseteq Nat \ {0}
  /\ {MaxQueuedJobs, MaxLive, AttemptBound, BeatBound, CrashBound,
      StallBound, DeleteBound, StaleBound} \subseteq Nat

VARIABLES
  job,      \* jobs rows
  step,     \* the root job_steps row of each Job
  asset,    \* the ingestion and lifecycle columns of assets, with the
            \* status of the Project each belongs to
  stream,   \* job_events: the last event's type, and how many were terminal
  worker,   \* per process: the dispatcher and the claim its handler holds
  spent     \* what was lost and what is used of the bounds: leases that
            \* ran out, processes that ended, deletions, stale failures

vars == <<job, step, asset, stream, worker, spent>>

-----------------------------------------------------------------------------
(* Rows and records *)

Statuses == {"absent", "queued", "running", "waiting_provider",
             "retry_scheduled", "cancel_requested", "cancelled",
             "completed", "failed"}
StepStatuses == {"absent", "pending", "running", "waiting_provider",
                 "retry_scheduled", "completed", "skipped", "cancelled",
                 "failed"}
Terminal == {"cancelled", "completed", "failed"}
IngestionStatuses == {"uploading", "processing", "ready", "failed"}
Inserted == {j \in Jobs : job[j].status # "absent"}
NonTerminal(j) == j \in Inserted /\ job[j].status \notin Terminal

(* progress stands for progress_basis_points: 0, 5000 and 10000. *)
Job == [status : Statuses, owner : Workers \cup {NoWorker}, lease : Nat,
        wait : Nat, version : Nat, attempts : Nat, progress : 0..2]
Step == [status : StepStatuses, owner : Workers \cup {NoWorker}, lease : Nat,
         wait : Nat, version : Nat]
Asset == [ingestion : IngestionStatuses, active : BOOLEAN,
          projectActive : BOOLEAN]

ActiveLife == {"up", "stopping"}
Points == {"idle", "cleanup", "claimed", "inspecting", "inspected", "beaten",
           "progressed", "failing", "rejected"}
Worker == [life : {"down", "up", "stopping"}, pc : Points,
           job : Jobs \cup {NoJob}, jobVersion : Nat, stepVersion : Nat,
           attempt : Nat, retryable : BOOLEAN, beats : Nat]

EventTypes == {"none", "job.queued", "step.started", "job.progress",
               "step.retry_scheduled", "job.cancel_requested",
               "job.cancelled", "job.succeeded", "job.failed"}
Stream == [last : EventTypes, settled : Nat]

NoRow == [status |-> "absent", owner |-> NoWorker, lease |-> 0, wait |-> 0,
          version |-> 0, attempts |-> 0, progress |-> 0]
NoStep == [status |-> "absent", owner |-> NoWorker, lease |-> 0, wait |-> 0,
           version |-> 0]
QueuedRow == [NoRow EXCEPT !.status = "queued", !.version = 1]
PendingStep == [NoStep EXCEPT !.status = "pending", !.version = 1]

Holding(life, pc) ==
  [life |-> life, pc |-> pc, job |-> NoJob, jobVersion |-> 0,
   stepVersion |-> 0, attempt |-> 0, retryable |-> FALSE, beats |-> 0]
Idle(life) == Holding(life, "idle")

(* The SET clauses of the repository's UPDATE statements, on Job rows and   *)
(* on step rows alike where they are alike.                                 *)
Released(row) == [row EXCEPT !.owner = NoWorker, !.lease = 0,
                             !.version = @ + 1]
Leased(row, w) == [row EXCEPT !.owner = w, !.lease = LeaseTicks,
                              !.version = @ + 1]
Bumped(row, s) == [row EXCEPT !.status = s, !.version = @ + 1]
Settled(row, s) == [Released(row) EXCEPT !.status = s]
Delayed(row) == [Settled(row, "retry_scheduled") EXCEPT !.wait = RetryTicks]
Requeued(row, s) == [Settled(row, s) EXCEPT !.wait = 0]
Taken(row, w) == [Leased(row, w) EXCEPT !.status = "running"]
Claimed(row, w) == [Taken(row, w) EXCEPT !.attempts = @ + 1]
Progressed(row) == [row EXCEPT !.progress = 1, !.version = @ + 1]
Completed(row) == [Settled(row, "completed") EXCEPT !.progress = 2]
Lapsed(row) == row.owner # NoWorker /\ row.lease = 0

Ingestible(a) == asset[a].ingestion = "processing" /\ asset[a].active

Emit(j, type) == stream' = [stream EXCEPT ![j].last = type]
EmitTerminal(j, type) ==
  stream' = [stream EXCEPT ![j] = [last |-> type, settled |-> @.settled + 1]]

(* A process runs one turn of its event loop at a time: requests and timers *)
(* get in only while its handler awaits the inspection, or nothing runs.    *)
LoopFree(w) == /\ worker[w].life = "up"
               /\ worker[w].pc \in {"idle", "inspecting"}
SomeLoopFree == \E w \in Workers : LoopFree(w)

Goto(w, pc) == worker' = [worker EXCEPT ![w].pc = pc]
GiveUp(w) == worker' = [worker EXCEPT ![w] = Idle(@.life)]
FailWith(w, retryable) ==
  worker' = [worker EXCEPT ![w].pc = "failing", ![w].retryable = retryable]

-----------------------------------------------------------------------------
(* Admission *)

Admit(S) ==
  /\ job' = [j \in Jobs |-> IF j \in S THEN QueuedRow ELSE job[j]]
  /\ step' = [j \in Jobs |-> IF j \in S THEN PendingStep ELSE step[j]]
  /\ stream' = [j \in Jobs |-> IF j \in S
                               THEN [last |-> "job.queued", settled |-> 0]
                               ELSE stream[j]]

QueuedCount ==
  Cardinality({j \in Jobs : job[j].status \in {"queued", "retry_scheduled"}})

(* Upload completion: the Asset enters processing, and in the same          *)
(* transaction a Job is admitted for it, or an unfinished one that has not  *)
(* begun is taken as its own; any other unfinished Job of the Asset rolls   *)
(* the whole transaction back.                                              *)
CompleteUpload(j) ==
  LET a == AssetOf[j] IN
  /\ SomeLoopFree
  /\ asset[a].ingestion = "uploading"
  /\ asset[a].active
  /\ \/ /\ job[j].status = "absent"
        /\ \A k \in Jobs : AssetOf[k] = a => ~NonTerminal(k)
        /\ asset[a].projectActive
        /\ QueuedCount < MaxQueuedJobs
        /\ Admit({j})
     \/ /\ job[j].status = "queued"
        /\ job[j].progress = 0
        /\ UNCHANGED <<job, step, stream>>
  /\ asset' = [asset EXCEPT ![a].ingestion = "processing"]
  /\ UNCHANGED <<worker, spent>>

(* Assets left in processing by a schema without Jobs.  The query also      *)
(* compares the owners of Asset and Project, which are the same user here.  *)
OrphansIgnored == {}
Orphans == {a \in Assets : /\ Ingestible(a)
                           /\ asset[a].projectActive
                           /\ \A j \in Inserted : AssetOf[j] # a}

(* The platform runs one instance of the application. *)
RoomToStart ==
  Cardinality({v \in Workers : worker[v].life \in ActiveLife}) < MaxLive

(* A workerId that no lease names is as good as one never drawn before, and *)
(* it makes no difference which of them is drawn.                           *)
Fresh == {w \in Workers : /\ worker[w].life = "down"
                          /\ \A j \in Jobs :
                               w \notin {job[j].owner, step[j].owner}}

(* A process starts: startup reconciliation admits one Job per orphan, then *)
(* the dispatcher starts.                                                   *)
Start(w) ==
  /\ w \in Fresh
  /\ w = CHOOSE v \in Fresh : TRUE
  /\ RoomToStart
  /\ worker' = [worker EXCEPT ![w].life = "up"]
  /\ \E S \in SUBSET {j \in Jobs : AssetOf[j] \in Orphans} :
        /\ \A a \in Orphans : \E j \in S : AssetOf[j] = a
        /\ \A i, j \in S : AssetOf[i] = AssetOf[j] => i = j
        /\ Admit(S)
  /\ UNCHANGED <<asset, spent>>

-----------------------------------------------------------------------------
(* Commands on Jobs and Assets *)

CancellableIfFailed == {"queued", "running", "retry_scheduled", "failed"}
Cancellable == {"queued", "running", "waiting_provider", "retry_scheduled"}

CancelSilently(j) ==
  /\ SomeLoopFree
  /\ job[j].status \in Cancellable
  /\ job' = [job EXCEPT ![j] = Bumped(@, "cancel_requested")]
  /\ UNCHANGED <<step, asset, stream, worker, spent>>

(* The owner's cancellation records the intent and leaves any lease alone. *)
Cancel(j) ==
  /\ SomeLoopFree
  /\ job[j].status \in Cancellable
  /\ job' = [job EXCEPT ![j] = Bumped(@, "cancel_requested")]
  /\ Emit(j, "job.cancel_requested")
  /\ UNCHANGED <<step, asset, worker, spent>>

SoftDelete(a) ==
  /\ SomeLoopFree
  /\ asset[a].active
  /\ spent.deletes < DeleteBound
  /\ asset' = [asset EXCEPT ![a].active = FALSE]
  /\ spent' = [spent EXCEPT !.deletes = @ + 1]
  /\ UNCHANGED <<job, step, stream, worker>>

Restore(a) ==
  /\ SomeLoopFree
  /\ ~asset[a].active
  /\ asset[a].projectActive
  /\ asset' = [asset EXCEPT ![a].active = TRUE]
  /\ UNCHANGED <<job, step, stream, worker, spent>>

(* A Project goes to the trash and comes back, with all its Assets as they  *)
(* are; whoever asks for the Project's status finds it in its Assets.       *)
InProject(p, active) ==
  [a \in Assets |-> IF ProjectOf[a] = p
                    THEN [asset[a] EXCEPT !.projectActive = active]
                    ELSE asset[a]]

DeleteProject(p) ==
  /\ SomeLoopFree
  /\ \E a \in Assets : ProjectOf[a] = p /\ asset[a].projectActive
  /\ spent.deletes < DeleteBound
  /\ asset' = InProject(p, FALSE)
  /\ spent' = [spent EXCEPT !.deletes = @ + 1]
  /\ UNCHANGED <<job, step, stream, worker>>

RestoreProject(p) ==
  /\ SomeLoopFree
  /\ \E a \in Assets : ProjectOf[a] = p /\ ~asset[a].projectActive
  /\ asset' = InProject(p, TRUE)
  /\ UNCHANGED <<job, step, stream, worker, spent>>

RetryIngestionAnyTime(a) ==
  /\ SomeLoopFree
  /\ asset[a].active
  /\ asset[a].projectActive
  /\ asset' = [asset EXCEPT ![a].ingestion = "uploading"]
  /\ UNCHANGED <<job, step, stream, worker, spent>>

(* A new upload for a failed Asset. *)
RetryIngestion(a) ==
  /\ SomeLoopFree
  /\ asset[a].active
  /\ asset[a].projectActive
  /\ asset[a].ingestion = "failed"
  /\ asset' = [asset EXCEPT ![a].ingestion = "uploading"]
  /\ UNCHANGED <<job, step, stream, worker, spent>>

(* An upload that is rejected, or whose file maintenance finds missing.     *)
FailUpload(a) ==
  /\ SomeLoopFree
  /\ asset[a].ingestion = "uploading"
  /\ asset' = [asset EXCEPT ![a].ingestion = "failed"]
  /\ UNCHANGED <<job, step, stream, worker, spent>>

(* The same, by a pass of maintenance or a completion that looked at the    *)
(* upload before it was completed: see UploadProtocol.                      *)
FailStaleUpload(a) ==
  /\ SomeLoopFree
  /\ asset[a].ingestion \in {"processing", "ready"}
  /\ spent.stale[a] < StaleBound
  /\ asset' = [asset EXCEPT ![a].ingestion = "failed"]
  /\ spent' = [spent EXCEPT !.stale[a] = @ + 1]
  /\ UNCHANGED <<job, step, stream, worker>>

-----------------------------------------------------------------------------
(* Reconciliation: expired running work is queued again, due retries are    *)
(* queued, and lapsed leases of waiting or cancelled Jobs are cleared, all  *)
(* in one transaction.                                                      *)

ExpiredNever == {}
Expired == {j \in Jobs : job[j].status = "running" /\ Lapsed(job[j])}
DueRetries ==
  {j \in Jobs : job[j].status = "retry_scheduled" /\ job[j].wait = 0}
LapsedHolds ==
  {j \in Jobs : /\ job[j].status \in {"waiting_provider", "cancel_requested"}
                /\ Lapsed(job[j])}

Reconcile(w) ==
  /\ LoopFree(w)
  /\ Expired \cup DueRetries \cup LapsedHolds # {}
  /\ job' = [j \in Jobs |->
       IF j \in Expired
         THEN Requeued(job[j], "queued")
       ELSE IF j \in DueRetries
         THEN Bumped(job[j], "queued")
       ELSE IF j \in LapsedHolds THEN Released(job[j]) ELSE job[j]]
  /\ step' = [j \in Jobs |->
       IF j \in Expired /\ step[j].status = "running"
         THEN Requeued(step[j], "pending")
       ELSE IF j \in DueRetries /\ step[j].status = "retry_scheduled"
         THEN Bumped(step[j], "pending")
       ELSE step[j]]
  /\ stream' = [j \in Jobs |-> IF j \in Expired \cup DueRetries
                               THEN [stream[j] EXCEPT !.last = "job.queued"]
                               ELSE stream[j]]
  /\ UNCHANGED <<asset, worker, spent>>

-----------------------------------------------------------------------------
(* The dispatcher's runOnce: cleanup of one cancellation, else one claim *)

Ready(w) == worker[w].life = "up" /\ worker[w].pc = "idle"

CleanupCandidates ==
  {j \in Jobs : /\ job[j].status = "cancel_requested"
                /\ job[j].owner = NoWorker \/ job[j].lease = 0}

ClaimCancellationCleanup(w) ==
  /\ Ready(w)
  /\ \E j \in CleanupCandidates :
       /\ job' = [job EXCEPT ![j] = Leased(@, w)]
       /\ worker' = [worker EXCEPT ![w] =
            [@ EXCEPT !.pc = "cleanup", !.job = j,
                      !.jobVersion = job'[j].version]]
  /\ UNCHANGED <<step, asset, stream, spent>>

HoldsCleanup(w) ==
  LET j == worker[w].job IN
  /\ job[j].status = "cancel_requested"
  /\ job[j].owner = w
  /\ job[j].lease > 0
  /\ job[j].version = worker[w].jobVersion

(* The second transaction of the cleanup; losing the lease here is not      *)
(* caught, and the tick rejects.                                            *)
CompleteCancellationCleanup(w) ==
  LET j == worker[w].job IN
  /\ worker[w].pc = "cleanup"
  /\ worker[w].life \in ActiveLife
  /\ \/ /\ HoldsCleanup(w)
        /\ job' = [job EXCEPT ![j] = Settled(@, "cancelled")]
        /\ step' = IF step[j].status \in {"pending", "running",
                                  "waiting_provider", "retry_scheduled"}
                   THEN [step EXCEPT ![j] = Settled(@, "cancelled")]
                   ELSE step
        /\ EmitTerminal(j, "job.cancelled")
        /\ GiveUp(w)
     \/ /\ ~HoldsCleanup(w)
        /\ Goto(w, "rejected")
        /\ UNCHANGED <<job, step, stream>>
  /\ UNCHANGED <<asset, spent>>

(* The head of the queue is one due queued Job; which one ORDER BY puts     *)
(* first is left open.  If its step is not claimable nothing is claimed.    *)
ClaimNext(w) ==
  /\ Ready(w)
  /\ CleanupCandidates = {}
  /\ \E j \in Jobs :
       /\ job[j].status = "queued"
       /\ job[j].wait = 0
       /\ step[j].status = "pending"
       /\ step[j].wait = 0
       /\ Ingestible(AssetOf[j]) \/ job[j].attempts < AttemptBound
       /\ job' = [job EXCEPT ![j] = Claimed(@, w)]
       /\ step' = [step EXCEPT ![j] = Taken(@, w)]
       /\ Emit(j, "step.started")
       /\ worker' = [worker EXCEPT ![w] =
            [@ EXCEPT !.pc = "claimed", !.job = j,
                      !.jobVersion = job'[j].version,
                      !.stepVersion = step'[j].version,
                      !.attempt = job'[j].attempts]]
  /\ UNCHANGED <<asset, spent>>

-----------------------------------------------------------------------------
(* The asset-ingestion handler: synchronous turns around one await *)

(* The guard of every worker mutation: status, owner, unexpired lease and   *)
(* expected version, on the Job and on its step.                            *)
HoldsLeaseUnfenced(w) ==
  LET j == worker[w].job IN
  /\ job[j].status = "running" /\ job[j].lease > 0
  /\ step[j].status = "running" /\ step[j].lease > 0
HoldsLease(w) ==
  LET j == worker[w].job IN
  /\ job[j].status = "running"
  /\ job[j].owner = w
  /\ job[j].lease > 0
  /\ job[j].version = worker[w].jobVersion
  /\ step[j].status = "running"
  /\ step[j].owner = w
  /\ step[j].lease > 0
  /\ step[j].version = worker[w].stepVersion

Handling(w, pc) == worker[w].life \in ActiveLife /\ worker[w].pc = pc

StartHandling(w) ==
  /\ Handling(w, "claimed")
  /\ IF Ingestible(AssetOf[worker[w].job])
     THEN Goto(w, "inspecting")
     ELSE FailWith(w, FALSE)
  /\ UNCHANGED <<job, step, asset, stream, spent>>

(* The inspection answers: usable metadata, or an error of either kind. *)
Inspected(w) ==
  /\ Handling(w, "inspecting")
  /\ \/ Goto(w, "inspected")
     \/ \E retryable \in BOOLEAN : FailWith(w, retryable)
  /\ UNCHANGED <<job, step, asset, stream, spent>>

(* A heartbeat extends both leases and moves the claim's versions on; one   *)
(* that fails, or that a stopping dispatcher skips, changes nothing.        *)
Beat(w, pc) ==
  LET j == worker[w].job IN
  IF HoldsLease(w) /\ worker[w].life = "up"
  THEN /\ job' = [job EXCEPT ![j] = Leased(@, w)]
       /\ step' = [step EXCEPT ![j] = Leased(@, w)]
       /\ worker' = [worker EXCEPT ![w] =
            [@ EXCEPT !.pc = pc, !.jobVersion = job'[j].version,
                      !.stepVersion = step'[j].version,
                      !.beats = worker[w].beats + 1]]
  ELSE Goto(w, pc) /\ UNCHANGED <<job, step>>

(* The interval timer, while the inspection is awaited. *)
HeartbeatTimer(w) ==
  /\ Handling(w, "inspecting")
  /\ worker[w].life = "up"
  /\ HoldsLease(w)
  /\ worker[w].beats < BeatBound
  /\ Beat(w, "inspecting")
  /\ UNCHANGED <<asset, stream, spent>>

(* The handler's own heartbeat before it reports progress. *)
HeartbeatAfterInspection(w) ==
  /\ Handling(w, "inspected")
  /\ Beat(w, "beaten")
  /\ UNCHANGED <<asset, stream, spent>>

ReportProgress(w) ==
  LET j == worker[w].job IN
  /\ Handling(w, "beaten")
  /\ \/ /\ HoldsLease(w)
        /\ job[j].progress < 1
        /\ job' = [job EXCEPT ![j] = Progressed(@)]
        /\ Emit(j, "job.progress")
        /\ worker' = [worker EXCEPT ![w].pc = "progressed",
                                    ![w].jobVersion = job'[j].version]
     \/ /\ HoldsLease(w)
        /\ job[j].progress >= 1
        /\ Goto(w, "progressed")
        /\ UNCHANGED <<job, stream>>
     \/ /\ ~HoldsLease(w)
        /\ FailWith(w, TRUE)
        /\ UNCHANGED <<job, stream>>
  /\ UNCHANGED <<step, asset, spent>>

CompleteAssetIngestion(w) ==
  LET j == worker[w].job IN
  /\ Handling(w, "progressed")
  /\ \/ /\ HoldsLease(w)
        /\ Ingestible(AssetOf[j])
        /\ job' = [job EXCEPT ![j] = Completed(@)]
        /\ step' = [step EXCEPT ![j] = Settled(@, "completed")]
        /\ asset' = [asset EXCEPT ![AssetOf[j]].ingestion = "ready"]
        /\ EmitTerminal(j, "job.succeeded")
        /\ GiveUp(w)
     \/ /\ ~(HoldsLease(w) /\ Ingestible(AssetOf[j]))
        /\ FailWith(w, ~HoldsLease(w))
        /\ UNCHANGED <<job, step, asset, stream>>
  /\ UNCHANGED spent

CanRetryOnceMore(w) == /\ worker[w].retryable
                       /\ job[worker[w].job].attempts <= MaxAttempts
CanRetry(w) == /\ worker[w].retryable
               /\ job[worker[w].job].attempts < MaxAttempts

(* The catch block's settlement.  A version conflict is swallowed; any      *)
(* other error, here the Asset's own guard, rolls back and is rethrown.     *)
FailAssetIngestion(w) ==
  LET j == worker[w].job IN
  /\ Handling(w, "failing")
  /\ \/ /\ HoldsLease(w)
        /\ CanRetry(w)
        /\ job' = [job EXCEPT ![j] = Delayed(@)]
        /\ step' = [step EXCEPT ![j] = Delayed(@)]
        /\ Emit(j, "step.retry_scheduled")
        /\ GiveUp(w)
        /\ UNCHANGED asset
     \/ /\ HoldsLease(w)
        /\ ~CanRetry(w)
        /\ Ingestible(AssetOf[j])
        /\ job' = [job EXCEPT ![j] = Settled(@, "failed")]
        /\ step' = [step EXCEPT ![j] = Settled(@, "failed")]
        /\ asset' = [asset EXCEPT ![AssetOf[j]].ingestion = "failed"]
        /\ EmitTerminal(j, "job.failed")
        /\ GiveUp(w)
     \/ /\ HoldsLease(w)
        /\ ~CanRetry(w)
        /\ ~Ingestible(AssetOf[j])
        /\ Goto(w, "rejected")
        /\ UNCHANGED <<job, step, asset, stream>>
     \/ /\ ~HoldsLease(w)
        /\ GiveUp(w)
        /\ UNCHANGED <<job, step, asset, stream>>
  /\ UNCHANGED spent

-----------------------------------------------------------------------------
(* The end of a process, and time *)

(* SIGTERM: no new claim, heartbeat or reconciliation; the handler goes on. *)
Stop(w) ==
  /\ LoopFree(w)
  /\ spent.crashes < CrashBound
  /\ worker' = [worker EXCEPT ![w].life = "stopping"]
  /\ spent' = [spent EXCEPT !.crashes = @ + 1]
  /\ UNCHANGED <<job, step, asset, stream>>

Crash(w) ==
  /\ worker[w].life = "up"
  /\ spent.crashes < CrashBound
  /\ worker' = [worker EXCEPT ![w] = Idle("down")]
  /\ spent' = [spent EXCEPT !.crashes = @ + 1]
  /\ UNCHANGED <<job, step, asset, stream>>

(* The process ends: after the shutdown grace period, whatever its handler  *)
(* does, or because the rejection of a tick is handled by nobody.           *)
Exit(w) ==
  /\ \/ worker[w].life = "stopping" /\ UNCHANGED spent
     \/ /\ worker[w].life = "up"
        /\ worker[w].pc = "rejected"
        /\ spent' = [spent EXCEPT !.rejections = @ + 1]
  /\ worker' = [worker EXCEPT ![w] = Idle("down")]
  /\ UNCHANGED <<job, step, asset, stream>>

(* Live processes whose claim's last tick of lease is running out. *)
AboutToLapse ==
  {w \in Workers : /\ worker[w].life = "up"
                   /\ worker[w].job # NoJob
                   /\ job[worker[w].job].owner = w
                   /\ job[worker[w].job].lease = 1}

Less(n) == IF n = 0 THEN 0 ELSE n - 1
Aged(row) == [row EXCEPT !.lease = Less(@), !.wait = Less(@)]

Tick ==
  /\ \E j \in Jobs : job[j].lease + job[j].wait + step[j].lease > 0
  /\ spent.stalls + Cardinality(AboutToLapse) <= StallBound
  /\ job' = [j \in Jobs |-> Aged(job[j])]
  /\ step' = [j \in Jobs |-> Aged(step[j])]
  /\ spent' = [spent EXCEPT !.stalls = @ + Cardinality(AboutToLapse)]
  /\ UNCHANGED <<asset, stream, worker>>

-----------------------------------------------------------------------------
Init ==
  /\ job = [j \in Jobs |-> NoRow]
  /\ step = [j \in Jobs |-> NoStep]
  /\ asset \in [Assets -> [ingestion : {"uploading", "processing"},
                           active : {TRUE}, projectActive : BOOLEAN]]
  /\ \A a, b \in Assets : ProjectOf[a] = ProjectOf[b] =>
                            asset[a].projectActive = asset[b].projectActive
  /\ stream = [j \in Jobs |-> [last |-> "none", settled |-> 0]]
  /\ worker = [w \in Workers |-> Idle("down")]
  /\ spent = [stalls |-> 0, crashes |-> 0, rejections |-> 0, deletes |-> 0,
              stale |-> [a \in Assets |-> 0]]

Command ==
  \/ \E j \in Jobs : CompleteUpload(j) \/ Cancel(j)
  \/ \E a \in Assets : SoftDelete(a) \/ Restore(a) \/ RetryIngestion(a)
                      \/ FailUpload(a) \/ FailStaleUpload(a)
  \/ \E p \in Projects : DeleteProject(p) \/ RestoreProject(p)

Dispatch(w) == ClaimCancellationCleanup(w) \/ ClaimNext(w)

Handle(w) ==
  \/ CompleteCancellationCleanup(w)
  \/ StartHandling(w)
  \/ Inspected(w)
  \/ HeartbeatAfterInspection(w)
  \/ ReportProgress(w)
  \/ CompleteAssetIngestion(w)
  \/ FailAssetIngestion(w)

Process(w) ==
  \/ Start(w)
  \/ Reconcile(w)
  \/ Dispatch(w)
  \/ Handle(w)
  \/ HeartbeatTimer(w)
  \/ Stop(w)
  \/ Crash(w)
  \/ Exit(w)

Next == Command \/ Tick \/ \E w \in Workers : Process(w)

Spec == Init /\ [][Next]_vars

(* What the scheduling of one process justifies: timers fire, the dispatcher *)
(* ticks, an inspection answers, a stopped process ends and a platform       *)
(* restarts it, and the clock goes on.  Nothing is assumed of heartbeats.    *)
Fairness ==
  /\ WF_vars(Tick)
  /\ \A w \in Workers : /\ WF_vars(Start(w))
                        /\ WF_vars(Reconcile(w))
                        /\ WF_vars(Dispatch(w))
                        /\ WF_vars(Handle(w))
                        /\ WF_vars(Exit(w))

FairSpec == Spec /\ Fairness

-----------------------------------------------------------------------------
(* Properties *)

(* Rows, records and counters have their types. *)
TypeOK ==
  /\ job \in [Jobs -> Job]
  /\ step \in [Jobs -> Step]
  /\ asset \in [Assets -> Asset]
  /\ stream \in [Jobs -> Stream]
  /\ worker \in [Workers -> Worker]
  /\ spent \in [stalls : Nat, crashes : Nat, rejections : Nat, deletes : Nat,
                stale : [Assets -> Nat]]

SM == INSTANCE JobStateMachine WITH
        jobStatus <- [j \in Jobs |-> job[j].status],
        stepStatus <- [j \in Jobs |-> step[j].status]

Paired(row, root) ==
  /\ SM!Agrees(row.status, root.status)
  /\ row.status = "running" =>
       /\ row.owner # NoWorker
       /\ root.owner = row.owner
       /\ root.lease = row.lease
  /\ row.status \in {"absent", "queued", "retry_scheduled"} \cup Terminal =>
       /\ row.owner = NoWorker
       /\ root.owner = NoWorker
  /\ row.status \in {"queued", "retry_scheduled"} => root.wait = row.wait

(* A Job and its root step, updated by two UPDATE statements with separate  *)
(* guards, agree in every state on status, lease and due time: claimNext    *)
(* never finds a queued head whose step it cannot claim, and a heartbeat    *)
(* that holds the Job holds the step.                                       *)
JobStepAgreement == \A j \in Jobs : Paired(job[j], step[j])

(* The Asset and the Jobs that inspect it move in different transactions of *)
(* different services, yet no Asset ever has two unfinished Jobs; and       *)
(* unless maintenance failed the Asset on what it had read before, an       *)
(* unfinished Job means an Asset in processing, and a completed Job's Asset *)
(* is ready.                                                                *)
AssetFollowsJobs ==
  \A j \in Jobs :
    /\ NonTerminal(j) =>
         \A k \in Jobs : NonTerminal(k) /\ AssetOf[k] = AssetOf[j] => k = j
    /\ spent.stale[AssetOf[j]] = 0 =>
         /\ NonTerminal(j) => asset[AssetOf[j]].ingestion = "processing"
         /\ job[j].status = "completed" =>
              asset[AssetOf[j]].ingestion = "ready"

(* No worker that lost its lease commits a result: whoever settles a        *)
(* running Job made its latest claim and has held the lease without a gap,  *)
(* whatever was requeued, claimed again or beaten since it started waiting. *)
SettledByLatestClaim ==
  [][\A j \in Jobs :
       /\ job[j].status = "running"
       /\ job'[j].status \in {"completed", "failed", "retry_scheduled"}
       => \E w \in Workers :
            /\ worker[w].job = j
            /\ worker[w].life \in ActiveLife
            /\ worker[w].attempt = job[j].attempts
            /\ job[j].owner = w
            /\ job[j].lease > 0]_vars

(* Progress survives requeues and retries: it never falls, and it reaches   *)
(* its end exactly when the Job completes.                                  *)
ProgressNeverFalls ==
  [][\A j \in Jobs :
       /\ job'[j].progress >= job[j].progress
       /\ (job'[j].progress = 2) <=> (job'[j].status = "completed")]_vars

EventsOf(status) ==
  CASE status = "absent" -> {"none"}
    [] status = "queued" -> {"job.queued"}
    [] status = "running" -> {"step.started", "job.progress"}
    [] status = "retry_scheduled" -> {"step.retry_scheduled"}
    [] status = "cancel_requested" -> {"job.cancel_requested"}
    [] status = "cancelled" -> {"job.cancelled"}
    [] status = "completed" -> {"job.succeeded"}
    [] status = "failed" -> {"job.failed"}
    [] OTHER -> {}

(* A client that only follows job_events ends with the truth: the last      *)
(* event tells the row's status, and exactly one terminal event is ever     *)
(* written, when the row becomes terminal.                                  *)
StreamTellsStatus ==
  \A j \in Jobs :
    /\ stream[j].last \in EventsOf(job[j].status)
    /\ stream[j].settled = IF job[j].status \in Terminal THEN 1 ELSE 0

(* Every transition of every Job and step is one of the tables' and keeps   *)
(* the two in agreement: the kernel implements JobStateMachine.             *)
ImplementsStateMachine == SM!Spec

(* Every admitted Job is settled: no crash, lost lease, retry or failure    *)
(* leaves a Job forever running or scheduled, unless its Asset is not       *)
(* ingestible: then the transaction that fails the Job rolls back, and ends *)
(* one process after another until the Asset is.  A cancellation is         *)
(* completed even then.                                                     *)
EveryJobSettles ==
  \A j \in Jobs :
    NonTerminal(j) ~>
      \/ job[j].status \in Terminal
      \/ job[j].status # "cancel_requested" /\ ~Ingestible(AssetOf[j])

(* Whom an inspection is due: an Asset with a Job, or one that the next     *)
(* process to start finds without.  An Asset whose Project is in the trash  *)
(* at that moment waits for yet another start.                              *)
Awaited(a) ==
  \/ \E j \in Inserted : AssetOf[j] = a
  \/ asset[a].projectActive /\ \A w \in Workers : worker[w].life = "down"

(* An Asset in processing is inspected to an outcome, including one that    *)
(* had no Job before startup, unless it is put into the trash or its Job is *)
(* cancelled, which leaves it in processing.                                *)
ProcessingEnds ==
  \A a \in Assets :
    Ingestible(a) /\ Awaited(a) ~>
      \/ ~Ingestible(a)
      \/ \E j \in Jobs : AssetOf[j] = a /\ job[j].status = "cancelled"

(* The attempt policy bounds what failures may repeat, and claimNext itself *)
(* bounds nothing: each claim beyond max_attempts must be the answer to a   *)
(* process that ended, stopped, killed or by a rejected tick, or to a lease *)
(* that ran out under a live one.                                           *)
LossesExceedPolicy ==
  \A j \in Jobs :
    job[j].attempts <= MaxAttempts + spent.crashes + spent.rejections
                                   + spent.stalls
=============================================================================
