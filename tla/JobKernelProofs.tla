--------------------------- MODULE JobKernelProofs ---------------------------
(***************************************************************************)
(* What the Job kernel guarantees for any number of Jobs, Assets and       *)
(* processes, any lease and retry durations, and any bounds.               *)
(***************************************************************************)
EXTENDS JobKernel, TLAPS, FiniteSetTheorems

USE DEF vars

(* Every disjunct of Next, for a proof by cases. *)
LEMMA NextCases ==
  ASSUME Next, NEW P,
         \A j \in Jobs : CompleteUpload(j) => P,
         \A j \in Jobs : Cancel(j) => P,
         \A a \in Assets : SoftDelete(a) => P,
         \A a \in Assets : Restore(a) => P,
         \A a \in Assets : RetryIngestion(a) => P,
         \A a \in Assets : FailUpload(a) => P,
         \A a \in Assets : FailStaleUpload(a) => P,
         \A p \in Projects : DeleteProject(p) => P,
         \A p \in Projects : RestoreProject(p) => P,
         Tick => P,
         \A w \in Workers : Start(w) => P,
         \A w \in Workers : Reconcile(w) => P,
         \A w \in Workers : ClaimCancellationCleanup(w) => P,
         \A w \in Workers : ClaimNext(w) => P,
         \A w \in Workers : CompleteCancellationCleanup(w) => P,
         \A w \in Workers : StartHandling(w) => P,
         \A w \in Workers : Inspected(w) => P,
         \A w \in Workers : HeartbeatAfterInspection(w) => P,
         \A w \in Workers : ReportProgress(w) => P,
         \A w \in Workers : CompleteAssetIngestion(w) => P,
         \A w \in Workers : FailAssetIngestion(w) => P,
         \A w \in Workers : HeartbeatTimer(w) => P,
         \A w \in Workers : Stop(w) => P,
         \A w \in Workers : Crash(w) => P,
         \A w \in Workers : Exit(w) => P
  PROVE  P
  BY Zenon DEF Next, Command, Process, Dispatch, Handle

-----------------------------------------------------------------------------
(* Typing of rows: what each SET clause returns. *)

LEMMA JobRows ==
  ASSUME NEW r \in Job
  PROVE  /\ Released(r) \in Job
         /\ Aged(r) \in Job
         /\ \A s \in Statuses : /\ Bumped(r, s) \in Job
                                /\ Settled(r, s) \in Job
                                /\ Requeued(r, s) \in Job
         /\ Delayed(r) \in Job
         /\ Progressed(r) \in Job
         /\ Completed(r) \in Job
         /\ \A w \in Workers : Leased(r, w) \in Job /\ Claimed(r, w) \in Job
  <1> USE KernelAssumption
  <1>1. /\ r.version + 1 \in Nat
        /\ r.attempts + 1 \in Nat
        /\ LeaseTicks \in Nat
        /\ RetryTicks \in Nat
        /\ Less(r.lease) \in Nat
        /\ Less(r.wait) \in Nat
    BY DEF Job, Less
  <1>2. Released(r) \in Job
    BY <1>1 DEF Released, Job
  <1>3. Aged(r) \in Job
    BY <1>1 DEF Aged, Job
  <1>4. \A s \in Statuses : Settled(r, s) \in Job
    BY <1>2 DEF Settled, Job
  <1>5. \A s \in Statuses : Bumped(r, s) \in Job
    BY <1>1 DEF Bumped, Job
  <1>6. \A s \in Statuses : Requeued(r, s) \in Job
    BY <1>4 DEF Requeued, Job
  <1>7. Delayed(r) \in Job
    BY <1>1, <1>4 DEF Delayed, Job, Statuses
  <1>8. Progressed(r) \in Job
    <2>1. 1 \in 0..2
      OBVIOUS
    <2> QED BY <1>1, <2>1 DEF Progressed, Job
  <1>9. Completed(r) \in Job
    BY <1>4 DEF Completed, Job, Statuses
  <1>10. ASSUME NEW w \in Workers
         PROVE  Leased(r, w) \in Job /\ Claimed(r, w) \in Job
    <2>1. Leased(r, w) \in Job
      BY <1>1 DEF Leased, Job
    <2>2. Taken(r, w) \in Job
      BY <2>1 DEF Taken, Job, Statuses
    <2>3. Taken(r, w).attempts = r.attempts
      BY DEF Taken, Leased, Job
    <2> QED BY <1>1, <2>1, <2>2, <2>3 DEF Claimed, Job
  <1> QED BY <1>2, <1>3, <1>4, <1>5, <1>6, <1>7, <1>8, <1>9, <1>10

LEMMA StepRows ==
  ASSUME NEW r \in Step
  PROVE  /\ Aged(r) \in Step
         /\ \A s \in StepStatuses : /\ Bumped(r, s) \in Step
                                    /\ Settled(r, s) \in Step
                                    /\ Requeued(r, s) \in Step
         /\ Delayed(r) \in Step
         /\ \A w \in Workers : Leased(r, w) \in Step /\ Taken(r, w) \in Step
  <1> USE KernelAssumption
  <1>1. /\ r.version + 1 \in Nat
        /\ LeaseTicks \in Nat
        /\ RetryTicks \in Nat
        /\ Less(r.lease) \in Nat
        /\ Less(r.wait) \in Nat
    BY DEF Step, Less
  <1>2. Released(r) \in Step
    BY <1>1 DEF Released, Step
  <1>3. Aged(r) \in Step
    BY <1>1 DEF Aged, Step
  <1>4. \A s \in StepStatuses : Settled(r, s) \in Step
    BY <1>2 DEF Settled, Step
  <1>5. \A s \in StepStatuses : Bumped(r, s) \in Step
    BY <1>1 DEF Bumped, Step
  <1>6. \A s \in StepStatuses : Requeued(r, s) \in Step
    BY <1>4 DEF Requeued, Step
  <1>7. Delayed(r) \in Step
    BY <1>1, <1>4 DEF Delayed, Step, StepStatuses
  <1>8. ASSUME NEW w \in Workers
        PROVE  Leased(r, w) \in Step /\ Taken(r, w) \in Step
    <2>1. Leased(r, w) \in Step
      BY <1>1 DEF Leased, Step
    <2> QED BY <2>1 DEF Taken, Step, StepStatuses
  <1> QED BY <1>3, <1>4, <1>5, <1>6, <1>7, <1>8

LEMMA NewRows == QueuedRow \in Job /\ PendingStep \in Step
  <1>1. NoRow \in Job /\ NoStep \in Step
    BY DEF NoRow, NoStep, Job, Step, Statuses, StepStatuses
  <1> QED BY <1>1 DEF QueuedRow, PendingStep, NoRow, NoStep, Job, Step,
                      Statuses, StepStatuses

-----------------------------------------------------------------------------
(* Typing of states.  A process that is not idle works on a Job, and only   *)
(* while it lives: the claim is held by the handler's closure.              *)
Rows == job \in [Jobs -> Job] /\ step \in [Jobs -> Step]
Processes == worker \in [Workers -> Worker]
Rest == /\ asset \in [Assets -> Asset]
        /\ stream \in [Jobs -> Stream]
        /\ spent \in [stalls : Nat, crashes : Nat, rejections : Nat,
                     deletes : Nat, stale : [Assets -> Nat]]
ClaimsHeld ==
  \A w \in Workers : worker[w].pc # "idle" =>
    worker[w].job \in Jobs /\ worker[w].life \in ActiveLife

Typed == Rows /\ Processes /\ Rest /\ ClaimsHeld

LEMMA BeatRows ==
  ASSUME Rows, NEW w \in Workers, NEW pc, worker[w].job \in Jobs, Beat(w, pc)
  PROVE  Rows'
  <1> DEFINE j == worker[w].job
  <1>1. \/ /\ job' = [job EXCEPT ![j] = Leased(job[j], w)]
           /\ step' = [step EXCEPT ![j] = Leased(step[j], w)]
        \/ job' = job /\ step' = step
    BY Zenon DEF Beat
  <1>2. j \in Jobs /\ job[j] \in Job /\ step[j] \in Step
    BY DEF Rows
  <1>3. Leased(job[j], w) \in Job /\ Leased(step[j], w) \in Step
    BY <1>2, JobRows, StepRows
  <1> HIDE DEF j
  <1> QED BY <1>1, <1>2, <1>3 DEF Rows

LEMMA RowsStep == Typed /\ [Next]_vars => Rows'
  <1> SUFFICES ASSUME Typed, [Next]_vars PROVE Rows'
    OBVIOUS
  <1> USE JobRows, StepRows, NewRows DEF Typed, Rows, ClaimsHeld, Statuses,
        StepStatuses
  <1>1. ASSUME NEW j \in Jobs, CompleteUpload(j) PROVE Rows'
    BY <1>1 DEF CompleteUpload, Admit
  <1>2. ASSUME NEW j \in Jobs, Cancel(j) PROVE Rows'
    BY <1>2 DEF Cancel
  <1>3. ASSUME NEW a \in Assets, SoftDelete(a) PROVE Rows'
    BY <1>3 DEF SoftDelete
  <1>4. ASSUME NEW a \in Assets, Restore(a) PROVE Rows'
    BY <1>4 DEF Restore
  <1>5. ASSUME NEW a \in Assets, RetryIngestion(a) PROVE Rows'
    BY <1>5 DEF RetryIngestion
  <1>5a. ASSUME NEW a \in Assets, FailUpload(a) PROVE Rows'
    BY <1>5a DEF FailUpload
  <1>5b. ASSUME NEW a \in Assets, FailStaleUpload(a) PROVE Rows'
    BY <1>5b DEF FailStaleUpload
  <1>5c. ASSUME NEW p \in Projects, DeleteProject(p) PROVE Rows'
    BY <1>5c DEF DeleteProject
  <1>5d. ASSUME NEW p \in Projects, RestoreProject(p) PROVE Rows'
    BY <1>5d DEF RestoreProject
  <1>6. CASE Tick
    BY <1>6 DEF Tick
  <1>7. ASSUME NEW w \in Workers, Start(w) PROVE Rows'
    BY <1>7 DEF Start, Admit
  <1>8. ASSUME NEW w \in Workers, Reconcile(w) PROVE Rows'
    BY <1>8 DEF Reconcile
  <1>9. ASSUME NEW w \in Workers, ClaimCancellationCleanup(w) PROVE Rows'
    <2>1. PICK j \in Jobs : job' = [job EXCEPT ![j] = Leased(job[j], w)]
      BY <1>9, Zenon DEF ClaimCancellationCleanup, CleanupCandidates
    <2>2. step' = step
      BY <1>9 DEF ClaimCancellationCleanup
    <2> QED BY <2>1, <2>2
  <1>10. ASSUME NEW w \in Workers, ClaimNext(w) PROVE Rows'
    <2>1. PICK j \in Jobs : /\ job' = [job EXCEPT ![j] = Claimed(job[j], w)]
                            /\ step' = [step EXCEPT ![j] = Taken(step[j], w)]
      BY <1>10, Zenon DEF ClaimNext
    <2> QED BY <2>1
  <1>11. ASSUME NEW w \in Workers, CompleteCancellationCleanup(w) PROVE Rows'
    BY <1>11 DEF CompleteCancellationCleanup
  <1>12. ASSUME NEW w \in Workers, StartHandling(w) PROVE Rows'
    BY <1>12 DEF StartHandling, Handling
  <1>13. ASSUME NEW w \in Workers, Inspected(w) PROVE Rows'
    BY <1>13 DEF Inspected, Handling
  <1>14. ASSUME NEW w \in Workers, HeartbeatAfterInspection(w) PROVE Rows'
    BY <1>14, BeatRows DEF HeartbeatAfterInspection, Handling
  <1>15. ASSUME NEW w \in Workers, ReportProgress(w) PROVE Rows'
    <2> DEFINE j == worker[w].job
    <2>1. j \in Jobs
      BY <1>15 DEF ReportProgress, Handling
    <2>2. \/ job' = [job EXCEPT ![j] = Progressed(job[j])]
          \/ job' = job
      BY <1>15, Zenon DEF ReportProgress
    <2>3. step' = step
      BY <1>15 DEF ReportProgress
    <2> HIDE DEF j
    <2> QED BY <2>1, <2>2, <2>3
  <1>16. ASSUME NEW w \in Workers, CompleteAssetIngestion(w) PROVE Rows'
    BY <1>16 DEF CompleteAssetIngestion, Handling
  <1>17. ASSUME NEW w \in Workers, FailAssetIngestion(w) PROVE Rows'
    BY <1>17 DEF FailAssetIngestion, Handling
  <1>18. ASSUME NEW w \in Workers, HeartbeatTimer(w) PROVE Rows'
    BY <1>18, BeatRows DEF HeartbeatTimer, Handling
  <1>19. ASSUME NEW w \in Workers, Stop(w) PROVE Rows'
    BY <1>19 DEF Stop
  <1>20. ASSUME NEW w \in Workers, Crash(w) PROVE Rows'
    BY <1>20 DEF Crash
  <1>21. ASSUME NEW w \in Workers, Exit(w) PROVE Rows'
    BY <1>21 DEF Exit
  <1>22. CASE UNCHANGED vars
    BY <1>22
  <1>23. CASE Next
    BY <1>1, <1>2, <1>3, <1>4, <1>5, <1>5a, <1>5b, <1>5c, <1>5d, <1>6,
       <1>7, <1>8, <1>9, <1>10, <1>11,
       <1>12, <1>13, <1>14, <1>15, <1>16, <1>17, <1>18, <1>19, <1>20,
       <1>21, <1>23, NextCases, Zenon
  <1> QED BY <1>22, <1>23

(* What each assignment to a process's record returns. *)
LEMMA WorkerRows ==
  ASSUME NEW r \in Worker
  PROVE  /\ \A pc \in Points : [r EXCEPT !.pc = pc] \in Worker
         /\ \A b \in BOOLEAN :
              [r EXCEPT !.pc = "failing", !.retryable = b] \in Worker
         /\ \A j \in Jobs, v \in Nat :
              [r EXCEPT !.pc = "cleanup", !.job = j, !.jobVersion = v]
                \in Worker
         /\ \A j \in Jobs, v, u, n \in Nat :
              [r EXCEPT !.pc = "claimed", !.job = j, !.jobVersion = v,
                        !.stepVersion = u, !.attempt = n] \in Worker
         /\ \A pc \in Points, v, u, n \in Nat :
              [r EXCEPT !.pc = pc, !.jobVersion = v, !.stepVersion = u,
                        !.beats = n] \in Worker
         /\ \A v \in Nat :
              [r EXCEPT !.pc = "progressed", !.jobVersion = v] \in Worker
         /\ \A life \in {"down", "up", "stopping"} :
              Idle(life) \in Worker /\ [r EXCEPT !.life = life] \in Worker
  BY DEF Worker, Points, Idle, Holding

(* The four ways a handler's process moves keep its record well formed. *)
LEMMA Moves ==
  ASSUME Processes, ClaimsHeld, NEW w \in Workers,
         worker[w].pc # "idle" \/ GiveUp(w),
         \/ \E pc \in Points \ {"idle"} : Goto(w, pc)
         \/ \E retryable \in BOOLEAN : FailWith(w, retryable)
         \/ GiveUp(w)
         \/ \E r \in Worker : /\ worker' = [worker EXCEPT ![w] = r]
                              /\ r.job \in Jobs
                              /\ r.life \in ActiveLife
  PROVE  Processes' /\ ClaimsHeld'
  <1> USE KernelAssumption DEF Processes, ClaimsHeld
  <1>1. ASSUME NEW pc \in Points \ {"idle"}, Goto(w, pc), worker[w].pc # "idle"
        PROVE  Processes' /\ ClaimsHeld'
    BY <1>1 DEF Goto, Worker
  <1>2. ASSUME NEW retryable \in BOOLEAN, FailWith(w, retryable),
               worker[w].pc # "idle"
        PROVE  Processes' /\ ClaimsHeld'
    <2>0. worker[w] \in Worker
      OBVIOUS
    <2>1. [worker[w] EXCEPT !.pc = "failing", !.retryable = retryable] \in Worker
      BY <2>0, WorkerRows
    <2>2. worker' = [worker EXCEPT ![w] = [worker[w] EXCEPT
                       !.pc = "failing", !.retryable = retryable]]
      BY <1>2 DEF FailWith
    <2>3. worker'[w].job = worker[w].job /\ worker'[w].life = worker[w].life
      BY <2>2 DEF Worker
    <2> QED BY <1>2, <2>1, <2>2, <2>3
  <1>3. ASSUME GiveUp(w) PROVE Processes' /\ ClaimsHeld'
    <2>1. /\ Idle(worker[w].life) \in Worker
          /\ Idle(worker[w].life).pc = "idle"
      BY DEF Idle, Holding, Worker, Points
    <2> QED BY <1>3, <2>1 DEF GiveUp
  <1>4. ASSUME NEW r \in Worker, worker' = [worker EXCEPT ![w] = r],
               r.job \in Jobs, r.life \in ActiveLife
        PROVE  Processes' /\ ClaimsHeld'
    BY <1>4
  <1> QED BY <1>1, <1>2, <1>3, <1>4

LEMMA Beats ==
  ASSUME Processes, ClaimsHeld, NEW w \in Workers, worker[w].pc # "idle",
         job' \in [Jobs -> Job], step' \in [Jobs -> Step],
         NEW pc \in Points \ {"idle"}, Beat(w, pc)
  PROVE  Processes' /\ ClaimsHeld'
  <1> DEFINE j == worker[w].job
  <1> DEFINE r == [worker[w] EXCEPT !.pc = pc, !.jobVersion = job'[j].version,
                      !.stepVersion = step'[j].version,
                      !.beats = worker[w].beats + 1]
  <1>1. worker[w] \in Worker /\ j \in Jobs
    BY DEF Processes, ClaimsHeld
  <1>2. /\ job'[j].version \in Nat
        /\ step'[j].version \in Nat
        /\ worker[w].beats + 1 \in Nat
    BY <1>1 DEF Job, Step, Worker
  <1>3. r \in Worker /\ r.job \in Jobs /\ r.life = worker[w].life
    <2>1. r \in Worker
      BY <1>1, <1>2, WorkerRows
    <2>2. r.job = worker[w].job /\ r.life = worker[w].life
      BY <1>1 DEF Worker
    <2> QED BY <1>1, <2>1, <2>2
  <1>4. worker' = [worker EXCEPT ![w] = r] \/ Goto(w, pc)
    <2>1. CASE HoldsLease(w) /\ worker[w].life = "up"
      BY <2>1, Zenon DEF Beat
    <2>2. CASE ~(HoldsLease(w) /\ worker[w].life = "up")
      BY <2>2 DEF Beat
    <2> QED BY <2>1, <2>2
  <1> HIDE DEF r
  <1>5. worker[w].life \in ActiveLife
    BY DEF ClaimsHeld
  <1> QED BY <1>3, <1>4, <1>5, Moves

LEMMA ProcessesStep == Typed /\ [Next]_vars => Processes' /\ ClaimsHeld'
  <1> SUFFICES ASSUME Typed, [Next]_vars PROVE Processes' /\ ClaimsHeld'
    OBVIOUS
  <1>a. job' \in [Jobs -> Job] /\ step' \in [Jobs -> Step]
    BY RowsStep DEF Rows
  <1>b. \A j \in Jobs : /\ job'[j].version \in Nat
                        /\ job'[j].attempts \in Nat
                        /\ step'[j].version \in Nat
    BY <1>a DEF Job, Step
  <1> USE KernelAssumption DEF Typed, Processes, ClaimsHeld, ActiveLife, Points
  <1>1. ASSUME NEW j \in Jobs, CompleteUpload(j) PROVE Processes' /\ ClaimsHeld'
    BY <1>1 DEF CompleteUpload
  <1>2. ASSUME NEW j \in Jobs, Cancel(j) PROVE Processes' /\ ClaimsHeld'
    BY <1>2 DEF Cancel
  <1>3. ASSUME NEW a \in Assets, SoftDelete(a) PROVE Processes' /\ ClaimsHeld'
    BY <1>3 DEF SoftDelete
  <1>4. ASSUME NEW a \in Assets, Restore(a) PROVE Processes' /\ ClaimsHeld'
    BY <1>4 DEF Restore
  <1>5. ASSUME NEW a \in Assets, RetryIngestion(a) PROVE Processes' /\ ClaimsHeld'
    BY <1>5 DEF RetryIngestion
  <1>5a. ASSUME NEW a \in Assets, FailUpload(a) PROVE Processes' /\ ClaimsHeld'
    BY <1>5a DEF FailUpload
  <1>5b. ASSUME NEW a \in Assets, FailStaleUpload(a) PROVE Processes' /\ ClaimsHeld'
    BY <1>5b DEF FailStaleUpload
  <1>5c. ASSUME NEW p \in Projects, DeleteProject(p) PROVE Processes' /\ ClaimsHeld'
    BY <1>5c DEF DeleteProject
  <1>5d. ASSUME NEW p \in Projects, RestoreProject(p) PROVE Processes' /\ ClaimsHeld'
    BY <1>5d DEF RestoreProject
  <1>6. CASE Tick
    BY <1>6 DEF Tick
  <1>7. ASSUME NEW w \in Workers, Start(w) PROVE Processes' /\ ClaimsHeld'
    BY <1>7 DEF Start, Fresh, Worker
  <1>8. ASSUME NEW w \in Workers, Reconcile(w) PROVE Processes' /\ ClaimsHeld'
    BY <1>8 DEF Reconcile
  <1>9. ASSUME NEW w \in Workers, ClaimCancellationCleanup(w) PROVE Processes' /\ ClaimsHeld'
    <2>1. PICK j \in Jobs :
             worker' = [worker EXCEPT ![w] = [worker[w] EXCEPT
                !.pc = "cleanup", !.job = j, !.jobVersion = job'[j].version]]
      BY <1>9, Zenon DEF ClaimCancellationCleanup, CleanupCandidates
    <2> DEFINE r == [worker[w] EXCEPT !.pc = "cleanup", !.job = j,
                                      !.jobVersion = job'[j].version]
    <2>2. worker[w] \in Worker /\ worker[w].life = "up"
      BY <1>9 DEF ClaimCancellationCleanup, Ready
    <2>3. r \in Worker
      BY <1>b, <2>2, WorkerRows
    <2>4. r.job = j /\ r.life = "up"
      BY <2>2 DEF Worker
    <2> HIDE DEF r
    <2> QED BY <2>1, <2>3, <2>4 DEF r
  <1>10. ASSUME NEW w \in Workers, ClaimNext(w) PROVE Processes' /\ ClaimsHeld'
    <2>1. PICK j \in Jobs :
             worker' = [worker EXCEPT ![w] = [worker[w] EXCEPT
                !.pc = "claimed", !.job = j, !.jobVersion = job'[j].version,
                !.stepVersion = step'[j].version,
                !.attempt = job'[j].attempts]]
      BY <1>10, Zenon DEF ClaimNext
    <2> DEFINE r == [worker[w] EXCEPT !.pc = "claimed", !.job = j,
                       !.jobVersion = job'[j].version,
                       !.stepVersion = step'[j].version,
                       !.attempt = job'[j].attempts]
    <2>2. worker[w] \in Worker /\ worker[w].life = "up"
      BY <1>10 DEF ClaimNext, Ready
    <2>3. r \in Worker
      BY <1>b, <2>2, WorkerRows
    <2>4. r.job = j /\ r.life = "up"
      BY <2>2 DEF Worker
    <2> HIDE DEF r
    <2> QED BY <2>1, <2>3, <2>4 DEF r
  <1>11. ASSUME NEW w \in Workers, CompleteCancellationCleanup(w) PROVE Processes' /\ ClaimsHeld'
    <2>1. worker[w].pc # "idle"
      BY <1>11 DEF CompleteCancellationCleanup, Handling
    <2>2. \/ GiveUp(w)
          \/ Goto(w, "rejected")
      BY <1>11 DEF CompleteCancellationCleanup
    <2> QED BY <2>1, <2>2, Moves
  <1>12. ASSUME NEW w \in Workers, StartHandling(w) PROVE Processes' /\ ClaimsHeld'
    <2>1. worker[w].pc # "idle"
      BY <1>12 DEF StartHandling, Handling
    <2>2. \/ Goto(w, "inspecting")
          \/ FailWith(w, FALSE)
      BY <1>12 DEF StartHandling
    <2> QED BY <2>1, <2>2, Moves
  <1>13. ASSUME NEW w \in Workers, Inspected(w) PROVE Processes' /\ ClaimsHeld'
    <2>1. worker[w].pc # "idle"
      BY <1>13 DEF Inspected, Handling
    <2>2. \/ Goto(w, "inspected")
          \/ \E retryable \in BOOLEAN : FailWith(w, retryable)
      BY <1>13 DEF Inspected
    <2> QED BY <2>1, <2>2, Moves
  <1>14. ASSUME NEW w \in Workers, HeartbeatAfterInspection(w) PROVE Processes' /\ ClaimsHeld'
    <2>1. worker[w].pc # "idle" /\ Beat(w, "beaten")
      BY <1>14 DEF HeartbeatAfterInspection, Handling
    <2> QED BY <1>a, <2>1, Beats
  <1>15. ASSUME NEW w \in Workers, ReportProgress(w) PROVE Processes' /\ ClaimsHeld'
    <2> DEFINE j == worker[w].job
    <2> DEFINE r == [worker[w] EXCEPT !.pc = "progressed",
                                      !.jobVersion = job'[j].version]
    <2>1. worker[w].pc # "idle"
      BY <1>15 DEF ReportProgress, Handling
    <2>2. r \in Worker /\ r.job \in Jobs /\ r.life \in ActiveLife
      <3>1. worker[w] \in Worker /\ j \in Jobs /\ worker[w].life \in ActiveLife
        BY <2>1
      <3>2. r \in Worker
        BY <1>b, <3>1, WorkerRows
      <3>3. r.job = j /\ r.life = worker[w].life
        BY <3>1 DEF Worker
      <3> QED BY <3>1, <3>2, <3>3
    <2>3. \/ worker' = [worker EXCEPT ![w] = r]
          \/ Goto(w, "progressed")
          \/ FailWith(w, TRUE)
      BY <1>15 DEF ReportProgress
    <2> HIDE DEF r
    <2> QED BY <2>1, <2>2, <2>3, Moves
  <1>16. ASSUME NEW w \in Workers, CompleteAssetIngestion(w) PROVE Processes' /\ ClaimsHeld'
    <2>1. worker[w].pc # "idle"
      BY <1>16 DEF CompleteAssetIngestion, Handling
    <2>2. \/ GiveUp(w)
          \/ FailWith(w, ~HoldsLease(w))
      BY <1>16 DEF CompleteAssetIngestion
    <2>3. (~HoldsLease(w)) \in BOOLEAN
      BY DEF HoldsLease
    <2> QED BY <2>1, <2>2, <2>3, Moves
  <1>17. ASSUME NEW w \in Workers, FailAssetIngestion(w) PROVE Processes' /\ ClaimsHeld'
    <2>1. worker[w].pc # "idle"
      BY <1>17 DEF FailAssetIngestion, Handling
    <2>2. \/ GiveUp(w)
          \/ Goto(w, "rejected")
      BY <1>17 DEF FailAssetIngestion
    <2> QED BY <2>1, <2>2, Moves
  <1>18. ASSUME NEW w \in Workers, HeartbeatTimer(w) PROVE Processes' /\ ClaimsHeld'
    <2>1. worker[w].pc # "idle" /\ Beat(w, "inspecting")
      BY <1>18 DEF HeartbeatTimer, Handling
    <2> QED BY <1>a, <2>1, Beats
  <1>19. ASSUME NEW w \in Workers, Stop(w) PROVE Processes' /\ ClaimsHeld'
    BY <1>19 DEF Stop, LoopFree, Worker
  <1>20. ASSUME NEW w \in Workers, Crash(w) PROVE Processes' /\ ClaimsHeld'
    BY <1>20 DEF Crash, Idle, Holding, Worker
  <1>21. ASSUME NEW w \in Workers, Exit(w) PROVE Processes' /\ ClaimsHeld'
    BY <1>21 DEF Exit, Idle, Holding, Worker
  <1>22. CASE UNCHANGED vars
    BY <1>22
  <1>23. CASE Next
    BY <1>1, <1>2, <1>3, <1>4, <1>5, <1>5a, <1>5b, <1>5c, <1>5d, <1>6,
       <1>7, <1>8, <1>9, <1>10, <1>11,
       <1>12, <1>13, <1>14, <1>15, <1>16, <1>17, <1>18, <1>19, <1>20,
       <1>21, <1>23, NextCases, Zenon
  <1> QED BY <1>22, <1>23

LEMMA Emitting ==
  ASSUME NEW j \in Jobs, NEW type \in EventTypes, stream \in [Jobs -> Stream],
         Emit(j, type) \/ EmitTerminal(j, type)
  PROVE  stream' \in [Jobs -> Stream]
  <1>1. /\ stream[j].settled + 1 \in Nat
        /\ stream[j] \in Stream
    BY DEF Stream
  <1>2. [stream[j] EXCEPT !.last = type] \in Stream
    BY <1>1 DEF Stream
  <1>3. [last |-> type, settled |-> stream[j].settled + 1] \in Stream
    BY <1>1 DEF Stream
  <1>4. \/ stream' = [stream EXCEPT ![j] = [stream[j] EXCEPT !.last = type]]
        \/ stream' = [stream EXCEPT ![j] =
                        [last |-> type, settled |-> stream[j].settled + 1]]
    BY DEF Emit, EmitTerminal
  <1> QED BY <1>2, <1>3, <1>4

LEMMA RestStep == Typed /\ [Next]_vars => Rest'
  <1> SUFFICES ASSUME Typed, [Next]_vars PROVE Rest'
    OBVIOUS
  <1>b. /\ spent.deletes + 1 \in Nat
        /\ spent.crashes + 1 \in Nat
        /\ spent.rejections + 1 \in Nat
        /\ \A a \in Assets : spent.stale[a] + 1 \in Nat
        /\ spent.stalls + Cardinality(AboutToLapse) \in Nat
    <2>1. /\ spent.stalls \in Nat
          /\ spent.deletes \in Nat
          /\ spent.crashes \in Nat
          /\ spent.rejections \in Nat
          /\ \A a \in Assets : spent.stale[a] \in Nat
      BY DEF Typed, Rest
    <2>2. IsFiniteSet(AboutToLapse)
      BY KernelAssumption, FS_Subset DEF AboutToLapse
    <2>3. Cardinality(AboutToLapse) \in Nat
      BY <2>2, FS_CardinalityType
    <2> QED BY <2>1, <2>3
  <1>c. /\ \A j \in Jobs : [stream[j] EXCEPT !.last = "job.queued"] \in Stream
        /\ [last |-> "job.queued", settled |-> 0] \in Stream
    BY DEF Typed, Rest, Stream, EventTypes
  <1> USE <1>b, <1>c, KernelAssumption, Emitting
      DEF Typed, Rest, ClaimsHeld, EventTypes
  <1>1. ASSUME NEW j \in Jobs, CompleteUpload(j) PROVE Rest'
    <2>1. asset' \in [Assets -> Asset]
      <3>1. asset' = [asset EXCEPT ![AssetOf[j]].ingestion = "processing"]
        BY <1>1 DEF CompleteUpload
      <3> QED BY <3>1 DEF Asset, IngestionStatuses
    <2>2. stream' \in [Jobs -> Stream]
      <3>1. Admit({j}) \/ stream' = stream
        BY <1>1 DEF CompleteUpload
      <3> QED BY <3>1 DEF Admit
    <2>3. spent' = spent
      BY <1>1 DEF CompleteUpload
    <2> QED BY <2>1, <2>2, <2>3
  <1>2. ASSUME NEW j \in Jobs, Cancel(j) PROVE Rest'
    BY <1>2 DEF Cancel
  <1>3. ASSUME NEW a \in Assets, SoftDelete(a) PROVE Rest'
    <2>1. /\ asset' = [asset EXCEPT ![a] = [asset[a] EXCEPT !.active = FALSE]]
          /\ spent' = [spent EXCEPT !.deletes = spent.deletes + 1]
          /\ stream' = stream
      BY <1>3 DEF SoftDelete
    <2>2. [asset[a] EXCEPT !.active = FALSE] \in Asset
      <3>1. asset[a] \in Asset
        BY DEF Rest
      <3> QED BY ONLY <3>1 DEF Asset
    <2> QED BY <2>1, <2>2
  <1>4. ASSUME NEW a \in Assets, Restore(a) PROVE Rest'
    <2>1. /\ asset' = [asset EXCEPT ![a] = [asset[a] EXCEPT !.active = TRUE]]
          /\ spent' = spent /\ stream' = stream
      BY <1>4 DEF Restore
    <2>2. [asset[a] EXCEPT !.active = TRUE] \in Asset
      <3>1. asset[a] \in Asset
        BY DEF Rest
      <3> QED BY ONLY <3>1 DEF Asset
    <2> QED BY <2>1, <2>2
  <1>5. ASSUME NEW a \in Assets, RetryIngestion(a) PROVE Rest'
    BY <1>5 DEF RetryIngestion, Asset, IngestionStatuses
  <1>5a. ASSUME NEW a \in Assets, FailUpload(a) PROVE Rest'
    BY <1>5a DEF FailUpload, Asset, IngestionStatuses
  <1>5b. ASSUME NEW a \in Assets, FailStaleUpload(a) PROVE Rest'
    <2> DEFINE n == spent.stale[a] + 1
    <2>1. /\ asset' = [asset EXCEPT ![a] =
                        [asset[a] EXCEPT !.ingestion = "failed"]]
          /\ spent' = [spent EXCEPT !.stale = [spent.stale EXCEPT ![a] = n]]
          /\ stream' = stream
      BY <1>5b DEF FailStaleUpload
    <2>2. [asset[a] EXCEPT !.ingestion = "failed"] \in Asset
      BY DEF Asset, IngestionStatuses
    <2>3. n \in Nat
      OBVIOUS
    <2> HIDE DEF n
    <2>4. [spent.stale EXCEPT ![a] = n] \in [Assets -> Nat]
      BY <2>3
    <2> QED BY <2>1, <2>2, <2>4
  <1>5c. ASSUME NEW p \in Projects, DeleteProject(p) PROVE Rest'
    <2>1. asset' \in [Assets -> Asset]
      <3>1. \A b \in Assets : asset[b] \in Asset
        BY DEF Rest
      <3>2. \A b \in Assets :
               [asset[b] EXCEPT !.projectActive = FALSE] \in Asset
        BY ONLY <3>1 DEF Asset
      <3>3. asset' = InProject(p, FALSE)
        BY <1>5c DEF DeleteProject
      <3> QED BY ONLY <3>1, <3>2, <3>3 DEF InProject
    <2>2. /\ spent' = [spent EXCEPT !.deletes = spent.deletes + 1]
          /\ stream' = stream
      BY <1>5c DEF DeleteProject
    <2> QED BY <2>1, <2>2
  <1>5d. ASSUME NEW p \in Projects, RestoreProject(p) PROVE Rest'
    BY <1>5d DEF RestoreProject, InProject, Asset
  <1>6. CASE Tick
    BY <1>6 DEF Tick
  <1>7. ASSUME NEW w \in Workers, Start(w) PROVE Rest'
    BY <1>7 DEF Start, Admit
  <1>8. ASSUME NEW w \in Workers, Reconcile(w) PROVE Rest'
    BY <1>8 DEF Reconcile
  <1>9. ASSUME NEW w \in Workers, ClaimCancellationCleanup(w) PROVE Rest'
    BY <1>9 DEF ClaimCancellationCleanup
  <1>10. ASSUME NEW w \in Workers, ClaimNext(w) PROVE Rest'
    <2>1. PICK j \in Jobs : Emit(j, "step.started")
      BY <1>10, Zenon DEF ClaimNext
    <2>2. asset' = asset /\ spent' = spent
      BY <1>10 DEF ClaimNext
    <2> QED BY <2>1, <2>2
  <1>11. ASSUME NEW w \in Workers, CompleteCancellationCleanup(w) PROVE Rest'
    <2>1. worker[w].job \in Jobs
      BY <1>11 DEF CompleteCancellationCleanup, Handling
    <2>2. \/ EmitTerminal(worker[w].job, "job.cancelled")
          \/ stream' = stream
      BY <1>11, Zenon DEF CompleteCancellationCleanup
    <2>3. asset' = asset /\ spent' = spent
      BY <1>11 DEF CompleteCancellationCleanup
    <2> QED BY <2>1, <2>2, <2>3
  <1>12. ASSUME NEW w \in Workers, StartHandling(w) PROVE Rest'
    BY <1>12 DEF StartHandling
  <1>13. ASSUME NEW w \in Workers, Inspected(w) PROVE Rest'
    BY <1>13 DEF Inspected
  <1>14. ASSUME NEW w \in Workers, HeartbeatAfterInspection(w) PROVE Rest'
    BY <1>14 DEF HeartbeatAfterInspection
  <1>15. ASSUME NEW w \in Workers, ReportProgress(w) PROVE Rest'
    <2>1. worker[w].job \in Jobs
      BY <1>15 DEF ReportProgress, Handling
    <2>2. \/ Emit(worker[w].job, "job.progress")
          \/ stream' = stream
      BY <1>15, Zenon DEF ReportProgress
    <2>3. asset' = asset /\ spent' = spent
      BY <1>15 DEF ReportProgress
    <2> QED BY <2>1, <2>2, <2>3
  <1>16. ASSUME NEW w \in Workers, CompleteAssetIngestion(w) PROVE Rest'
    <2> DEFINE j == worker[w].job
    <2>1. j \in Jobs
      BY <1>16 DEF CompleteAssetIngestion, Handling
    <2>2. \/ stream' = stream /\ asset' = asset
          \/ /\ EmitTerminal(j, "job.succeeded")
             /\ asset' = [asset EXCEPT ![AssetOf[j]].ingestion = "ready"]
      BY <1>16, Zenon DEF CompleteAssetIngestion
    <2>3. spent' = spent
      BY <1>16 DEF CompleteAssetIngestion
    <2>4. "job.succeeded" \in EventTypes
      OBVIOUS
    <2>5. stream' \in [Jobs -> Stream]
      BY <2>1, <2>2, <2>4, Emitting
    <2>6. asset' \in [Assets -> Asset]
      <3>1. AssetOf[j] \in Assets /\ asset[AssetOf[j]] \in Asset
        BY <2>1
      <3>2. [asset[AssetOf[j]] EXCEPT !.ingestion = "ready"] \in Asset
        BY <3>1 DEF Asset, IngestionStatuses
      <3> QED BY <2>2, <3>1, <3>2
    <2> QED BY <2>3, <2>5, <2>6
  <1>17. ASSUME NEW w \in Workers, FailAssetIngestion(w) PROVE Rest'
    <2> DEFINE j == worker[w].job
    <2>1. j \in Jobs
      BY <1>17 DEF FailAssetIngestion, Handling
    <2>2. \/ stream' = stream /\ asset' = asset
          \/ Emit(j, "step.retry_scheduled") /\ asset' = asset
          \/ /\ EmitTerminal(j, "job.failed")
             /\ asset' = [asset EXCEPT ![AssetOf[j]].ingestion = "failed"]
      BY <1>17, Zenon DEF FailAssetIngestion
    <2>3. spent' = spent
      BY <1>17 DEF FailAssetIngestion
    <2>4. "step.retry_scheduled" \in EventTypes /\ "job.failed" \in EventTypes
      OBVIOUS
    <2>5. stream' \in [Jobs -> Stream]
      BY <2>1, <2>2, <2>4, Emitting
    <2>6. asset' \in [Assets -> Asset]
      <3>1. AssetOf[j] \in Assets /\ asset[AssetOf[j]] \in Asset
        BY <2>1
      <3>2. [asset[AssetOf[j]] EXCEPT !.ingestion = "failed"] \in Asset
        BY <3>1 DEF Asset, IngestionStatuses
      <3> QED BY <2>2, <3>1, <3>2
    <2> QED BY <2>3, <2>5, <2>6
  <1>18. ASSUME NEW w \in Workers, HeartbeatTimer(w) PROVE Rest'
    BY <1>18 DEF HeartbeatTimer
  <1>19. ASSUME NEW w \in Workers, Stop(w) PROVE Rest'
    BY <1>19 DEF Stop
  <1>20. ASSUME NEW w \in Workers, Crash(w) PROVE Rest'
    BY <1>20 DEF Crash
  <1>21. ASSUME NEW w \in Workers, Exit(w) PROVE Rest'
    BY <1>21 DEF Exit
  <1>22. CASE UNCHANGED vars
    BY <1>22
  <1>23. CASE Next
    BY <1>1, <1>2, <1>3, <1>4, <1>5, <1>5a, <1>5b, <1>5c, <1>5d, <1>6,
       <1>7, <1>8, <1>9, <1>10, <1>11,
       <1>12, <1>13, <1>14, <1>15, <1>16, <1>17, <1>18, <1>19, <1>20,
       <1>21, <1>23, NextCases, Zenon
  <1> QED BY <1>22, <1>23

LEMMA TypedInit == Init => Typed
  <1>1. NoRow \in Job /\ NoStep \in Step
    BY DEF NoRow, NoStep, Job, Step, Statuses, StepStatuses
  <1>2. Idle("down") \in Worker /\ Idle("down").pc = "idle"
    BY DEF Idle, Holding, Worker, Points
  <1>3. [last |-> "none", settled |-> 0] \in Stream
    BY DEF Stream, EventTypes
  <1>4. Init => Rows
    BY <1>1 DEF Init, Rows
  <1>5. Init => Processes /\ ClaimsHeld
    BY <1>2 DEF Init, Processes, ClaimsHeld
  <1>6. Init => Rest
    <2>1. [ingestion : {"uploading", "processing"}, active : {TRUE},
           projectActive : BOOLEAN] \subseteq Asset
      BY DEF Asset, IngestionStatuses
    <2>2. Init => asset \in [Assets -> Asset]
      BY <2>1 DEF Init
    <2>3. Init => stream \in [Jobs -> Stream]
      BY <1>3 DEF Init
    <2>4. Init => spent \in [stalls : Nat, crashes : Nat, rejections : Nat,
                            deletes : Nat, stale : [Assets -> Nat]]
      BY DEF Init
    <2> QED BY <2>2, <2>3, <2>4 DEF Rest
  <1> QED BY <1>4, <1>5, <1>6 DEF Typed

LEMMA TypedStep == Typed /\ [Next]_vars => Typed'
  BY RowsStep, ProcessesStep, RestStep DEF Typed

LEMMA AlwaysTyped == Spec => []Typed
  BY TypedInit, TypedStep, PTL DEF Spec

(* Rows, records and counters keep their types, and a process that is not   *)
(* idle holds the claim of a Job.                                           *)
THEOREM TypeCorrect == Spec => []TypeOK
  <1>1. Typed => TypeOK
    BY DEF Typed, Rows, Processes, Rest, TypeOK
  <1> QED BY <1>1, AlwaysTyped, PTL

-----------------------------------------------------------------------------
(***************************************************************************)
(* What can happen to the two rows of one Job, and what follows for every  *)
(* interleaving: the rows agree, progress never falls, the kernel          *)
(* implements JobStateMachine, only the latest claim settles a Job, the    *)
(* events tell the rows' truth, Assets follow their Jobs, nobody works on  *)
(* a cancelled Job, and claims beyond the policy answer losses.            *)
(***************************************************************************)

Working == {"claimed", "inspecting", "inspected", "beaten", "progressed",
            "failing"}

(* Process w claims Job j in this step. *)
ClaimedBy(w, j) ==
  /\ worker[w].pc = "idle"
  /\ worker'[w].job = j
  /\ worker'[w].attempt = job'[j].attempts

(* Process w works on its claim of Job j and still holds the lease. *)
HeldBy(w, j) ==
  /\ worker[w].pc \in Working
  /\ worker[w].life \in ActiveLife
  /\ worker[w].job = j
  /\ HoldsLease(w)

(* Every change some action makes to Job j's row r and its root step's row  *)
(* s, with who makes it and the guards that matter below.                   *)
RowMove(j, r, s, r2, s2) ==
  \/ r2 = r /\ s2 = s
  \/ r2 = Aged(r) /\ s2 = Aged(s)
  \/ r.status = "absent" /\ r2 = QueuedRow /\ s2 = PendingStep
  \/ r.status \in Cancellable /\ r2 = Bumped(r, "cancel_requested") /\ s2 = s
  \/ /\ r.status = "running"
     /\ r2 = Requeued(r, "queued")
     /\ s2 = IF s.status = "running" THEN Requeued(s, "pending") ELSE s
  \/ /\ r.status = "retry_scheduled"
     /\ r2 = Bumped(r, "queued")
     /\ s2 = IF s.status = "retry_scheduled" THEN Bumped(s, "pending") ELSE s
  \/ /\ r.status \in {"waiting_provider", "cancel_requested"}
     /\ r2 = Released(r)
     /\ s2 = s
  \/ /\ r.status = "cancel_requested"
     /\ \E w \in Workers : r2 = Leased(r, w)
     /\ s2 = s
  \/ /\ r.status = "cancel_requested"
     /\ r2 = Settled(r, "cancelled")
     /\ s2 = IF s.status \in {"pending", "running", "waiting_provider",
                              "retry_scheduled"}
             THEN Settled(s, "cancelled") ELSE s
  \/ /\ r.status = "queued"
     /\ s.status = "pending"
     /\ \E w \in Workers : /\ ClaimedBy(w, j)
                           /\ r2 = Claimed(r, w)
                           /\ s2 = Taken(s, w)
  \/ /\ r.status = "running"
     /\ s.status = "running"
     /\ \E w \in Workers :
          /\ HeldBy(w, j)
          /\ \/ r2 = Leased(r, w) /\ s2 = Leased(s, w)
             \/ r.progress < 1 /\ r2 = Progressed(r) /\ s2 = s
             \/ r2 = Completed(r) /\ s2 = Settled(s, "completed")
             \/ r2 = Delayed(r) /\ s2 = Delayed(s)
             \/ r2 = Settled(r, "failed") /\ s2 = Settled(s, "failed")

MovedRows == \A j \in Jobs : RowMove(j, job[j], step[j], job'[j], step'[j])

(* An action that moves the rows of one Job, or the Job's row only. *)
LEMMA OneRow ==
  ASSUME Rows, NEW j \in Jobs, NEW r2, NEW s2,
         job' = [job EXCEPT ![j] = r2] \/ (job' = job /\ r2 = job[j]),
         step' = [step EXCEPT ![j] = s2] \/ (step' = step /\ s2 = step[j]),
         RowMove(j, job[j], step[j], r2, s2)
  PROVE  MovedRows
  <1> SUFFICES ASSUME NEW k \in Jobs
               PROVE  RowMove(k, job[k], step[k], job'[k], step'[k])
    BY DEF MovedRows
  <1>1. CASE k = j
    <2>1. job'[k] = r2 /\ step'[k] = s2
      BY <1>1 DEF Rows
    <2> QED BY <1>1, <2>1
  <1>2. CASE k # j
    <2>1. job'[k] = job[k] /\ step'[k] = step[k]
      BY <1>2 DEF Rows
    <2> QED BY <2>1 DEF RowMove
  <1> QED BY <1>1, <1>2

LEMMA BeatMoves ==
  ASSUME Rows, NEW w \in Workers, NEW pc, worker[w].job \in Jobs,
         worker[w].pc \in Working, Beat(w, pc)
  PROVE  MovedRows
  <1> DEFINE j == worker[w].job
  <1>1. CASE HoldsLease(w) /\ worker[w].life = "up"
    <2>1. /\ job' = [job EXCEPT ![j] = Leased(job[j], w)]
          /\ step' = [step EXCEPT ![j] = Leased(step[j], w)]
      BY <1>1, Zenon DEF Beat
    <2>2. job[j].status = "running" /\ step[j].status = "running"
      BY <1>1 DEF HoldsLease
    <2>3. RowMove(j, job[j], step[j], Leased(job[j], w), Leased(step[j], w))
      BY <1>1, <2>2 DEF RowMove, HeldBy, ActiveLife
    <2> QED BY <2>1, <2>3, OneRow
  <1>2. CASE ~(HoldsLease(w) /\ worker[w].life = "up")
    <2>1. UNCHANGED <<job, step>>
      BY <1>2 DEF Beat
    <2> QED BY <2>1 DEF MovedRows, RowMove
  <1> QED BY <1>1, <1>2

LEMMA RowMoves == Typed /\ [Next]_vars => MovedRows
  <1> SUFFICES ASSUME Typed, [Next]_vars PROVE MovedRows
    OBVIOUS
  <1> USE DEF Typed, Rows, MovedRows, RowMove, ClaimsHeld
  <1>1. ASSUME NEW j \in Jobs, CompleteUpload(j) PROVE MovedRows
    BY <1>1 DEF CompleteUpload, Admit
  <1>2. ASSUME NEW j \in Jobs, Cancel(j) PROVE MovedRows
    BY <1>2 DEF Cancel
  <1>3. ASSUME NEW a \in Assets, SoftDelete(a) PROVE MovedRows
    BY <1>3 DEF SoftDelete
  <1>4. ASSUME NEW a \in Assets, Restore(a) PROVE MovedRows
    BY <1>4 DEF Restore
  <1>5. ASSUME NEW a \in Assets, RetryIngestion(a) PROVE MovedRows
    BY <1>5 DEF RetryIngestion
  <1>5a. ASSUME NEW a \in Assets, FailUpload(a) PROVE MovedRows
    BY <1>5a DEF FailUpload
  <1>5b. ASSUME NEW a \in Assets, FailStaleUpload(a) PROVE MovedRows
    BY <1>5b DEF FailStaleUpload
  <1>5c. ASSUME NEW p \in Projects, DeleteProject(p) PROVE MovedRows
    BY <1>5c DEF DeleteProject
  <1>5d. ASSUME NEW p \in Projects, RestoreProject(p) PROVE MovedRows
    BY <1>5d DEF RestoreProject
  <1>6. CASE Tick
    BY <1>6 DEF Tick
  <1>7. ASSUME NEW w \in Workers, Start(w) PROVE MovedRows
    <2>1. PICK S \in SUBSET {j \in Jobs : AssetOf[j] \in Orphans} : Admit(S)
      BY <1>7 DEF Start
    <2>2. \A j \in S : job[j].status = "absent"
      BY <2>1 DEF Orphans, Inserted
    <2> QED BY <2>1, <2>2 DEF Admit
  <1>8. ASSUME NEW w \in Workers, Reconcile(w) PROVE MovedRows
    <2> SUFFICES ASSUME NEW j \in Jobs
                 PROVE  RowMove(j, job[j], step[j], job'[j], step'[j])
      OBVIOUS
    <2>1. CASE j \in Expired
      <3>1. /\ job[j].status = "running"
            /\ job'[j] = Requeued(job[j], "queued")
            /\ step'[j] = IF step[j].status = "running"
                          THEN Requeued(step[j], "pending") ELSE step[j]
        BY <1>8, <2>1 DEF Reconcile, Expired, DueRetries
      <3> QED BY <3>1
    <2>2. CASE j \in DueRetries
      <3>1. /\ job[j].status = "retry_scheduled"
            /\ job'[j] = Bumped(job[j], "queued")
            /\ step'[j] = IF step[j].status = "retry_scheduled"
                          THEN Bumped(step[j], "pending") ELSE step[j]
        BY <1>8, <2>2 DEF Reconcile, Expired, DueRetries
      <3> QED BY <3>1
    <2>3. CASE j \notin Expired \cup DueRetries
      <3>1. step'[j] = step[j]
        BY <1>8, <2>3 DEF Reconcile
      <3>2. \/ job'[j] = job[j]
            \/ job'[j] = Released(job[j]) /\ j \in LapsedHolds
        BY <1>8, <2>3 DEF Reconcile
      <3> QED BY <3>1, <3>2 DEF LapsedHolds
    <2> QED BY <2>1, <2>2, <2>3
  <1>9. ASSUME NEW w \in Workers, ClaimCancellationCleanup(w) PROVE MovedRows
    <2>1. PICK j \in Jobs : /\ job[j].status = "cancel_requested"
                            /\ job' = [job EXCEPT ![j] = Leased(job[j], w)]
      BY <1>9, Zenon DEF ClaimCancellationCleanup, CleanupCandidates
    <2>2. step' = step
      BY <1>9 DEF ClaimCancellationCleanup
    <2>3. RowMove(j, job[j], step[j], Leased(job[j], w), step[j])
      BY <2>1
    <2> QED BY <2>1, <2>2, <2>3, OneRow
  <1>10. ASSUME NEW w \in Workers, ClaimNext(w) PROVE MovedRows
    <2>1. PICK j \in Jobs : /\ job[j].status = "queued"
                            /\ step[j].status = "pending"
                            /\ job' = [job EXCEPT ![j] = Claimed(job[j], w)]
                            /\ step' = [step EXCEPT ![j] = Taken(step[j], w)]
                            /\ worker' = [worker EXCEPT ![w] = [worker[w] EXCEPT
                                 !.pc = "claimed", !.job = j,
                                 !.jobVersion = job'[j].version,
                                 !.stepVersion = step'[j].version,
                                 !.attempt = job'[j].attempts]]
      BY <1>10, Zenon DEF ClaimNext
    <2>3. worker[w].pc = "idle"
      BY <1>10 DEF ClaimNext, Ready
    <2>c. ClaimedBy(w, j)
      BY <2>1, <2>3 DEF ClaimedBy, Processes, Worker
    <2>2. RowMove(j, job[j], step[j], Claimed(job[j], w), Taken(step[j], w))
      BY <2>1, <2>c
    <2> QED BY <2>1, <2>2, OneRow
  <1>11. ASSUME NEW w \in Workers, CompleteCancellationCleanup(w) PROVE MovedRows
    <2> DEFINE j == worker[w].job
    <2> DEFINE Open == {"pending", "running", "waiting_provider",
                        "retry_scheduled"}
    <2>1. j \in Jobs
      BY <1>11 DEF CompleteCancellationCleanup, Handling
    <2>2. CASE ~HoldsCleanup(w)
      BY <1>11, <2>2 DEF CompleteCancellationCleanup
    <2>3. CASE HoldsCleanup(w)
      <3>1. /\ job[j].status = "cancel_requested"
            /\ job' = [job EXCEPT ![j] = Settled(job[j], "cancelled")]
            /\ step' = IF step[j].status \in Open
                       THEN [step EXCEPT ![j] = Settled(step[j], "cancelled")]
                       ELSE step
        BY <1>11, <2>3, Zenon DEF CompleteCancellationCleanup, HoldsCleanup
      <3>2. CASE step[j].status \in Open
        <4>1. RowMove(j, job[j], step[j], Settled(job[j], "cancelled"),
                      Settled(step[j], "cancelled"))
          BY <3>1, <3>2
        <4> QED BY <2>1, <3>1, <3>2, <4>1, OneRow
      <3>3. CASE step[j].status \notin Open
        <4>1. RowMove(j, job[j], step[j], Settled(job[j], "cancelled"), step[j])
          BY <3>1, <3>3
        <4> QED BY <2>1, <3>1, <3>3, <4>1, OneRow
      <3> QED BY <3>2, <3>3
    <2> QED BY <2>2, <2>3
  <1>12. ASSUME NEW w \in Workers, StartHandling(w) PROVE MovedRows
    BY <1>12 DEF StartHandling
  <1>13. ASSUME NEW w \in Workers, Inspected(w) PROVE MovedRows
    BY <1>13 DEF Inspected
  <1>14. ASSUME NEW w \in Workers, HeartbeatAfterInspection(w) PROVE MovedRows
    BY <1>14, BeatMoves DEF HeartbeatAfterInspection, Handling, Working
  <1>15. ASSUME NEW w \in Workers, ReportProgress(w) PROVE MovedRows
    <2> DEFINE j == worker[w].job
    <2>1. j \in Jobs
      BY <1>15 DEF ReportProgress, Handling
    <2>h. HoldsLease(w) => HeldBy(w, j)
      BY <1>15 DEF ReportProgress, Handling, HeldBy, Working
    <2>2. step' = step
      BY <1>15 DEF ReportProgress
    <2>3. \/ job' = job
          \/ /\ HoldsLease(w)
             /\ job[j].progress < 1
             /\ job' = [job EXCEPT ![j] = Progressed(job[j])]
      BY <1>15, Zenon DEF ReportProgress
    <2>4. CASE job' = job
      BY <2>2, <2>4
    <2>5. CASE /\ HoldsLease(w)
               /\ job[j].progress < 1
               /\ job' = [job EXCEPT ![j] = Progressed(job[j])]
      <3>1. RowMove(j, job[j], step[j], Progressed(job[j]), step[j])
        BY <1>15, <2>5, <2>h DEF HoldsLease
      <3> QED BY <2>1, <2>2, <2>5, <3>1, OneRow
    <2> QED BY <2>3, <2>4, <2>5
  <1>16. ASSUME NEW w \in Workers, CompleteAssetIngestion(w) PROVE MovedRows
    <2> DEFINE j == worker[w].job
    <2>1. j \in Jobs
      BY <1>16 DEF CompleteAssetIngestion, Handling
    <2>h. HoldsLease(w) => HeldBy(w, j)
      BY <1>16 DEF CompleteAssetIngestion, Handling, HeldBy, Working
    <2>2. \/ UNCHANGED <<job, step>>
          \/ /\ HoldsLease(w)
             /\ job' = [job EXCEPT ![j] = Completed(job[j])]
             /\ step' = [step EXCEPT ![j] = Settled(step[j], "completed")]
      BY <1>16, Zenon DEF CompleteAssetIngestion
    <2>3. CASE UNCHANGED <<job, step>>
      BY <2>3
    <2>4. CASE /\ HoldsLease(w)
               /\ job' = [job EXCEPT ![j] = Completed(job[j])]
               /\ step' = [step EXCEPT ![j] = Settled(step[j], "completed")]
      <3>1. RowMove(j, job[j], step[j], Completed(job[j]),
                    Settled(step[j], "completed"))
        BY <1>16, <2>4, <2>h DEF HoldsLease
      <3> QED BY <2>1, <2>4, <3>1, OneRow
    <2> QED BY <2>2, <2>3, <2>4
  <1>17. ASSUME NEW w \in Workers, FailAssetIngestion(w) PROVE MovedRows
    <2> DEFINE j == worker[w].job
    <2>1. j \in Jobs
      BY <1>17 DEF FailAssetIngestion, Handling
    <2>h. HoldsLease(w) => HeldBy(w, j)
      BY <1>17 DEF FailAssetIngestion, Handling, HeldBy, Working
    <2>2. \/ UNCHANGED <<job, step>>
          \/ /\ HoldsLease(w)
             /\ job' = [job EXCEPT ![j] = Delayed(job[j])]
             /\ step' = [step EXCEPT ![j] = Delayed(step[j])]
          \/ /\ HoldsLease(w)
             /\ job' = [job EXCEPT ![j] = Settled(job[j], "failed")]
             /\ step' = [step EXCEPT ![j] = Settled(step[j], "failed")]
      BY <1>17, Zenon DEF FailAssetIngestion
    <2>3. CASE UNCHANGED <<job, step>>
      BY <2>3
    <2>4. CASE /\ HoldsLease(w)
               /\ job' = [job EXCEPT ![j] = Delayed(job[j])]
               /\ step' = [step EXCEPT ![j] = Delayed(step[j])]
      <3>1. RowMove(j, job[j], step[j], Delayed(job[j]), Delayed(step[j]))
        BY <1>17, <2>4, <2>h DEF HoldsLease
      <3> QED BY <2>1, <2>4, <3>1, OneRow
    <2>5. CASE /\ HoldsLease(w)
               /\ job' = [job EXCEPT ![j] = Settled(job[j], "failed")]
               /\ step' = [step EXCEPT ![j] = Settled(step[j], "failed")]
      <3>1. RowMove(j, job[j], step[j], Settled(job[j], "failed"),
                    Settled(step[j], "failed"))
        BY <1>17, <2>5, <2>h DEF HoldsLease
      <3> QED BY <2>1, <2>5, <3>1, OneRow
    <2> QED BY <2>2, <2>3, <2>4, <2>5
  <1>18. ASSUME NEW w \in Workers, HeartbeatTimer(w) PROVE MovedRows
    BY <1>18, BeatMoves DEF HeartbeatTimer, Handling, Working
  <1>19. ASSUME NEW w \in Workers, Stop(w) PROVE MovedRows
    BY <1>19 DEF Stop
  <1>20. ASSUME NEW w \in Workers, Crash(w) PROVE MovedRows
    BY <1>20 DEF Crash
  <1>21. ASSUME NEW w \in Workers, Exit(w) PROVE MovedRows
    BY <1>21 DEF Exit
  <1>22. CASE UNCHANGED vars
    BY <1>22 DEF vars
  <1>23. CASE Next
    BY <1>1, <1>2, <1>3, <1>4, <1>5, <1>5a, <1>5b, <1>5c, <1>5d, <1>6,
       <1>7, <1>8, <1>9, <1>10, <1>11,
       <1>12, <1>13, <1>14, <1>15, <1>16, <1>17, <1>18, <1>19, <1>20,
       <1>21, <1>23, NextCases, Zenon
  <1> QED BY <1>22, <1>23

-----------------------------------------------------------------------------
(* One Job's rows in every reachable state.  The progress column is part of *)
(* the invariant because nothing else says a completed Job alone reached    *)
(* its end.                                                                 *)
RowInv(r, s) ==
  /\ Paired(r, s)
  /\ r.progress = 2 <=> r.status = "completed"
  /\ r.status = "absent" => r.progress = 0

(* One Job's part of a step of JobStateMachine. *)
Legal(r, s, r2, s2) ==
  \/ r.status = "absent" /\ r2.status = "queued" /\ s2.status = "pending"
  \/ /\ \/ r2.status = r.status
        \/ SM!isAllowedJobTransition(r.status, r2.status)
     /\ \/ s2.status = s.status
        \/ SM!isAllowedJobStepTransition(s.status, s2.status)

LEMMA RowMovesKeep ==
  ASSUME NEW j, NEW r \in Job, NEW s \in Step, NEW r2, NEW s2,
         RowInv(r, s), RowMove(j, r, s, r2, s2)
  PROVE  RowInv(r2, s2) /\ r2.progress >= r.progress /\ Legal(r, s, r2, s2)
  <1> USE KernelAssumption
      DEF RowInv, Paired, Legal, Job, Step, Terminal, SM!Agrees, SM!ABSENT,
          SM!isAllowedJobTransition, SM!JOB_TRANSITIONS,
          SM!isAllowedJobStepTransition, SM!JOB_STEP_TRANSITIONS
  <1>1. CASE r2 = r /\ s2 = s
    BY <1>1
  <1>2. CASE r2 = Aged(r) /\ s2 = Aged(s)
    BY <1>2 DEF Aged, Less
  <1>3. CASE r.status = "absent" /\ r2 = QueuedRow /\ s2 = PendingStep
    BY <1>3 DEF QueuedRow, PendingStep, NoRow, NoStep
  <1>4. CASE r.status \in Cancellable /\ r2 = Bumped(r, "cancel_requested") /\ s2 = s
    BY <1>4 DEF Bumped, Cancellable
  <1>5. CASE /\ r.status = "running"
             /\ r2 = Requeued(r, "queued")
             /\ s2 = IF s.status = "running"
                     THEN Requeued(s, "pending") ELSE s
    BY <1>5 DEF Requeued, Settled, Released
  <1>6. CASE /\ r.status = "retry_scheduled"
             /\ r2 = Bumped(r, "queued")
             /\ s2 = IF s.status = "retry_scheduled"
                     THEN Bumped(s, "pending") ELSE s
    BY <1>6 DEF Bumped
  <1>7. CASE /\ r.status \in {"waiting_provider", "cancel_requested"}
             /\ r2 = Released(r)
             /\ s2 = s
    BY <1>7 DEF Released
  <1>8. CASE /\ r.status = "cancel_requested"
             /\ \E w \in Workers : r2 = Leased(r, w)
             /\ s2 = s
    BY <1>8 DEF Leased
  <1>9. CASE /\ r.status = "cancel_requested"
             /\ r2 = Settled(r, "cancelled")
             /\ s2 = IF s.status \in {"pending", "running", "waiting_provider",
                                      "retry_scheduled"}
                     THEN Settled(s, "cancelled") ELSE s
    BY <1>9 DEF Settled, Released
  <1>10. CASE /\ r.status = "queued"
             /\ s.status = "pending"
             /\ \E w \in Workers : r2 = Claimed(r, w) /\ s2 = Taken(s, w)
    BY <1>10 DEF Claimed, Taken, Leased
  <1>11. CASE /\ r.status = "running"
             /\ s.status = "running"
             /\ \E w \in Workers : r2 = Leased(r, w) /\ s2 = Leased(s, w)
    BY <1>11 DEF Leased
  <1>12. CASE /\ r.status = "running"
             /\ s.status = "running"
             /\ r.progress < 1 /\ r2 = Progressed(r) /\ s2 = s
    BY <1>12 DEF Progressed
  <1>13. CASE /\ r.status = "running"
             /\ s.status = "running"
             /\ r2 = Completed(r) /\ s2 = Settled(s, "completed")
    BY <1>13 DEF Completed, Settled, Released
  <1>14. CASE /\ r.status = "running"
             /\ s.status = "running"
             /\ r2 = Delayed(r) /\ s2 = Delayed(s)
    BY <1>14 DEF Delayed, Settled, Released
  <1>15. CASE /\ r.status = "running"
             /\ s.status = "running"
             /\ r2 = Settled(r, "failed") /\ s2 = Settled(s, "failed")
    BY <1>15 DEF Settled, Released
  <1> QED BY <1>1, <1>2, <1>3, <1>4, <1>5, <1>6, <1>7, <1>8, <1>9, <1>10,
         <1>11, <1>12, <1>13, <1>14, <1>15, Zenon DEF RowMove

-----------------------------------------------------------------------------
(* The rows in every state, and the theorems that follow *)

RowsInv == \A j \in Jobs : RowInv(job[j], step[j])

LEMMA RowsInvInit == Init => RowsInv
  BY DEF Init, RowsInv, RowInv, Paired, NoRow, NoStep, Terminal, SM!Agrees,
         SM!ABSENT

LEMMA RowsInvStep ==
  ASSUME Typed, RowsInv, [Next]_vars
  PROVE  \A j \in Jobs : /\ RowInv(job'[j], step'[j])
                         /\ job'[j].progress >= job[j].progress
                         /\ Legal(job[j], step[j], job'[j], step'[j])
  <1> TAKE j \in Jobs
  <1>1. job[j] \in Job /\ step[j] \in Step
    BY DEF Typed, Rows
  <1>2. RowMove(j, job[j], step[j], job'[j], step'[j])
    BY RowMoves DEF MovedRows
  <1> QED BY <1>1, <1>2, RowMovesKeep DEF RowsInv

LEMMA AlwaysRowsInv == Spec => [](Typed /\ RowsInv)
  <1>1. Typed /\ RowsInv /\ [Next]_vars => RowsInv'
    BY RowsInvStep DEF RowsInv
  <1> QED BY <1>1, TypedInit, TypedStep, RowsInvInit, PTL DEF Spec

(* A Job and its root step, which two UPDATE statements with separate       *)
(* guards keep, always agree on status, lease owner, expiry and due time.   *)
THEOREM StepsAgree == Spec => []JobStepAgreement
  <1>1. RowsInv => JobStepAgreement
    BY DEF RowsInv, RowInv, JobStepAgreement
  <1> QED BY <1>1, AlwaysRowsInv, PTL

(* No claim, requeue, retry or settlement lowers progress_basis_points, and *)
(* it is full exactly when the Job is completed.                            *)
THEOREM ProgressGrows == Spec => ProgressNeverFalls
  <1>1. Typed /\ RowsInv /\ [Next]_vars =>
          [\A j \in Jobs :
             /\ job'[j].progress >= job[j].progress
             /\ (job'[j].progress = 2) <=> (job'[j].status = "completed")]_vars
    BY RowsInvStep DEF RowInv
  <1> QED BY <1>1, AlwaysRowsInv, PTL DEF Spec, ProgressNeverFalls

(* Every transition the SQL of the repository makes, in any interleaving of *)
(* any number of processes, is one of the tables of job-state-machine.ts.   *)
THEOREM Implements == Spec => ImplementsStateMachine
  <1>1. Init => SM!Init
    BY DEF Init, SM!Init, SM!ABSENT, NoRow, NoStep
  <1>2. Typed /\ RowsInv /\ [Next]_vars => [SM!Next]_(SM!mapped)
    <2> SUFFICES ASSUME Typed, RowsInv, [Next]_vars PROVE SM!Next
      OBVIOUS
    <2>1. job' \in [Jobs -> Job] /\ step' \in [Jobs -> Step]
      BY RowsStep DEF Rows
    <2>2. ASSUME NEW j \in Jobs
          PROVE  SM!Move(j) /\ SM!Agrees(job'[j].status, step'[j].status)
      BY <2>2, RowsInvStep DEF SM!Move, SM!ABSENT, Legal, RowInv, Paired
    <2> QED BY <2>2 DEF SM!Next
  <1> QED BY <1>1, <1>2, AlwaysRowsInv, PTL
          DEF Spec, ImplementsStateMachine, SM!Spec

-----------------------------------------------------------------------------
(* Who may settle a Job, for every interleaving: the process that made its  *)
(* latest claim and has never lost the lease since.                         *)

(* What can happen to a process's claim: it is dropped, kept or made anew.  *)
ClaimMove(w) ==
  \/ worker'[w].pc \notin Working
  \/ /\ worker[w].pc \in Working
     /\ worker'[w].job = worker[w].job
     /\ worker'[w].attempt = worker[w].attempt
  \/ ClaimedBy(w, worker'[w].job) /\ worker'[w].job \in Jobs

MovedClaims == \A w \in Workers : ClaimMove(w)

(* An action that changes the record of one process. *)
LEMMA OneProcess ==
  ASSUME Processes, NEW w \in Workers, NEW r,
         worker' = [worker EXCEPT ![w] = r],
         \/ r.pc \notin Working
         \/ /\ worker[w].pc \in Working
            /\ r.job = worker[w].job
            /\ r.attempt = worker[w].attempt
         \/ ClaimedBy(w, r.job) /\ r.job \in Jobs
  PROVE  MovedClaims
  <1> SUFFICES ASSUME NEW v \in Workers PROVE ClaimMove(v)
    BY DEF MovedClaims
  <1>1. CASE v = w
    <2>1. worker'[v] = r
      BY <1>1 DEF Processes
    <2> QED BY <1>1, <2>1 DEF ClaimMove
  <1>2. CASE v # w
    <2>1. worker'[v] = worker[v]
      BY <1>2 DEF Processes
    <2> QED BY <2>1 DEF ClaimMove
  <1> QED BY <1>1, <1>2

LEMMA StepMoves ==
  ASSUME Processes, NEW w \in Workers, worker[w].pc \in Working,
         \/ \E pc \in Points : Goto(w, pc)
         \/ \E retryable \in BOOLEAN : FailWith(w, retryable)
         \/ GiveUp(w)
         \/ \E pc \in Points : Beat(w, pc)
  PROVE  MovedClaims
  <1>0. worker[w] \in Worker
    BY DEF Processes
  <1>1. ASSUME NEW pc \in Points, Goto(w, pc) PROVE MovedClaims
    <2> DEFINE r == [worker[w] EXCEPT !.pc = pc]
    <2>1. r.job = worker[w].job /\ r.attempt = worker[w].attempt
      BY <1>0 DEF Worker
    <2>2. worker' = [worker EXCEPT ![w] = r]
      BY <1>1 DEF Goto
    <2> HIDE DEF r
    <2> QED BY <2>1, <2>2, OneProcess
  <1>2. ASSUME NEW retryable \in BOOLEAN, FailWith(w, retryable)
        PROVE  MovedClaims
    <2> DEFINE r == [worker[w] EXCEPT !.pc = "failing", !.retryable = retryable]
    <2>1. r.job = worker[w].job /\ r.attempt = worker[w].attempt
      BY <1>0 DEF Worker
    <2>2. worker' = [worker EXCEPT ![w] = r]
      BY <1>2 DEF FailWith
    <2> HIDE DEF r
    <2> QED BY <2>1, <2>2, OneProcess
  <1>3. CASE GiveUp(w)
    <2>1. Idle(worker[w].life).pc \notin Working
      BY DEF Idle, Holding, Working
    <2> QED BY <1>3, <2>1, OneProcess DEF GiveUp
  <1>4. ASSUME NEW pc \in Points, Beat(w, pc) PROVE MovedClaims
    <2> DEFINE j == worker[w].job
    <2> DEFINE r == [worker[w] EXCEPT !.pc = pc,
                       !.jobVersion = job'[j].version,
                       !.stepVersion = step'[j].version,
                       !.beats = worker[w].beats + 1]
    <2>1. CASE HoldsLease(w) /\ worker[w].life = "up"
      <3>1. worker' = [worker EXCEPT ![w] = r]
        BY <1>4, <2>1, Zenon DEF Beat
      <3>2. r.job = worker[w].job /\ r.attempt = worker[w].attempt
        BY <1>0 DEF Worker
      <3> HIDE DEF r
      <3> QED BY <3>1, <3>2, OneProcess
    <2>2. CASE ~(HoldsLease(w) /\ worker[w].life = "up")
      BY <1>1, <1>4, <2>2 DEF Beat
    <2> QED BY <2>1, <2>2
  <1> QED BY <1>1, <1>2, <1>3, <1>4

LEMMA ClaimMoves == Typed /\ [Next]_vars => MovedClaims
  <1> SUFFICES ASSUME Typed, [Next]_vars PROVE MovedClaims
    OBVIOUS
  <1> USE DEF Typed, Processes
  <1>1. ASSUME NEW j \in Jobs, CompleteUpload(j) PROVE MovedClaims
    BY <1>1 DEF CompleteUpload, MovedClaims, ClaimMove
  <1>2. ASSUME NEW j \in Jobs, Cancel(j) PROVE MovedClaims
    BY <1>2 DEF Cancel, MovedClaims, ClaimMove
  <1>3. ASSUME NEW a \in Assets, SoftDelete(a) PROVE MovedClaims
    BY <1>3 DEF SoftDelete, MovedClaims, ClaimMove
  <1>4. ASSUME NEW a \in Assets, Restore(a) PROVE MovedClaims
    BY <1>4 DEF Restore, MovedClaims, ClaimMove
  <1>5. ASSUME NEW a \in Assets, RetryIngestion(a) PROVE MovedClaims
    BY <1>5 DEF RetryIngestion, MovedClaims, ClaimMove
  <1>5a. ASSUME NEW a \in Assets, FailUpload(a) PROVE MovedClaims
    BY <1>5a DEF FailUpload, MovedClaims, ClaimMove
  <1>5b. ASSUME NEW a \in Assets, FailStaleUpload(a) PROVE MovedClaims
    BY <1>5b DEF FailStaleUpload, MovedClaims, ClaimMove
  <1>5c. ASSUME NEW p \in Projects, DeleteProject(p) PROVE MovedClaims
    BY <1>5c DEF DeleteProject, MovedClaims, ClaimMove
  <1>5d. ASSUME NEW p \in Projects, RestoreProject(p) PROVE MovedClaims
    BY <1>5d DEF RestoreProject, MovedClaims, ClaimMove
  <1>6. CASE Tick
    BY <1>6 DEF Tick, MovedClaims, ClaimMove
  <1>7. ASSUME NEW w \in Workers, Start(w) PROVE MovedClaims
    <2> DEFINE r == [worker[w] EXCEPT !.life = "up"]
    <2>1. worker' = [worker EXCEPT ![w] = r]
      BY <1>7 DEF Start
    <2>2. r.pc = worker[w].pc /\ r.job = worker[w].job /\ r.attempt = worker[w].attempt
      BY <1>7 DEF Start, Worker, Working
    <2> HIDE DEF r
    <2> QED BY <2>1, <2>2, OneProcess
  <1>8. ASSUME NEW w \in Workers, Reconcile(w) PROVE MovedClaims
    BY <1>8 DEF Reconcile, MovedClaims, ClaimMove
  <1>9. ASSUME NEW w \in Workers, ClaimCancellationCleanup(w) PROVE MovedClaims
    <2>1. PICK j \in Jobs :
             worker' = [worker EXCEPT ![w] = [worker[w] EXCEPT
                !.pc = "cleanup", !.job = j, !.jobVersion = job'[j].version]]
      BY <1>9, Zenon DEF ClaimCancellationCleanup, CleanupCandidates
    <2> DEFINE r == [worker[w] EXCEPT !.pc = "cleanup", !.job = j,
                                      !.jobVersion = job'[j].version]
    <2>2. r.pc \notin Working
      BY DEF Worker, Working
    <2> HIDE DEF r
    <2> QED BY <2>1, <2>2, OneProcess DEF r
  <1>10. ASSUME NEW w \in Workers, ClaimNext(w) PROVE MovedClaims
    <2>1. PICK j \in Jobs :
             worker' = [worker EXCEPT ![w] = [worker[w] EXCEPT
                !.pc = "claimed", !.job = j, !.jobVersion = job'[j].version,
                !.stepVersion = step'[j].version,
                !.attempt = job'[j].attempts]]
      BY <1>10, Zenon DEF ClaimNext
    <2> DEFINE r == [worker[w] EXCEPT !.pc = "claimed", !.job = j,
                       !.jobVersion = job'[j].version,
                       !.stepVersion = step'[j].version,
                       !.attempt = job'[j].attempts]
    <2>2. r.job = j /\ r.attempt = job'[j].attempts
      BY DEF Worker
    <2>3. worker[w].pc = "idle"
      BY <1>10 DEF ClaimNext, Ready
    <2>4. worker'[w] = r
      BY <2>1
    <2> HIDE DEF r
    <2>5. ClaimedBy(w, j)
      BY <2>2, <2>3, <2>4 DEF ClaimedBy
    <2> QED BY <2>1, <2>2, <2>5, OneProcess DEF r
  <1>11. ASSUME NEW w \in Workers, CompleteCancellationCleanup(w) PROVE MovedClaims
    <2>1. \/ worker' = [worker EXCEPT ![w] = Idle(worker[w].life)]
          \/ worker' = [worker EXCEPT ![w] = [worker[w] EXCEPT !.pc = "rejected"]]
      BY <1>11 DEF CompleteCancellationCleanup, GiveUp, Goto
    <2>2. Idle(worker[w].life).pc \notin Working
      BY DEF Idle, Holding, Working
    <2>3. [worker[w] EXCEPT !.pc = "rejected"].pc \notin Working
      BY DEF Worker, Working
    <2> QED BY <2>1, <2>2, <2>3, OneProcess
  <1>12. ASSUME NEW w \in Workers, StartHandling(w) PROVE MovedClaims
    BY <1>12, StepMoves DEF StartHandling, Handling, Working, Points
  <1>13. ASSUME NEW w \in Workers, Inspected(w) PROVE MovedClaims
    BY <1>13, StepMoves DEF Inspected, Handling, Working, Points
  <1>14. ASSUME NEW w \in Workers, HeartbeatAfterInspection(w) PROVE MovedClaims
    BY <1>14, StepMoves DEF HeartbeatAfterInspection, Handling, Working,
       Points
  <1>15. ASSUME NEW w \in Workers, ReportProgress(w) PROVE MovedClaims
    <2> DEFINE r == [worker[w] EXCEPT !.pc = "progressed",
                       !.jobVersion = job'[worker[w].job].version]
    <2>1. worker[w].pc \in Working
      BY <1>15 DEF ReportProgress, Handling, Working
    <2>2. \/ worker' = [worker EXCEPT ![w] = r]
          \/ Goto(w, "progressed")
          \/ FailWith(w, TRUE)
      BY <1>15 DEF ReportProgress
    <2>3. r.job = worker[w].job /\ r.attempt = worker[w].attempt
      BY DEF Worker
    <2>4. "progressed" \in Points
      BY DEF Points
    <2> HIDE DEF r
    <2> QED BY <2>1, <2>2, <2>3, <2>4, OneProcess, StepMoves
  <1>16. ASSUME NEW w \in Workers, CompleteAssetIngestion(w) PROVE MovedClaims
    <2>1. worker[w].pc \in Working
      BY <1>16 DEF CompleteAssetIngestion, Handling, Working
    <2>2. \/ GiveUp(w)
          \/ FailWith(w, ~HoldsLease(w))
      BY <1>16 DEF CompleteAssetIngestion
    <2>3. (~HoldsLease(w)) \in BOOLEAN
      BY DEF HoldsLease
    <2> QED BY <2>1, <2>2, <2>3, StepMoves
  <1>17. ASSUME NEW w \in Workers, FailAssetIngestion(w) PROVE MovedClaims
    BY <1>17, StepMoves DEF FailAssetIngestion, Handling, Working, Points
  <1>18. ASSUME NEW w \in Workers, HeartbeatTimer(w) PROVE MovedClaims
    BY <1>18, StepMoves DEF HeartbeatTimer, Handling, Working, Points
  <1>19. ASSUME NEW w \in Workers, Stop(w) PROVE MovedClaims
    <2> DEFINE r == [worker[w] EXCEPT !.life = "stopping"]
    <2>1. worker' = [worker EXCEPT ![w] = r]
      BY <1>19 DEF Stop
    <2>2. r.pc = worker[w].pc /\ r.job = worker[w].job /\ r.attempt = worker[w].attempt
      BY <1>19 DEF Stop, Worker, Working
    <2> HIDE DEF r
    <2> QED BY <2>1, <2>2, OneProcess
  <1>20. ASSUME NEW w \in Workers, Crash(w) PROVE MovedClaims
    <2> DEFINE r == Idle("down")
    <2>1. worker' = [worker EXCEPT ![w] = r]
      BY <1>20 DEF Crash
    <2>2. r.pc \notin Working
      BY <1>20 DEF Crash, Idle, Holding, Working
    <2> HIDE DEF r
    <2> QED BY <2>1, <2>2, OneProcess
  <1>21. ASSUME NEW w \in Workers, Exit(w) PROVE MovedClaims
    <2> DEFINE r == Idle("down")
    <2>1. worker' = [worker EXCEPT ![w] = r]
      BY <1>21 DEF Exit
    <2>2. r.pc \notin Working
      BY <1>21 DEF Exit, Idle, Holding, Working
    <2> HIDE DEF r
    <2> QED BY <2>1, <2>2, OneProcess
  <1>22. CASE UNCHANGED vars
    BY <1>22 DEF vars, MovedClaims, ClaimMove
  <1>23. CASE Next
    BY <1>1, <1>2, <1>3, <1>4, <1>5, <1>5a, <1>5b, <1>5c, <1>5d, <1>6,
       <1>7, <1>8, <1>9, <1>10, <1>11,
       <1>12, <1>13, <1>14, <1>15, <1>16, <1>17, <1>18, <1>19, <1>20,
       <1>21, <1>23, NextCases, Zenon
  <1> QED BY <1>22, <1>23

-----------------------------------------------------------------------------
(* The claim a process works on is the latest one of its Job for as long as *)
(* the row names the process: requeues erase the owner, and only a claim    *)
(* writes it.                                                               *)
LatestClaims ==
  \A w \in Workers :
    LET j == worker[w].job IN
    /\ worker[w].pc \in Working
    /\ job[j].status = "running"
    /\ job[j].owner = w
    => worker[w].attempt = job[j].attempts

LEMMA LatestClaimsInit == Init => LatestClaims
  BY DEF Init, LatestClaims, Idle, Holding, Working

LEMMA OwnerKept ==
  ASSUME NEW j, NEW r \in Job, NEW s \in Step, NEW r2, NEW s2,
         RowMove(j, r, s, r2, s2), NEW w \in Workers,
         r2.status = "running", r2.owner = w
  PROVE  \/ /\ r.status = "running"
            /\ r2.attempts = r.attempts
            /\ r.owner = w \/ HeldBy(w, j)
         \/ ClaimedBy(w, j)
  <1> USE DEF Job, Step, Cancellable
  <1>1. CASE r2 = r /\ s2 = s
    BY <1>1
  <1>2. CASE r2 = Aged(r)
    BY <1>2 DEF Aged
  <1>3. CASE r2 = QueuedRow
    BY <1>3 DEF QueuedRow, NoRow
  <1>4. CASE \E t \in {"cancel_requested", "queued"} : r2 = Bumped(r, t)
    BY <1>4 DEF Bumped
  <1>5. CASE \E t \in {"queued", "cancelled", "failed"} :
               r2 = Requeued(r, t) \/ r2 = Settled(r, t)
    BY <1>5 DEF Requeued, Settled, Released
  <1>6. CASE /\ r.status \in {"waiting_provider", "cancel_requested"}
             /\ r2 = Released(r)
    BY <1>6 DEF Released
  <1>7. CASE /\ r.status = "cancel_requested"
             /\ \E v \in Workers : r2 = Leased(r, v)
    BY <1>7 DEF Leased
  <1>8. CASE \E v \in Workers : ClaimedBy(v, j) /\ r2 = Claimed(r, v)
    BY <1>8 DEF Claimed, Taken, Leased
  <1>9. CASE /\ r.status = "running"
             /\ \E v \in Workers : HeldBy(v, j) /\ r2 = Leased(r, v)
    BY <1>9 DEF Leased
  <1>10. CASE r.status = "running" /\ r2 = Progressed(r)
    BY <1>10 DEF Progressed
  <1>11. CASE r2 = Completed(r) \/ r2 = Delayed(r)
    BY <1>11 DEF Completed, Delayed, Settled, Released
  <1> QED BY <1>1, <1>2, <1>3, <1>4, <1>5, <1>6, <1>7, <1>8, <1>9, <1>10,
             <1>11 DEF RowMove

LEMMA SettlementHeld ==
  ASSUME NEW j, NEW r \in Job, NEW s \in Step, NEW r2, NEW s2,
         RowMove(j, r, s, r2, s2), r.status = "running",
         r2.status \in {"completed", "failed", "retry_scheduled"}
  PROVE  \E w \in Workers : HeldBy(w, j)
  <1> USE DEF Job, Step
  <1>1. CASE r2 = r \/ r2 = Aged(r)
    BY <1>1 DEF Aged
  <1>2. CASE r2 = Bumped(r, "cancel_requested")
    BY <1>2 DEF Bumped
  <1>3. CASE r2 = Requeued(r, "queued")
    BY <1>3 DEF Requeued, Settled, Released
  <1>4. CASE \E w \in Workers : HeldBy(w, j)
    BY <1>4
  <1> QED BY <1>1, <1>2, <1>3, <1>4 DEF RowMove

LEMMA LatestClaimsStep ==
  ASSUME Typed, LatestClaims, [Next]_vars
  PROVE  LatestClaims'
  <1> SUFFICES ASSUME NEW w \in Workers,
                      worker'[w].pc \in Working,
                      job'[worker'[w].job].status = "running",
                      job'[worker'[w].job].owner = w
               PROVE  worker'[w].attempt = job'[worker'[w].job].attempts
    BY DEF LatestClaims
  <1> DEFINE j == worker'[w].job
  <1>1. ClaimMove(w)
    BY ClaimMoves DEF MovedClaims
  <1>2. CASE ClaimedBy(w, j)
    BY <1>2 DEF ClaimedBy
  <1>3. CASE /\ worker[w].pc \in Working
             /\ j = worker[w].job
             /\ worker'[w].attempt = worker[w].attempt
    <2>1. j \in Jobs /\ worker[w].pc # "idle"
      BY <1>3 DEF Typed, ClaimsHeld, Working
    <2>2. job[j] \in Job /\ step[j] \in Step
      BY <2>1 DEF Typed, Rows
    <2>3. RowMove(j, job[j], step[j], job'[j], step'[j])
      BY <2>1, RowMoves DEF MovedRows
    <2>4. ~ClaimedBy(w, j)
      BY <2>1 DEF ClaimedBy
    <2>5. /\ job[j].status = "running"
          /\ job'[j].attempts = job[j].attempts
          /\ job[j].owner = w \/ HeldBy(w, j)
      BY <2>2, <2>3, <2>4, OwnerKept
    <2>6. job[j].owner = w
      BY <1>3, <2>5 DEF HeldBy, HoldsLease
    <2> QED BY <1>3, <2>5, <2>6 DEF LatestClaims
  <1> QED BY <1>1, <1>2, <1>3 DEF ClaimMove

(* No worker that lost its lease commits a result, in any interleaving of   *)
(* any number of processes, requeues, claims and heartbeats.                *)
THEOREM OnlyLatestClaimSettles == Spec => SettledByLatestClaim
  <1> DEFINE Settling ==
        \A j \in Jobs :
          /\ job[j].status = "running"
          /\ job'[j].status \in {"completed", "failed", "retry_scheduled"}
          => \E w \in Workers :
               /\ worker[w].job = j
               /\ worker[w].life \in ActiveLife
               /\ worker[w].attempt = job[j].attempts
               /\ job[j].owner = w
               /\ job[j].lease > 0
  <1>1. Typed /\ LatestClaims /\ [Next]_vars => [Settling]_vars
    <2> SUFFICES ASSUME Typed, LatestClaims, [Next]_vars, NEW j \in Jobs,
                        job[j].status = "running",
                        job'[j].status \in {"completed", "failed",
                                            "retry_scheduled"}
                 PROVE  \E w \in Workers :
                          /\ worker[w].job = j
                          /\ worker[w].life \in ActiveLife
                          /\ worker[w].attempt = job[j].attempts
                          /\ job[j].owner = w
                          /\ job[j].lease > 0
      OBVIOUS
    <2>1. RowMove(j, job[j], step[j], job'[j], step'[j])
      BY RowMoves DEF MovedRows
    <2>2. job[j] \in Job /\ step[j] \in Step
      BY DEF Typed, Rows
    <2>3. PICK w \in Workers : HeldBy(w, j)
      BY <2>1, <2>2, SettlementHeld
    <2>4. /\ worker[w].job = j
          /\ worker[w].life \in ActiveLife
          /\ job[j].owner = w
          /\ job[j].lease > 0
      BY <2>3 DEF HeldBy, HoldsLease
    <2>5. worker[w].attempt = job[j].attempts
      BY <2>3, <2>4 DEF HeldBy, LatestClaims
    <2> QED BY <2>4, <2>5
  <1>2. Spec => [](Typed /\ LatestClaims)
    BY TypedInit, TypedStep, LatestClaimsInit, LatestClaimsStep, PTL DEF Spec
  <1> QED BY <1>1, <1>2, PTL DEF Spec, SettledByLatestClaim

-----------------------------------------------------------------------------
(* The stream of a Job against its row: most steps leave the statuses and   *)
(* the stream alone, and the others move one Job and say so.                *)
Told(status, entry) ==
  /\ entry.last \in EventsOf(status)
  /\ entry.settled = IF status \in Terminal THEN 1 ELSE 0

SameStatuses == \A j \in Jobs : job'[j].status = job[j].status

LEMMA NothingTold ==
  ASSUME StreamTellsStatus, SameStatuses, stream' = stream
  PROVE  StreamTellsStatus'
  BY DEF StreamTellsStatus, SameStatuses

LEMMA OneTold ==
  ASSUME Typed, StreamTellsStatus, NEW j \in Jobs, NEW r2, NEW t2,
         job' = [job EXCEPT ![j] = r2], stream' = [stream EXCEPT ![j] = t2],
         Told(r2.status, t2)
  PROVE  StreamTellsStatus'
  <1> SUFFICES ASSUME NEW k \in Jobs PROVE Told(job'[k].status, stream'[k])
    BY DEF StreamTellsStatus, Told
  <1>1. CASE k = j
    <2>1. job'[k] = r2 /\ stream'[k] = t2
      BY <1>1 DEF Typed, Rows, Rest
    <2> QED BY <2>1
  <1>2. CASE k # j
    <2>1. job'[k] = job[k] /\ stream'[k] = stream[k]
      BY <1>2 DEF Typed, Rows, Rest
    <2> QED BY <2>1 DEF StreamTellsStatus, Told
  <1> QED BY <1>1, <1>2

LEMMA EmitTells ==
  ASSUME Typed, StreamTellsStatus, NEW j \in Jobs, NEW r2, NEW type,
         job' = [job EXCEPT ![j] = r2],
         job[j].status \notin Terminal, type \in EventsOf(r2.status),
         \/ Emit(j, type) /\ r2.status \notin Terminal
         \/ EmitTerminal(j, type) /\ r2.status \in Terminal
  PROVE  StreamTellsStatus'
  <1>1. stream[j] \in Stream /\ stream[j].settled = 0
    BY DEF Typed, Rest, StreamTellsStatus
  <1>2. CASE Emit(j, type) /\ r2.status \notin Terminal
    <2> DEFINE t2 == [stream[j] EXCEPT !.last = type]
    <2>1. stream' = [stream EXCEPT ![j] = t2]
      BY <1>2 DEF Emit
    <2>2. Told(r2.status, t2)
      BY <1>1, <1>2 DEF Told, Stream
    <2> HIDE DEF t2
    <2> QED BY <2>1, <2>2, OneTold
  <1>3. CASE EmitTerminal(j, type) /\ r2.status \in Terminal
    <2> DEFINE t2 == [last |-> type, settled |-> stream[j].settled + 1]
    <2>1. stream' = [stream EXCEPT ![j] = t2]
      BY <1>3 DEF EmitTerminal
    <2>2. Told(r2.status, t2)
      BY <1>1, <1>3 DEF Told
    <2> HIDE DEF t2
    <2> QED BY <2>1, <2>2, OneTold
  <1> QED BY <1>2, <1>3

LEMMA AdmitTells ==
  ASSUME Typed, StreamTellsStatus, NEW S, Admit(S) PROVE StreamTellsStatus'
  <1> SUFFICES ASSUME NEW k \in Jobs PROVE Told(job'[k].status, stream'[k])
    BY DEF StreamTellsStatus, Told
  <1>1. CASE k \in S
    <2>1. job'[k] = QueuedRow /\ stream'[k] = [last |-> "job.queued", settled |-> 0]
      BY <1>1 DEF Admit
    <2> QED BY <2>1 DEF Told, QueuedRow, NoRow, EventsOf, Terminal
  <1>2. CASE k \notin S
    <2>1. job'[k] = job[k] /\ stream'[k] = stream[k]
      BY <1>2 DEF Admit
    <2> QED BY <2>1 DEF StreamTellsStatus, Told
  <1> QED BY <1>1, <1>2

(* What a row's status becomes, whatever else the row says. *)
LEMMA RowStatuses ==
  ASSUME NEW r \in Job, NEW w
  PROVE  /\ \A s : Bumped(r, s).status = s /\ Settled(r, s).status = s
         /\ \A s : Requeued(r, s).status = s
         /\ \A x \in {Released(r), Leased(r, w), Progressed(r), Aged(r)} :
              x.status = r.status
         /\ Claimed(r, w).status = "running"
         /\ Completed(r).status = "completed"
         /\ Delayed(r).status = "retry_scheduled"
  <1> USE DEF Job, Released, Leased, Settled
  <1>1. \A s : Bumped(r, s).status = s /\ Settled(r, s).status = s
    BY DEF Bumped
  <1>2. \A s : Requeued(r, s).status = s
    BY DEF Requeued
  <1>3. /\ Released(r).status = r.status
        /\ Leased(r, w).status = r.status
    OBVIOUS
  <1>4. /\ Progressed(r).status = r.status
        /\ Aged(r).status = r.status
    BY DEF Progressed, Aged
  <1>5. Claimed(r, w).status = "running"
    BY DEF Claimed, Taken
  <1>6. Completed(r).status = "completed"
    BY DEF Completed
  <1>7. Delayed(r).status = "retry_scheduled"
    BY DEF Delayed
  <1> QED BY <1>1, <1>2, <1>3, <1>4, <1>5, <1>6, <1>7

(* A change of one row that leaves its status. *)
LEMMA OneStatusSame ==
  ASSUME Rows, NEW j \in Jobs, NEW r2, job' = [job EXCEPT ![j] = r2],
         r2.status = job[j].status
  PROVE  SameStatuses
  BY DEF Rows, SameStatuses

LEMMA BeatStatuses ==
  ASSUME Rows, NEW w \in Workers, NEW pc, worker[w].job \in Jobs, Beat(w, pc)
  PROVE  SameStatuses
  <1> DEFINE j == worker[w].job
  <1>1. job' = job \/ job' = [job EXCEPT ![j] = Leased(job[j], w)]
    BY Zenon DEF Beat
  <1>2. CASE job' = job
    BY <1>2 DEF SameStatuses
  <1>3. CASE job' = [job EXCEPT ![j] = Leased(job[j], w)]
    <2>1. Leased(job[j], w).status = job[j].status
      BY RowStatuses DEF Rows
    <2> QED BY <1>3, <2>1, OneStatusSame
  <1> QED BY <1>1, <1>2, <1>3

LEMMA TellsStep ==
  ASSUME Typed, StreamTellsStatus, [Next]_vars PROVE StreamTellsStatus'
  <1> USE DEF Typed, Rows, ClaimsHeld
  <1>e. /\ \A s \in {"queued", "running", "retry_scheduled", "cancel_requested"} :
             s \notin Terminal
        /\ \A s \in {"cancelled", "completed", "failed"} : s \in Terminal
    BY DEF Terminal
  <1>f. /\ "job.queued" \in EventsOf("queued")
        /\ {"step.started", "job.progress"} \subseteq EventsOf("running")
        /\ "step.retry_scheduled" \in EventsOf("retry_scheduled")
        /\ "job.cancel_requested" \in EventsOf("cancel_requested")
        /\ "job.cancelled" \in EventsOf("cancelled")
        /\ "job.succeeded" \in EventsOf("completed")
        /\ "job.failed" \in EventsOf("failed")
    BY DEF EventsOf
  <1>q. CASE job' = job /\ stream' = stream
    BY <1>q, NothingTold DEF SameStatuses
  <1>1. ASSUME NEW j \in Jobs, CompleteUpload(j) PROVE StreamTellsStatus'
    <2>1. Admit({j}) \/ UNCHANGED <<job, step, stream>>
      BY ONLY <1>1, Zenon DEF CompleteUpload
    <2>2. CASE Admit({j})
      BY <2>2, AdmitTells
    <2>3. CASE UNCHANGED <<job, step, stream>>
      BY <2>3, <1>q
    <2> QED BY <2>1, <2>2, <2>3
  <1>2. ASSUME NEW j \in Jobs, Cancel(j) PROVE StreamTellsStatus'
    <2>1. /\ job' = [job EXCEPT ![j] = Bumped(job[j], "cancel_requested")]
          /\ Emit(j, "job.cancel_requested")
          /\ job[j].status \in Cancellable
      BY <1>2 DEF Cancel
    <2>2. Bumped(job[j], "cancel_requested").status = "cancel_requested"
      BY RowStatuses
    <2>3. job[j].status \notin Terminal
      BY <2>1 DEF Cancellable, Terminal
    <2> QED BY <2>1, <2>2, <2>3, <1>e, <1>f, EmitTells
  <1>3. ASSUME NEW a \in Assets,
               \/ SoftDelete(a) \/ Restore(a) \/ RetryIngestion(a)
               \/ FailUpload(a) \/ FailStaleUpload(a)
        PROVE  StreamTellsStatus'
    BY <1>3, <1>q
       DEF SoftDelete, Restore, RetryIngestion, FailUpload, FailStaleUpload
  <1>4. ASSUME NEW p \in Projects, DeleteProject(p) \/ RestoreProject(p)
        PROVE  StreamTellsStatus'
    BY <1>4, <1>q DEF DeleteProject, RestoreProject
  <1>6. CASE Tick
    <2>1. SameStatuses
      <3> SUFFICES ASSUME NEW j \in Jobs PROVE job'[j].status = job[j].status
        BY DEF SameStatuses
      <3>1. job'[j] = Aged(job[j])
        BY <1>6 DEF Tick
      <3> QED BY <3>1, RowStatuses
    <2> QED BY <1>6, <2>1, NothingTold DEF Tick
  <1>7. ASSUME NEW w \in Workers, Start(w) PROVE StreamTellsStatus'
    <2>1. PICK S \in SUBSET {j \in Jobs : AssetOf[j] \in Orphans} : Admit(S)
      BY <1>7 DEF Start
    <2> QED BY <2>1, AdmitTells
  <1>8. ASSUME NEW w \in Workers, Reconcile(w) PROVE StreamTellsStatus'
    <2> SUFFICES ASSUME NEW j \in Jobs PROVE Told(job'[j].status, stream'[j])
      BY DEF StreamTellsStatus, Told
    <2>0. stream[j] \in Stream /\ Told(job[j].status, stream[j])
      BY DEF Rest, StreamTellsStatus, Told
    <2>1. CASE j \in Expired \cup DueRetries
      <3>1. /\ \/ job'[j] = Requeued(job[j], "queued")
               \/ job'[j] = Bumped(job[j], "queued")
            /\ stream'[j] = [stream[j] EXCEPT !.last = "job.queued"]
        BY <1>8, <2>1 DEF Reconcile
      <3>2. job'[j].status = "queued"
        BY <3>1, RowStatuses
      <3>3. job[j].status \in {"running", "retry_scheduled"}
        BY <2>1 DEF Expired, DueRetries
      <3> QED BY <2>0, <3>1, <3>2, <3>3, <1>e, <1>f DEF Told, Stream
    <2>2. CASE j \notin Expired \cup DueRetries
      <3>1. /\ job'[j] = job[j] \/ job'[j] = Released(job[j])
            /\ stream'[j] = stream[j]
        BY <1>8, <2>2 DEF Reconcile
      <3>2. job'[j].status = job[j].status
        BY <3>1, RowStatuses
      <3> QED BY <2>0, <3>1, <3>2
    <2> QED BY <2>1, <2>2
  <1>9. ASSUME NEW w \in Workers, ClaimCancellationCleanup(w)
        PROVE  StreamTellsStatus'
    <2>1. PICK j \in Jobs : job' = [job EXCEPT ![j] = Leased(job[j], w)]
      BY <1>9, Zenon DEF ClaimCancellationCleanup, CleanupCandidates
    <2>2. Leased(job[j], w).status = job[j].status
      BY RowStatuses
    <2>3. SameStatuses
      BY <2>1, <2>2, OneStatusSame
    <2> QED BY <1>9, <2>3, NothingTold DEF ClaimCancellationCleanup
  <1>10. ASSUME NEW w \in Workers, ClaimNext(w) PROVE StreamTellsStatus'
    <2>1. PICK j \in Jobs : /\ job[j].status = "queued"
                            /\ job' = [job EXCEPT ![j] = Claimed(job[j], w)]
                            /\ Emit(j, "step.started")
      BY <1>10, Zenon DEF ClaimNext
    <2>2. Claimed(job[j], w).status = "running"
      BY RowStatuses
    <2> QED BY <2>1, <2>2, <1>e, <1>f, EmitTells
  <1>11. ASSUME NEW w \in Workers, CompleteCancellationCleanup(w)
         PROVE  StreamTellsStatus'
    <2> DEFINE j == worker[w].job
    <2>1. j \in Jobs
      BY <1>11 DEF CompleteCancellationCleanup
    <2>2. \/ /\ job[j].status = "cancel_requested"
             /\ job' = [job EXCEPT ![j] = Settled(job[j], "cancelled")]
             /\ EmitTerminal(j, "job.cancelled")
          \/ job' = job /\ stream' = stream
      BY <1>11, Zenon DEF CompleteCancellationCleanup, HoldsCleanup
    <2>3. Settled(job[j], "cancelled").status = "cancelled"
      <3>1. job[j] \in Job
        BY <2>1 DEF Rows
      <3> QED BY <3>1, RowStatuses
    <2> QED BY <2>1, <2>2, <2>3, <1>e, <1>f, <1>q, EmitTells
  <1>12. ASSUME NEW w \in Workers,
                \/ StartHandling(w) \/ Inspected(w)
                \/ Stop(w) \/ Crash(w) \/ Exit(w)
         PROVE  StreamTellsStatus'
    BY <1>12, <1>q DEF StartHandling, Inspected, Stop, Crash, Exit
  <1>14. ASSUME NEW w \in Workers,
                HeartbeatAfterInspection(w) \/ HeartbeatTimer(w)
         PROVE  StreamTellsStatus'
    <2>1. worker[w].job \in Jobs
      BY <1>14 DEF HeartbeatAfterInspection, HeartbeatTimer, Handling
    <2>2. \E pc : Beat(w, pc)
      BY <1>14 DEF HeartbeatAfterInspection, HeartbeatTimer
    <2>3. SameStatuses
      BY <2>1, <2>2, BeatStatuses
    <2> QED
      BY <1>14, <2>3, NothingTold DEF HeartbeatAfterInspection, HeartbeatTimer
  <1>15. ASSUME NEW w \in Workers, ReportProgress(w) PROVE StreamTellsStatus'
    <2> DEFINE j == worker[w].job
    <2>1. j \in Jobs
      BY <1>15 DEF ReportProgress, Handling
    <2>2. \/ /\ HoldsLease(w)
             /\ job' = [job EXCEPT ![j] = Progressed(job[j])]
             /\ Emit(j, "job.progress")
          \/ job' = job /\ stream' = stream
      BY <1>15, Zenon DEF ReportProgress
    <2>3. Progressed(job[j]).status = job[j].status
      <3>1. job[j] \in Job
        BY <2>1 DEF Rows
      <3> QED BY <3>1, RowStatuses
    <2>4. HoldsLease(w) => job[j].status = "running"
      BY DEF HoldsLease
    <2> QED BY <2>1, <2>2, <2>3, <2>4, <1>e, <1>f, <1>q, EmitTells
  <1>16. ASSUME NEW w \in Workers, CompleteAssetIngestion(w)
         PROVE  StreamTellsStatus'
    <2> DEFINE j == worker[w].job
    <2>1. j \in Jobs
      BY <1>16 DEF CompleteAssetIngestion, Handling
    <2>2. \/ /\ HoldsLease(w)
             /\ job' = [job EXCEPT ![j] = Completed(job[j])]
             /\ EmitTerminal(j, "job.succeeded")
          \/ job' = job /\ stream' = stream
      BY <1>16, Zenon DEF CompleteAssetIngestion
    <2>3. Completed(job[j]).status = "completed"
      <3>1. job[j] \in Job
        BY <2>1 DEF Rows
      <3> QED BY <3>1, RowStatuses
    <2>4. HoldsLease(w) => job[j].status = "running"
      BY DEF HoldsLease
    <2> QED BY <2>1, <2>2, <2>3, <2>4, <1>e, <1>f, <1>q, EmitTells
  <1>17. ASSUME NEW w \in Workers, FailAssetIngestion(w) PROVE StreamTellsStatus'
    <2> DEFINE j == worker[w].job
    <2>1. j \in Jobs
      BY <1>17 DEF FailAssetIngestion, Handling
    <2>2. \/ /\ HoldsLease(w)
             /\ job' = [job EXCEPT ![j] = Delayed(job[j])]
             /\ Emit(j, "step.retry_scheduled")
          \/ /\ HoldsLease(w)
             /\ job' = [job EXCEPT ![j] = Settled(job[j], "failed")]
             /\ EmitTerminal(j, "job.failed")
          \/ job' = job /\ stream' = stream
      BY <1>17, Zenon DEF FailAssetIngestion
    <2>r. job[j] \in Job
      BY <2>1
    <2>3. /\ Delayed(job[j]).status = "retry_scheduled"
          /\ Settled(job[j], "failed").status = "failed"
      <3> HIDE DEF j
      <3> QED BY <2>r, RowStatuses
    <2>4. HoldsLease(w) => job[j].status = "running"
      BY DEF HoldsLease
    <2> QED BY <2>1, <2>2, <2>3, <2>4, <1>e, <1>f, <1>q, EmitTells
  <1>22. CASE UNCHANGED vars
    BY <1>22, <1>q DEF vars
  <1>23. CASE Next
    BY <1>1, <1>2, <1>3, <1>4, <1>6, <1>7, <1>8, <1>9, <1>10, <1>11, <1>12, <1>14,
       <1>15, <1>16, <1>17, <1>23, NextCases, Zenon
  <1> QED BY <1>22, <1>23

(* A client that only follows job_events ends with the truth about every    *)
(* Job, and reads one terminal event, however many processes, requeues,     *)
(* cancellations and late answers there are.                                *)
THEOREM EventsTellTheTruth == Spec => []StreamTellsStatus
  <1>1. Init => StreamTellsStatus
    BY DEF Init, StreamTellsStatus, NoRow, EventsOf, Terminal
  <1> QED BY <1>1, TypedInit, TypedStep, TellsStep, PTL DEF Spec

-----------------------------------------------------------------------------
(* Assets and their Jobs.  Of an Asset that maintenance failed behind its   *)
(* Job's back only this is known, that it has one unfinished Job at most.   *)
Ingestion(a) == asset[a].ingestion
Completing(j) == job[j].status = "completed"
Intact(a) == spent.stale[a] = 0
StaysStale == \A a \in Assets : Intact(a)' => Intact(a)

LEMMA FollowsAsBefore ==
  ASSUME AssetFollowsJobs, StaysStale,
         \A j \in Jobs : NonTerminal(j)' => NonTerminal(j),
         \A j \in Jobs : Completing(j)' => Completing(j),
         \A j \in Jobs : \/ Ingestion(AssetOf[j])' = Ingestion(AssetOf[j])
                         \/ ~NonTerminal(j)' /\ ~Completing(j)'
                         \/ ~Intact(AssetOf[j])'
  PROVE  AssetFollowsJobs'
  <1>1. \A j \in Jobs : AssetOf[j] \in Assets
    BY KernelAssumption
  <1> QED
    BY <1>1 DEF AssetFollowsJobs, Ingestion, Completing, Intact, StaysStale

(* A row whose status stays among those of unfinished Jobs. *)
Unfinished == {"queued", "running", "waiting_provider", "retry_scheduled",
               "cancel_requested"}

LEMMA UnfinishedJobs ==
  ASSUME Rows
  PROVE  \A j \in Jobs : NonTerminal(j) <=> job[j].status \in Unfinished
  BY DEF Rows, Job, Statuses, NonTerminal, Inserted, Unfinished, Terminal

LEMMA AdmitFollows ==
  ASSUME Typed, AssetFollowsJobs, StaysStale, NEW S \in SUBSET Jobs, Admit(S),
         \A i, k \in S : AssetOf[i] = AssetOf[k] => i = k,
         \A j \in S, k \in Jobs : AssetOf[k] = AssetOf[j] =>
           ~NonTerminal(k) /\ (Intact(AssetOf[j]) => ~Completing(k)),
         \A j \in S : Ingestion(AssetOf[j])' = "processing",
         \A j \in Jobs : AssetOf[j] \notin {AssetOf[k] : k \in S} =>
           Ingestion(AssetOf[j])' = Ingestion(AssetOf[j])
  PROVE  AssetFollowsJobs'
  <1>1. \A j \in Jobs \ S : job'[j] = job[j]
    BY DEF Admit
  <1>2. \A j \in S : job'[j].status = "queued"
    BY DEF Admit, QueuedRow, NoRow
  <1>3. \A j \in Jobs \ S : /\ NonTerminal(j)' <=> NonTerminal(j)
                            /\ Completing(j)' <=> Completing(j)
    BY <1>1 DEF NonTerminal, Inserted, Completing
  <1>4. \A j \in S : ~Completing(j)'
    BY <1>2 DEF Completing
  <1>5. SUFFICES ASSUME NEW j \in Jobs
                 PROVE /\ Intact(AssetOf[j])' /\ NonTerminal(j)' =>
                            Ingestion(AssetOf[j])' = "processing"
                       /\ Intact(AssetOf[j])' /\ Completing(j)' =>
                            Ingestion(AssetOf[j])' = "ready"
                       /\ NonTerminal(j)' => \A k \in Jobs :
                            NonTerminal(k)' /\ AssetOf[k] = AssetOf[j] => k = j
    BY DEF AssetFollowsJobs, Ingestion, Completing, Intact
  <1>i. Intact(AssetOf[j])' => Intact(AssetOf[j])
    BY KernelAssumption DEF StaysStale
  <1>6. CASE j \in S
    BY <1>3, <1>4, <1>6
  <1>7. CASE j \notin S /\ AssetOf[j] \in {AssetOf[k] : k \in S}
    BY <1>3, <1>7, <1>i
  <1>8. CASE j \notin S /\ AssetOf[j] \notin {AssetOf[k] : k \in S}
    BY <1>3, <1>8, <1>i DEF AssetFollowsJobs, Ingestion, Completing, Intact
  <1> QED BY <1>6, <1>7, <1>8

(* One Job ends, and its Asset with it. *)
LEMMA EndFollows ==
  ASSUME Typed, AssetFollowsJobs, NEW j \in Jobs, NEW r2, NEW ingestion,
         NonTerminal(j), spent' = spent,
         job' = [job EXCEPT ![j] = r2],
         asset' = [asset EXCEPT ![AssetOf[j]].ingestion = ingestion],
         \/ r2.status = "completed" /\ ingestion = "ready"
         \/ r2.status = "failed"
  PROVE  AssetFollowsJobs'
  <1>1. AssetOf[j] \in Assets /\ \A k \in Jobs : AssetOf[k] \in Assets
    BY KernelAssumption
  <1>2. /\ Ingestion(AssetOf[j])' = ingestion
        /\ \A k \in Jobs : AssetOf[k] # AssetOf[j] =>
             Ingestion(AssetOf[k])' = Ingestion(AssetOf[k])
    BY <1>1 DEF Typed, Rest, Asset, Ingestion
  <1>3. job'[j] = r2 /\ \A k \in Jobs : k # j => job'[k] = job[k]
    BY DEF Typed, Rows
  <1>4. /\ ~NonTerminal(j)'
        /\ Completing(j)' => ingestion = "ready"
    BY <1>3 DEF NonTerminal, Inserted, Completing, Terminal
  <1>5. \A k \in Jobs : k # j => /\ NonTerminal(k)' <=> NonTerminal(k)
                                 /\ Completing(k)' <=> Completing(k)
    BY <1>3 DEF NonTerminal, Inserted, Completing
  <1>6. \A k \in Jobs : AssetOf[k] = AssetOf[j] /\ k # j =>
          ~NonTerminal(k) /\ (Intact(AssetOf[k]) => ~Completing(k))
    BY DEF AssetFollowsJobs, Completing, Intact
  <1>7. SUFFICES ASSUME NEW k \in Jobs
                 PROVE /\ Intact(AssetOf[k])' /\ NonTerminal(k)' =>
                            Ingestion(AssetOf[k])' = "processing"
                       /\ Intact(AssetOf[k])' /\ Completing(k)' =>
                            Ingestion(AssetOf[k])' = "ready"
                       /\ NonTerminal(k)' => \A i \in Jobs :
                            NonTerminal(i)' /\ AssetOf[i] = AssetOf[k] => i = k
    BY DEF AssetFollowsJobs, Ingestion, Completing, Intact
  <1>i. Intact(AssetOf[k])' = Intact(AssetOf[k])
    BY DEF Intact
  <1>8. CASE k = j
    BY <1>2, <1>4, <1>8
  <1>9. CASE k # j
    BY <1>2, <1>4, <1>5, <1>6, <1>9, <1>i
       DEF AssetFollowsJobs, Ingestion, Completing, Intact
  <1> QED BY <1>8, <1>9

(* The status of a row that changes without ending or beginning.            *)
StaysUnfinished ==
  \A j \in Jobs : \/ job'[j].status = job[j].status
                  \/ job[j].status \in Unfinished /\ ~Completing(j)'

LEMMA StaysFollows ==
  ASSUME Typed, AssetFollowsJobs, StaysUnfinished, StaysStale,
         asset' = asset
  PROVE  AssetFollowsJobs'
  <1>1. \A j \in Jobs : NonTerminal(j)' => NonTerminal(j)
    BY UnfinishedJobs DEF StaysUnfinished, Typed, NonTerminal, Inserted
  <1>2. \A j \in Jobs : Completing(j)' => Completing(j)
    BY DEF StaysUnfinished, Completing
  <1> QED BY <1>1, <1>2, FollowsAsBefore DEF Ingestion

(* An Asset changes that no Job is at work on or has completed. *)
LEMMA IdleAssetFollows ==
  ASSUME Typed, AssetFollowsJobs, StaysStale, NEW a \in Assets, NEW r2,
         asset' = [asset EXCEPT ![a] = r2], job' = job,
         \/ Ingestion(a) \notin {"processing", "ready"}
         \/ r2.ingestion = Ingestion(a)
         \/ ~Intact(a)'
  PROVE  AssetFollowsJobs'
  <1>1. \A j \in Jobs : /\ NonTerminal(j)' = NonTerminal(j)
                        /\ Completing(j)' = Completing(j)
    BY DEF NonTerminal, Inserted, Completing
  <1>2. \A b \in Assets : b # a => Ingestion(b)' = Ingestion(b)
    BY DEF Typed, Rest, Ingestion
  <1>3. Ingestion(a)' = r2.ingestion
    BY DEF Typed, Rest, Ingestion
  <1>4. CASE r2.ingestion = Ingestion(a)
    <2>1. \A j \in Jobs : Ingestion(AssetOf[j])' = Ingestion(AssetOf[j])
      BY <1>2, <1>3, <1>4, KernelAssumption
    <2> QED BY <1>1, <2>1, FollowsAsBefore
  <1>5. CASE Ingestion(a) \notin {"processing", "ready"}
    <2>1. \A j \in Jobs : AssetOf[j] = a /\ Intact(a) =>
            ~NonTerminal(j) /\ ~Completing(j)
      BY <1>5 DEF AssetFollowsJobs, Ingestion, Completing, Intact
    <2>2. Intact(a)' => Intact(a)
      BY DEF StaysStale
    <2>3. \A j \in Jobs : \/ Ingestion(AssetOf[j])' = Ingestion(AssetOf[j])
                          \/ ~NonTerminal(j)' /\ ~Completing(j)'
                          \/ ~Intact(AssetOf[j])'
      BY <1>1, <1>2, <2>1, <2>2, KernelAssumption
    <2> QED BY <1>1, <2>3, FollowsAsBefore
  <1>6. CASE ~Intact(a)'
    <2>1. \A j \in Jobs : \/ Ingestion(AssetOf[j])' = Ingestion(AssetOf[j])
                          \/ ~Intact(AssetOf[j])'
      BY <1>2, <1>6, KernelAssumption
    <2> QED BY <1>1, <2>1, FollowsAsBefore
  <1> QED BY <1>4, <1>5, <1>6

LEMMA OneStays ==
  ASSUME Rows, NEW j \in Jobs, NEW r2, job' = [job EXCEPT ![j] = r2],
         \/ r2.status = job[j].status
         \/ job[j].status \in Unfinished /\ r2.status # "completed"
  PROVE  StaysUnfinished
  BY DEF Rows, StaysUnfinished, Completing

(* Nothing forgets that maintenance failed an Asset. *)
LEMMA StaleStays ==
  ASSUME Typed, [Next]_vars PROVE StaysStale
  <1>k. ASSUME spent'.stale = spent.stale PROVE StaysStale
    BY <1>k DEF StaysStale, Intact
  <1>u. \/ spent' = spent
        \/ spent' = [spent EXCEPT !.deletes = spent.deletes + 1]
        \/ spent' = [spent EXCEPT !.crashes = spent.crashes + 1]
        \/ spent' = [spent EXCEPT !.rejections = spent.rejections + 1]
        \/ \E n : spent' = [spent EXCEPT !.stalls = n]
        => StaysStale
    BY <1>k DEF Typed, Rest
  <1>1. ASSUME NEW j \in Jobs, CompleteUpload(j) \/ Cancel(j)
        PROVE  StaysStale
    BY <1>1, <1>u DEF CompleteUpload, Cancel
  <1>2. ASSUME NEW a \in Assets, FailStaleUpload(a) PROVE StaysStale
    <2>1. /\ \A b \in Assets \ {a} : spent'.stale[b] = spent.stale[b]
          /\ spent'.stale[a] = spent.stale[a] + 1
          /\ spent.stale[a] \in Nat
      BY <1>2 DEF FailStaleUpload, Typed, Rest
    <2> QED BY <2>1 DEF StaysStale, Intact
  <1>3. ASSUME NEW a \in Assets,
               SoftDelete(a) \/ Restore(a) \/ RetryIngestion(a) \/ FailUpload(a)
        PROVE  StaysStale
    BY <1>3, <1>u DEF SoftDelete, Restore, RetryIngestion, FailUpload
  <1>4. ASSUME NEW p \in Projects, DeleteProject(p) \/ RestoreProject(p)
        PROVE  StaysStale
    BY <1>4, <1>u DEF DeleteProject, RestoreProject
  <1>5. CASE Tick
    BY <1>5, <1>u, Zenon DEF Tick
  <1>6. ASSUME NEW w \in Workers,
               \/ Start(w) \/ Reconcile(w) \/ ClaimCancellationCleanup(w)
               \/ ClaimNext(w) \/ CompleteCancellationCleanup(w)
               \/ StartHandling(w) \/ Inspected(w) \/ HeartbeatTimer(w)
               \/ HeartbeatAfterInspection(w) \/ ReportProgress(w)
               \/ CompleteAssetIngestion(w) \/ FailAssetIngestion(w)
        PROVE  StaysStale
    BY <1>6, <1>u, Zenon
       DEF Start, Reconcile, ClaimCancellationCleanup, ClaimNext,
           CompleteCancellationCleanup, StartHandling, Inspected,
           HeartbeatTimer, HeartbeatAfterInspection, ReportProgress,
           CompleteAssetIngestion, FailAssetIngestion
  <1>7. ASSUME NEW w \in Workers, Stop(w) \/ Crash(w) \/ Exit(w)
        PROVE  StaysStale
    BY <1>7, <1>u DEF Stop, Crash, Exit
  <1>8. CASE UNCHANGED vars
    BY <1>8, <1>u DEF vars
  <1> QED
    BY <1>1, <1>2, <1>3, <1>4, <1>5, <1>6, <1>7, <1>8, NextCases, Zenon

LEMMA FollowsStep ==
  ASSUME Typed, AssetFollowsJobs, [Next]_vars
  PROVE  AssetFollowsJobs'
  <1> USE DEF Typed, Rows, ClaimsHeld
  <1>u. {"queued", "running", "retry_scheduled", "cancel_requested"}
          \subseteq Unfinished
    BY DEF Unfinished
  <1>k. StaysStale
    BY StaleStays
  <1>q. CASE job' = job /\ asset' = asset
    BY <1>k, <1>q, StaysFollows DEF StaysUnfinished
  <1>s. CASE SameStatuses /\ asset' = asset
    BY <1>k, <1>s, StaysFollows DEF StaysUnfinished, SameStatuses
  <1>1. ASSUME NEW j \in Jobs, CompleteUpload(j) PROVE AssetFollowsJobs'
    <2>0. /\ asset' = [asset EXCEPT ![AssetOf[j]].ingestion = "processing"]
          /\ asset[AssetOf[j]].ingestion = "uploading"
          /\ AssetOf[j] \in Assets
      BY <1>1, KernelAssumption DEF CompleteUpload
    <2>1. CASE job' = job
      <3>1. asset' = [asset EXCEPT ![AssetOf[j]] =
                        [asset[AssetOf[j]] EXCEPT !.ingestion = "processing"]]
        BY <2>0
      <3>2. Ingestion(AssetOf[j]) \notin {"processing", "ready"}
        BY <2>0 DEF Ingestion
      <3> QED BY <1>k, <2>0, <2>1, <3>1, <3>2, IdleAssetFollows
    <2>2. CASE /\ Admit({j})
               /\ \A k \in Jobs : AssetOf[k] = AssetOf[j] => ~NonTerminal(k)
      <3>2. \A k \in Jobs : AssetOf[k] = AssetOf[j] =>
              ~NonTerminal(k) /\ (Intact(AssetOf[j]) => ~Completing(k))
        BY <2>0, <2>2 DEF AssetFollowsJobs, Completing, Intact
      <3>3. /\ Ingestion(AssetOf[j])' = "processing"
            /\ \A k \in Jobs : AssetOf[k] # AssetOf[j] =>
                 Ingestion(AssetOf[k])' = Ingestion(AssetOf[k])
        BY <2>0, KernelAssumption DEF Rest, Asset, Ingestion
      <3> QED BY <1>k, <2>2, <3>2, <3>3, AdmitFollows
    <2> QED BY <1>1, <2>1, <2>2 DEF CompleteUpload
  <1>2. ASSUME NEW j \in Jobs, Cancel(j) PROVE AssetFollowsJobs'
    <2>1. /\ job' = [job EXCEPT ![j] = Bumped(job[j], "cancel_requested")]
          /\ job[j].status \in Unfinished
          /\ asset' = asset
      BY <1>2 DEF Cancel, Cancellable, Unfinished
    <2>2. Bumped(job[j], "cancel_requested").status = "cancel_requested"
      BY RowStatuses
    <2>3. StaysUnfinished
      BY <2>1, <2>2, OneStays
    <2> QED BY <1>k, <2>1, <2>3, StaysFollows
  <1>3. ASSUME NEW a \in Assets,
               \/ SoftDelete(a) \/ Restore(a) \/ RetryIngestion(a)
               \/ FailUpload(a) \/ FailStaleUpload(a)
        PROVE  AssetFollowsJobs'
    <2>0. asset[a] \in Asset
      BY DEF Rest
    <2>1. CASE \E b \in BOOLEAN : asset' = [asset EXCEPT ![a].active = b]
      <3>1. PICK b \in BOOLEAN : asset' = [asset EXCEPT ![a] =
                                             [asset[a] EXCEPT !.active = b]]
        BY <2>1
      <3>2. [asset[a] EXCEPT !.active = b].ingestion = Ingestion(a)
        BY <2>0 DEF Asset, Ingestion
      <3>3. job' = job
        BY <1>3 DEF SoftDelete, Restore, RetryIngestion, FailUpload,
                    FailStaleUpload
      <3> QED BY <1>k, <3>1, <3>2, <3>3, IdleAssetFollows
    <2>2. CASE /\ asset[a].ingestion \in {"uploading", "failed"}
               /\ \E i : asset' = [asset EXCEPT ![a].ingestion = i]
      <3>1. PICK i : asset' = [asset EXCEPT ![a] =
                                 [asset[a] EXCEPT !.ingestion = i]]
        BY <2>2
      <3>2. job' = job
        BY <1>3 DEF SoftDelete, Restore, RetryIngestion, FailUpload,
                    FailStaleUpload
      <3>3. Ingestion(a) \notin {"processing", "ready"}
        BY <2>2 DEF Ingestion
      <3> QED BY <1>k, <3>1, <3>2, <3>3, IdleAssetFollows
    <2>3. CASE FailStaleUpload(a)
      <3>1. asset' = [asset EXCEPT ![a] =
                        [asset[a] EXCEPT !.ingestion = "failed"]]
        BY <2>3 DEF FailStaleUpload
      <3>2. job' = job /\ ~Intact(a)'
        <4>1. spent'.stale[a] = spent.stale[a] + 1 /\ spent.stale[a] \in Nat
          BY <2>3 DEF FailStaleUpload, Rest
        <4> QED BY <2>3, <4>1 DEF FailStaleUpload, Intact
      <3> QED BY <1>k, <3>1, <3>2, IdleAssetFollows
    <2> QED BY <1>3, <2>1, <2>2, <2>3
            DEF SoftDelete, Restore, RetryIngestion, FailUpload
  <1>4. ASSUME NEW p \in Projects, DeleteProject(p) \/ RestoreProject(p)
        PROVE  AssetFollowsJobs'
    <2>1. \A a \in Assets : Ingestion(a)' = Ingestion(a)
      BY <1>4 DEF DeleteProject, RestoreProject, InProject, Rest, Asset,
                  Ingestion
    <2>2. job' = job
      BY <1>4 DEF DeleteProject, RestoreProject
    <2>3. \A j \in Jobs : /\ NonTerminal(j)' = NonTerminal(j)
                          /\ Completing(j)' = Completing(j)
      BY <2>2 DEF NonTerminal, Inserted, Completing
    <2>4. \A j \in Jobs : Ingestion(AssetOf[j])' = Ingestion(AssetOf[j])
      BY <2>1, KernelAssumption
    <2> QED BY <1>k, <2>3, <2>4, FollowsAsBefore
  <1>6. CASE Tick
    <2>1. SameStatuses
      <3> SUFFICES ASSUME NEW j \in Jobs PROVE job'[j].status = job[j].status
        BY DEF SameStatuses
      <3>1. job'[j] = Aged(job[j])
        BY <1>6 DEF Tick
      <3> QED BY <3>1, RowStatuses
    <2> QED BY <1>6, <1>s, <2>1 DEF Tick
  <1>7. ASSUME NEW w \in Workers, Start(w) PROVE AssetFollowsJobs'
    <2>1. PICK S \in SUBSET {j \in Jobs : AssetOf[j] \in Orphans} :
            /\ \A i, j \in S : AssetOf[i] = AssetOf[j] => i = j
            /\ Admit(S)
      BY <1>7 DEF Start
    <2>2. asset' = asset
      BY <1>7 DEF Start
    <2>3. \A j \in S, k \in Jobs : AssetOf[k] = AssetOf[j] =>
            ~NonTerminal(k) /\ ~Completing(k)
      BY <2>1 DEF Orphans, NonTerminal, Inserted, Completing
    <2>4. \A j \in S : Ingestion(AssetOf[j])' = "processing"
      BY <2>1, <2>2 DEF Orphans, Ingestible, Ingestion
    <2>5. \A j \in Jobs : Ingestion(AssetOf[j])' = Ingestion(AssetOf[j])
      BY <2>2 DEF Ingestion
    <2> QED BY <1>k, <2>1, <2>3, <2>4, <2>5, AdmitFollows
  <1>8. ASSUME NEW w \in Workers, Reconcile(w) PROVE AssetFollowsJobs'
    <2>1. StaysUnfinished
      <3> SUFFICES ASSUME NEW j \in Jobs
                   PROVE  \/ job'[j].status = job[j].status
                          \/ job[j].status \in Unfinished /\ ~Completing(j)'
        BY DEF StaysUnfinished
      <3>1. \/ job'[j] = job[j] \/ job'[j] = Released(job[j])
            \/ /\ j \in Expired \cup DueRetries
               /\ \/ job'[j] = Requeued(job[j], "queued")
                  \/ job'[j] = Bumped(job[j], "queued")
        BY <1>8 DEF Reconcile
      <3>2. j \in Expired \cup DueRetries => job[j].status \in Unfinished
        BY <1>u DEF Expired, DueRetries
      <3> QED BY <3>1, <3>2, RowStatuses DEF Completing
    <2> QED BY <1>8, <1>k, <2>1, StaysFollows DEF Reconcile
  <1>9. ASSUME NEW w \in Workers, ClaimCancellationCleanup(w)
        PROVE  AssetFollowsJobs'
    <2>1. PICK j \in Jobs : job' = [job EXCEPT ![j] = Leased(job[j], w)]
      BY <1>9, Zenon DEF ClaimCancellationCleanup, CleanupCandidates
    <2>2. Leased(job[j], w).status = job[j].status
      BY RowStatuses
    <2>3. SameStatuses
      BY <2>1, <2>2, OneStatusSame
    <2> QED BY <1>9, <1>s, <2>3 DEF ClaimCancellationCleanup
  <1>10. ASSUME NEW w \in Workers, ClaimNext(w) PROVE AssetFollowsJobs'
    <2>1. PICK j \in Jobs : /\ job[j].status = "queued"
                            /\ job' = [job EXCEPT ![j] = Claimed(job[j], w)]
      BY <1>10, Zenon DEF ClaimNext
    <2>2. Claimed(job[j], w).status = "running"
      BY RowStatuses
    <2>3. StaysUnfinished
      BY <1>u, <2>1, <2>2, OneStays
    <2> QED BY <1>10, <1>k, <2>3, StaysFollows DEF ClaimNext
  <1>11. ASSUME NEW w \in Workers, CompleteCancellationCleanup(w)
         PROVE  AssetFollowsJobs'
    <2> DEFINE j == worker[w].job
    <2>1. j \in Jobs
      BY <1>11 DEF CompleteCancellationCleanup
    <2>2. \/ /\ job[j].status = "cancel_requested"
             /\ job' = [job EXCEPT ![j] = Settled(job[j], "cancelled")]
          \/ job' = job
      BY <1>11, Zenon DEF CompleteCancellationCleanup, HoldsCleanup
    <2>r. job[j] \in Job
      BY <2>1
    <2>3. Settled(job[j], "cancelled").status = "cancelled"
      <3> HIDE DEF j
      <3> QED BY <2>r, RowStatuses
    <2>4. asset' = asset
      BY <1>11 DEF CompleteCancellationCleanup
    <2>5. CASE job' = [job EXCEPT ![j] = Settled(job[j], "cancelled")]
                 /\ job[j].status = "cancel_requested"
      <3>1. StaysUnfinished
        BY <1>u, <2>1, <2>3, <2>5, OneStays
      <3> QED BY <1>k, <2>4, <3>1, StaysFollows
    <2> QED BY <1>q, <2>2, <2>4, <2>5
  <1>12. ASSUME NEW w \in Workers,
                \/ StartHandling(w) \/ Inspected(w)
                \/ Stop(w) \/ Crash(w) \/ Exit(w)
         PROVE  AssetFollowsJobs'
    BY <1>12, <1>q DEF StartHandling, Inspected, Stop, Crash, Exit
  <1>14. ASSUME NEW w \in Workers,
                HeartbeatAfterInspection(w) \/ HeartbeatTimer(w)
         PROVE  AssetFollowsJobs'
    <2>1. worker[w].job \in Jobs
      BY <1>14 DEF HeartbeatAfterInspection, HeartbeatTimer, Handling
    <2>2. \E pc : Beat(w, pc)
      BY <1>14 DEF HeartbeatAfterInspection, HeartbeatTimer
    <2>3. SameStatuses
      BY <2>1, <2>2, BeatStatuses
    <2> QED BY <1>14, <1>s, <2>3 DEF HeartbeatAfterInspection, HeartbeatTimer
  <1>15. ASSUME NEW w \in Workers, ReportProgress(w) PROVE AssetFollowsJobs'
    <2> DEFINE j == worker[w].job
    <2>1. j \in Jobs
      BY <1>15 DEF ReportProgress, Handling
    <2>2. \/ job' = [job EXCEPT ![j] = Progressed(job[j])]
          \/ job' = job
      BY <1>15, Zenon DEF ReportProgress
    <2>3. Progressed(job[j]).status = job[j].status
      <3>1. job[j] \in Job
        BY <2>1 DEF Rows
      <3> QED BY <3>1, RowStatuses
    <2>4. SameStatuses
      BY <2>1, <2>2, <2>3, OneStatusSame DEF SameStatuses
    <2> QED BY <1>15, <1>s, <2>4 DEF ReportProgress
  <1>16. ASSUME NEW w \in Workers, CompleteAssetIngestion(w)
         PROVE  AssetFollowsJobs'
    <2> DEFINE j == worker[w].job
    <2>1. j \in Jobs
      BY <1>16 DEF CompleteAssetIngestion, Handling
    <2>2. \/ /\ job[j].status = "running"
             /\ job' = [job EXCEPT ![j] = Completed(job[j])]
             /\ asset' = [asset EXCEPT ![AssetOf[j]].ingestion = "ready"]
          \/ job' = job /\ asset' = asset
      BY <1>16, Zenon DEF CompleteAssetIngestion, HoldsLease
    <2>3. Completed(job[j]).status = "completed"
      <3>1. job[j] \in Job
        BY <2>1 DEF Rows
      <3> QED BY <3>1, RowStatuses
    <2>4. job[j].status = "running" => NonTerminal(j)
      BY <1>u, <2>1, UnfinishedJobs
    <2>5. spent' = spent
      BY <1>16 DEF CompleteAssetIngestion
    <2> QED BY <1>q, <2>1, <2>2, <2>3, <2>4, <2>5, EndFollows
  <1>17. ASSUME NEW w \in Workers, FailAssetIngestion(w) PROVE AssetFollowsJobs'
    <2> DEFINE j == worker[w].job
    <2>1. j \in Jobs
      BY <1>17 DEF FailAssetIngestion, Handling
    <2>2. \/ /\ job[j].status = "running"
             /\ job' = [job EXCEPT ![j] = Delayed(job[j])]
             /\ asset' = asset
          \/ /\ job[j].status = "running"
             /\ job' = [job EXCEPT ![j] = Settled(job[j], "failed")]
             /\ asset' = [asset EXCEPT ![AssetOf[j]].ingestion = "failed"]
          \/ job' = job /\ asset' = asset
      BY <1>17, Zenon DEF FailAssetIngestion, HoldsLease
    <2>r. job[j] \in Job
      BY <2>1
    <2>3. /\ Delayed(job[j]).status = "retry_scheduled"
          /\ Settled(job[j], "failed").status = "failed"
      <3> HIDE DEF j
      <3> QED BY <2>r, RowStatuses
    <2>4. job[j].status = "running" => NonTerminal(j)
      BY <1>u, <2>1, UnfinishedJobs
    <2>5. CASE /\ job[j].status = "running"
               /\ job' = [job EXCEPT ![j] = Delayed(job[j])]
               /\ asset' = asset
      <3>1. StaysUnfinished
        BY <1>u, <2>1, <2>3, <2>5, OneStays
      <3> QED BY <1>k, <2>5, <3>1, StaysFollows
    <2>6. CASE /\ job[j].status = "running"
               /\ job' = [job EXCEPT ![j] = Settled(job[j], "failed")]
               /\ asset' = [asset EXCEPT ![AssetOf[j]].ingestion = "failed"]
      <3>1. spent' = spent
        BY <1>17 DEF FailAssetIngestion
      <3> QED BY <2>1, <2>3, <2>4, <2>6, <3>1, EndFollows
    <2> QED BY <1>q, <2>2, <2>5, <2>6
  <1>22. CASE UNCHANGED vars
    BY <1>22, <1>q DEF vars
  <1>23. CASE Next
    BY <1>1, <1>2, <1>3, <1>4, <1>6, <1>7, <1>8, <1>9, <1>10, <1>11, <1>12, <1>14,
       <1>15, <1>16, <1>17, <1>23, NextCases, Zenon
  <1> QED BY <1>22, <1>23

(* Whatever maintenance fails behind their backs, no Asset has two          *)
(* unfinished Jobs; and one that it has not failed so is in processing      *)
(* while a Job of it is unfinished, and ready when one was completed.       *)
THEOREM AssetsFollowTheirJobs == Spec => []AssetFollowsJobs
  <1>1. Init => AssetFollowsJobs
    BY DEF Init, AssetFollowsJobs, NonTerminal, Inserted, NoRow
  <1>2. Typed /\ AssetFollowsJobs /\ [Next]_vars => AssetFollowsJobs'
    BY FollowsStep
  <1> QED BY <1>1, <1>2, TypedInit, TypedStep, PTL DEF Spec

-----------------------------------------------------------------------------
(* What claims may still be made.  Every claim beyond max_attempts is paid  *)
(* for by a process that ended or a lease that ran out: a Job that waits    *)
(* for its claim has one left, and so has a running Job unless the process  *)
(* it names lives, is at work on it and holds the lease.                    *)
Budget == MaxAttempts + spent.crashes + spent.rejections + spent.stalls

Claiming(w, j) ==
  /\ worker[w].life = "up"
  /\ worker[w].job = j
  /\ worker[w].pc \in Working \cup {"rejected"}
  /\ HoldsLease(w)

WithinBudget(j) ==
  /\ job[j].attempts <= Budget
  /\ job[j].status \in {"queued", "retry_scheduled"} => job[j].attempts < Budget
  /\ job[j].status = "running" =>
       job[j].attempts < Budget \/ \E w \in Workers : Claiming(w, j)

AllWithin == \A j \in Jobs : WithinBudget(j)

LEMMA BudgetType == Typed => Budget \in Nat /\ Budget >= MaxAttempts
  <1> SUFFICES ASSUME Typed PROVE Budget \in Nat /\ Budget >= MaxAttempts
    OBVIOUS
  <1>1. {spent.crashes, spent.rejections, spent.stalls} \subseteq Nat
    BY DEF Typed, Rest
  <1> QED BY <1>1, KernelAssumption DEF Budget

(* Nobody ends and no lease runs out. *)
LEMMA BudgetStands ==
  ASSUME spent' = spent PROVE Budget' = Budget
  BY DEF Budget

(* A process ends. *)
LEMMA BudgetRises ==
  ASSUME Typed,
         \/ spent' = [spent EXCEPT !.crashes = spent.crashes + 1]
         \/ spent' = [spent EXCEPT !.rejections = spent.rejections + 1]
  PROVE  Budget' = Budget + 1
  <1>1. {spent.crashes, spent.rejections, spent.stalls} \subseteq Nat
    BY DEF Typed, Rest
  <1>2. \/ /\ spent'.crashes = spent.crashes + 1
           /\ spent'.rejections = spent.rejections
           /\ spent'.stalls = spent.stalls
        \/ /\ spent'.crashes = spent.crashes
           /\ spent'.rejections = spent.rejections + 1
           /\ spent'.stalls = spent.stalls
    BY DEF Typed, Rest
  <1> QED BY <1>1, <1>2, KernelAssumption DEF Budget

LEMMA MoreBudget ==
  ASSUME Typed, AllWithin, job' = job, Budget' = Budget + 1
  PROVE  AllWithin'
  <1>1. \A j \in Jobs : job[j].attempts \in Nat
    BY DEF Typed, Rows, Job
  <1> QED BY <1>1, BudgetType DEF AllWithin, WithinBudget

(* Job j's rows and its claim stay as they were. *)
LEMMA Untouched ==
  ASSUME Budget' = Budget, NEW j \in Jobs, WithinBudget(j),
         job'[j] = job[j], step'[j] = step[j],
         \A w \in Workers : Claiming(w, j) =>
           /\ worker'[w].life = worker[w].life
           /\ worker'[w].job = worker[w].job
           /\ worker'[w].jobVersion = worker[w].jobVersion
           /\ worker'[w].stepVersion = worker[w].stepVersion
           /\ worker'[w].pc \in Working \cup {"rejected"}
  PROVE  WithinBudget(j)'
  <1>1. \A w \in Workers : Claiming(w, j) => Claiming(w, j)'
    BY DEF Claiming, HoldsLease
  <1> QED BY <1>1 DEF WithinBudget

(* A turn of process w that moves the rows of its own Job, or of one it     *)
(* turns to, concerns no other Job.                                         *)
LEMMA OneWithin ==
  ASSUME Typed, AllWithin, Budget' = Budget,
         NEW w \in Workers, NEW j \in Jobs,
         \A v \in Workers \ {w} : worker'[v] = worker[v],
         \A k \in Jobs \ {j} : job'[k] = job[k] /\ step'[k] = step[k],
         worker[w].job = j \/ worker[w].pc = "idle",
         WithinBudget(j)'
  PROVE  AllWithin'
  <1> SUFFICES ASSUME NEW k \in Jobs \ {j} PROVE WithinBudget(k)'
    BY DEF AllWithin
  <1>1. ~Claiming(w, k)
    BY DEF Claiming, Working
  <1>2. \A v \in Workers : Claiming(v, k) => worker'[v] = worker[v]
    BY <1>1
  <1>3. \A v \in Workers : Claiming(v, k) =>
          worker[v].pc \in Working \cup {"rejected"}
    BY DEF Claiming
  <1> QED BY <1>2, <1>3, Untouched DEF AllWithin

(* A turn of process w that moves no rows and does not let go of a claim.   *)
LEMMA QuietTurn ==
  ASSUME Typed, AllWithin, job' = job, step' = step, spent' = spent,
         NEW w \in Workers, NEW r,
         worker' = [worker EXCEPT ![w] = r], r.life = worker[w].life,
         \/ worker[w].pc \notin Working \cup {"rejected"}
         \/ ~HoldsLease(w)
         \/ /\ r.pc \in Working \cup {"rejected"}
            /\ r.job = worker[w].job
            /\ r.jobVersion = worker[w].jobVersion
            /\ r.stepVersion = worker[w].stepVersion
  PROVE  AllWithin'
  <1>1. worker'[w] = r /\ \A v \in Workers \ {w} : worker'[v] = worker[v]
    BY DEF Typed, Processes
  <1>2. Budget' = Budget
    BY <1>1, BudgetStands
  <1> SUFFICES ASSUME NEW j \in Jobs PROVE WithinBudget(j)'
    BY DEF AllWithin
  <1>3. \A v \in Workers : Claiming(v, j) =>
          /\ worker'[v].life = worker[v].life
          /\ worker'[v].job = worker[v].job
          /\ worker'[v].jobVersion = worker[v].jobVersion
          /\ worker'[v].stepVersion = worker[v].stepVersion
          /\ worker'[v].pc \in Working \cup {"rejected"}
    BY <1>1 DEF Claiming
  <1> QED BY <1>2, <1>3, Untouched DEF AllWithin

(* A row that is neither waiting for a claim nor running needs no budget    *)
(* left, and one that waits may have what its Job had left.                 *)
LEMMA RowWithin ==
  ASSUME Budget' = Budget, Budget \in Nat, NEW j \in Jobs,
         job[j].attempts \in Nat, job'[j].attempts = job[j].attempts,
         WithinBudget(j),
         \/ job'[j].status \notin {"queued", "retry_scheduled", "running"}
         \/ job[j].attempts < Budget
  PROVE  WithinBudget(j)'
  BY DEF WithinBudget

(* What the statements do to the attempts, and what they leave of a claim.  *)
LEMMA RowAttempts ==
  ASSUME NEW r \in Job, NEW w
  PROVE  /\ \A s : /\ Bumped(r, s).attempts = r.attempts
                   /\ Settled(r, s).attempts = r.attempts
                   /\ Requeued(r, s).attempts = r.attempts
         /\ \A x \in {Released(r), Leased(r, w), Progressed(r), Aged(r),
                      Completed(r), Delayed(r)} : x.attempts = r.attempts
         /\ Claimed(r, w).attempts = r.attempts + 1
  <1> USE DEF Job, Released, Leased, Settled
  <1>1. \A s : Bumped(r, s).attempts = r.attempts
    BY DEF Bumped
  <1>2. \A s : Settled(r, s).attempts = r.attempts
    OBVIOUS
  <1>3. \A s : Requeued(r, s).attempts = r.attempts
    BY DEF Requeued
  <1>4. Released(r).attempts = r.attempts /\ Leased(r, w).attempts = r.attempts
    OBVIOUS
  <1>5. Progressed(r).attempts = r.attempts /\ Aged(r).attempts = r.attempts
    BY DEF Progressed, Aged
  <1>6. Completed(r).attempts = r.attempts /\ Delayed(r).attempts = r.attempts
    BY DEF Completed, Delayed
  <1>7. Claimed(r, w).attempts = r.attempts + 1
    BY DEF Claimed, Taken
  <1> QED BY <1>1, <1>2, <1>3, <1>4, <1>5, <1>6, <1>7

LEMMA TickWithin ==
  ASSUME Typed, RowsInv, AllWithin, Tick PROVE AllWithin'
  <1> DEFINE lapse == Cardinality(AboutToLapse)
  <1>1. IsFiniteSet(AboutToLapse)
    BY FS_Subset, KernelAssumption DEF AboutToLapse
  <1>2. lapse \in Nat
    BY <1>1, FS_CardinalityType
  <1>3. worker' = worker
    BY DEF Tick
  <1>4. Budget' = Budget + lapse
    <2>1. /\ spent'.stalls = spent.stalls + lapse
          /\ spent'.crashes = spent.crashes
          /\ spent'.rejections = spent.rejections
          /\ {spent.crashes, spent.rejections, spent.stalls} \subseteq Nat
      BY DEF Tick, Typed, Rest
    <2> HIDE DEF lapse
    <2> QED BY <1>2, <2>1, KernelAssumption DEF Budget
  <1>5. Budget \in Nat
    BY BudgetType
  <1> SUFFICES ASSUME NEW j \in Jobs PROVE WithinBudget(j)'
    BY DEF AllWithin
  <1>6. job[j] \in Job /\ step[j] \in Step
    BY DEF Typed, Rows
  <1>7. job'[j] = Aged(job[j]) /\ step'[j] = Aged(step[j])
    BY DEF Tick
  <1>8. job'[j].attempts = job[j].attempts /\ job'[j].status = job[j].status
    BY <1>6, <1>7, RowAttempts, RowStatuses
  <1>9. job[j].attempts \in Nat
    BY <1>6 DEF Job
  <1>10. ASSUME NEW w \in Workers, Claiming(w, j)
         PROVE  lapse >= 1 \/ Claiming(w, j)'
    <2>1. /\ worker[w].life = "up" /\ worker[w].job = j
          /\ job[j].status = "running" /\ job[j].owner = w /\ job[j].lease > 0
          /\ step[j].lease = job[j].lease
      BY <1>10 DEF Claiming, HoldsLease, RowsInv, RowInv, Paired
    <2>2. CASE job[j].lease = 1
      <3>1. w \in AboutToLapse
        BY <2>1, <2>2, KernelAssumption DEF AboutToLapse
      <3>2. lapse # 0
        BY <1>1, <3>1, FS_EmptySet
      <3> QED BY <1>2, <3>2
    <2>3. CASE job[j].lease # 1
      <3>1. /\ job'[j].lease > 0 /\ step'[j].lease > 0
            /\ job'[j].version = job[j].version
            /\ step'[j].version = step[j].version
            /\ job'[j].owner = job[j].owner /\ step'[j].owner = step[j].owner
            /\ step'[j].status = step[j].status
        BY <1>6, <1>7, <2>1, <2>3 DEF Aged, Less, Job, Step
      <3> QED BY <1>3, <1>8, <1>10, <3>1 DEF Claiming, HoldsLease
    <2> QED BY <2>2, <2>3
  <1> HIDE DEF lapse
  <1> QED BY <1>2, <1>4, <1>5, <1>8, <1>9, <1>10 DEF AllWithin, WithinBudget

LEMMA BeatWithin ==
  ASSUME Typed, AllWithin, NEW w \in Workers, NEW j \in Jobs,
         worker[w].job = j, NEW pc \in Working, Beat(w, pc), spent' = spent
  PROVE  AllWithin'
  <1> USE DEF Typed, Rows, Processes
  <1>1. worker[w] \in Worker /\ job[j] \in Job /\ step[j] \in Step
    OBVIOUS
  <1>2. CASE HoldsLease(w) /\ worker[w].life = "up"
    <2> DEFINE r == [worker[w] EXCEPT !.pc = pc,
                       !.jobVersion = job'[j].version,
                       !.stepVersion = step'[j].version,
                       !.beats = worker[w].beats + 1]
    <2>1. /\ job' = [job EXCEPT ![j] = Leased(job[j], w)]
          /\ step' = [step EXCEPT ![j] = Leased(step[j], w)]
          /\ worker' = [worker EXCEPT ![w] = r]
      BY <1>2, Zenon DEF Beat
    <2>2. /\ r.life = "up" /\ r.pc = pc /\ r.job = j
          /\ r.jobVersion = job'[j].version
          /\ r.stepVersion = step'[j].version
      BY <1>1, <1>2 DEF Worker
    <2> HIDE DEF r
    <2>3. worker'[w] = r /\ \A v \in Workers \ {w} : worker'[v] = worker[v]
      BY <2>1
    <2>4. Budget' = Budget
      BY <1>2, <2>2, <2>3, BudgetStands
    <2>5. job'[j] = Leased(job[j], w) /\ step'[j] = Leased(step[j], w)
      BY <2>1
    <2>6. job'[j].attempts = job[j].attempts
      BY <1>1, <2>5, RowAttempts
    <2>7. HoldsLease(w)'
      <3>1. /\ job'[j].status = job[j].status /\ job'[j].owner = w
            /\ job'[j].lease = LeaseTicks
            /\ step'[j].status = step[j].status /\ step'[j].owner = w
            /\ step'[j].lease = LeaseTicks
        BY <1>1, <2>5 DEF Leased, Job, Step
      <3> QED BY <1>2, <2>2, <2>3, <3>1, KernelAssumption DEF HoldsLease
    <2>8. Claiming(w, j)'
      BY <2>2, <2>3, <2>7 DEF Claiming
    <2>9. WithinBudget(j)'
      <3>1. job'[j].status = "running"
        BY <2>2, <2>3, <2>7 DEF HoldsLease
      <3> QED BY <2>4, <2>6, <2>8, <3>1 DEF AllWithin, WithinBudget
    <2>10. \A k \in Jobs \ {j} : job'[k] = job[k] /\ step'[k] = step[k]
      BY <2>1
    <2> QED BY <2>3, <2>4, <2>9, <2>10, OneWithin
  <1>3. CASE ~(HoldsLease(w) /\ worker[w].life = "up")
    <2>1. job' = job /\ step' = step /\ Goto(w, pc)
      BY <1>3 DEF Beat
    <2> DEFINE r == [worker[w] EXCEPT !.pc = pc]
    <2>2. worker' = [worker EXCEPT ![w] = r]
      BY <2>1 DEF Goto
    <2>3. /\ r.life = worker[w].life /\ r.pc \in Working \cup {"rejected"}
          /\ r.job = worker[w].job /\ r.jobVersion = worker[w].jobVersion
          /\ r.stepVersion = worker[w].stepVersion
      BY <1>1 DEF Worker
    <2> HIDE DEF r
    <2> QED BY <2>1, <2>2, <2>3, QuietTurn
  <1> QED BY <1>2, <1>3

(* Where a turn that moves no row may leave its process. *)
LEMMA TurnWithin ==
  ASSUME Typed, AllWithin, NEW w \in Workers,
         job' = job, step' = step, spent' = spent,
         \/ \E pc \in Working \cup {"rejected"} : Goto(w, pc)
         \/ \E b \in BOOLEAN : FailWith(w, b)
         \/ GiveUp(w) /\ ~HoldsLease(w)
  PROVE  AllWithin'
  <1>1. worker[w] \in Worker
    BY DEF Typed, Processes
  <1>2. ASSUME NEW pc \in Working \cup {"rejected"}, Goto(w, pc)
        PROVE  AllWithin'
    <2> DEFINE r == [worker[w] EXCEPT !.pc = pc]
    <2>1. worker' = [worker EXCEPT ![w] = r]
      BY <1>2 DEF Goto
    <2>2. /\ r.life = worker[w].life /\ r.pc \in Working \cup {"rejected"}
          /\ r.job = worker[w].job /\ r.jobVersion = worker[w].jobVersion
          /\ r.stepVersion = worker[w].stepVersion
      BY <1>1 DEF Worker
    <2> HIDE DEF r
    <2> QED BY <2>1, <2>2, QuietTurn
  <1>3. ASSUME NEW b \in BOOLEAN, FailWith(w, b) PROVE AllWithin'
    <2> DEFINE r == [worker[w] EXCEPT !.pc = "failing", !.retryable = b]
    <2>1. worker' = [worker EXCEPT ![w] = r]
      BY <1>3 DEF FailWith, Typed, Processes, Worker
    <2>2. /\ r.life = worker[w].life /\ r.pc \in Working \cup {"rejected"}
          /\ r.job = worker[w].job /\ r.jobVersion = worker[w].jobVersion
          /\ r.stepVersion = worker[w].stepVersion
      BY <1>1 DEF Worker, Working
    <2> HIDE DEF r
    <2> QED BY <2>1, <2>2, QuietTurn
  <1>4. CASE GiveUp(w) /\ ~HoldsLease(w)
    <2> DEFINE r == Idle(worker[w].life)
    <2>1. worker' = [worker EXCEPT ![w] = r] /\ r.life = worker[w].life
      BY <1>4 DEF GiveUp, Idle, Holding
    <2> HIDE DEF r
    <2> QED BY <1>4, <2>1, QuietTurn
  <1> QED BY <1>2, <1>3, <1>4

(* Nobody's claim changes and no process ends; only Job j's rows move. *)
LEMMA RowsWithin ==
  ASSUME Typed, AllWithin, worker' = worker, spent' = spent,
         \A j \in Jobs : \/ job'[j] = job[j] /\ step'[j] = step[j]
                         \/ /\ job'[j].attempts = job[j].attempts
                            /\ \/ job'[j].status \notin {"queued",
                                    "retry_scheduled", "running"}
                               \/ job[j].attempts < Budget
  PROVE  AllWithin'
  <1>1. Budget' = Budget /\ Budget \in Nat
    BY BudgetStands, BudgetType
  <1> SUFFICES ASSUME NEW j \in Jobs PROVE WithinBudget(j)'
    BY DEF AllWithin
  <1>2. CASE job'[j] = job[j] /\ step'[j] = step[j]
    BY <1>1, <1>2, Untouched DEF AllWithin, Claiming
  <1>3. CASE ~(job'[j] = job[j] /\ step'[j] = step[j])
    <2>1. job[j].attempts \in Nat
      BY DEF Typed, Rows, Job
    <2> QED BY <1>1, <1>3, <2>1, RowWithin DEF AllWithin
  <1> QED BY <1>2, <1>3

(* Process w ends the work on its own Job. *)
LEMMA SettlesWithin ==
  ASSUME Typed, AllWithin, NEW w \in Workers, spent' = spent,
         NEW j \in Jobs, worker[w].job = j, GiveUp(w),
         \A k \in Jobs \ {j} : job'[k] = job[k] /\ step'[k] = step[k],
         job'[j].attempts = job[j].attempts,
         job'[j].status \in Terminal \/ job[j].attempts < MaxAttempts
  PROVE  AllWithin'
  <1> DEFINE r == Idle(worker[w].life)
  <1>1. worker' = [worker EXCEPT ![w] = r] /\ r.life = worker[w].life
    BY DEF GiveUp, Idle, Holding
  <1> HIDE DEF r
  <1>2. worker'[w] = r /\ \A v \in Workers \ {w} : worker'[v] = worker[v]
    BY <1>1 DEF Typed, Processes
  <1>3. Budget' = Budget /\ Budget \in Nat /\ Budget >= MaxAttempts
    BY <1>1, <1>2, BudgetStands, BudgetType
  <1>4. job[j].attempts \in Nat
    BY DEF Typed, Rows, Job
  <1>5. job'[j].status \in Terminal \/ job[j].attempts < Budget
    BY <1>3, <1>4, KernelAssumption
  <1>6. WithinBudget(j)'
    BY <1>3, <1>4, <1>5, RowWithin DEF AllWithin, Terminal
  <1> QED BY <1>2, <1>3, <1>6, OneWithin

LEMMA ClaimWithin ==
  ASSUME Typed, RowsInv, AllWithin, NEW w \in Workers, ClaimNext(w)
  PROVE  AllWithin'
  <1> USE DEF Typed, Rows, Processes
  <1>1. PICK j \in Jobs :
           /\ job[j].status = "queued"
           /\ step[j].status = "pending"
           /\ job' = [job EXCEPT ![j] = Claimed(job[j], w)]
           /\ step' = [step EXCEPT ![j] = Taken(step[j], w)]
           /\ worker' = [worker EXCEPT ![w] = [worker[w] EXCEPT
                !.pc = "claimed", !.job = j, !.jobVersion = job'[j].version,
                !.stepVersion = step'[j].version,
                !.attempt = job'[j].attempts]]
    BY Zenon DEF ClaimNext
  <1>2. worker[w].life = "up" /\ worker[w].pc = "idle" /\ spent' = spent
    BY DEF ClaimNext, Ready
  <1>3. worker[w] \in Worker /\ job[j] \in Job /\ step[j] \in Step
    OBVIOUS
  <1> DEFINE r == [worker[w] EXCEPT !.pc = "claimed", !.job = j,
                     !.jobVersion = job'[j].version,
                     !.stepVersion = step'[j].version,
                     !.attempt = job'[j].attempts]
  <1>4. /\ r.life = "up" /\ r.pc = "claimed" /\ r.job = j
        /\ r.jobVersion = job'[j].version /\ r.stepVersion = step'[j].version
    BY <1>2, <1>3 DEF Worker
  <1>5. worker'[w] = r /\ \A v \in Workers \ {w} : worker'[v] = worker[v]
    BY <1>1
  <1> HIDE DEF r
  <1>6. Budget' = Budget /\ Budget \in Nat
    BY <1>2, <1>4, <1>5, BudgetStands, BudgetType
  <1>7. job'[j] = Claimed(job[j], w) /\ step'[j] = Taken(step[j], w)
    BY <1>1
  <1>8. job'[j].attempts = job[j].attempts + 1 /\ job[j].attempts \in Nat
    BY <1>3, <1>7, RowAttempts DEF Job
  <1>9. /\ job'[j].status = "running" /\ job'[j].owner = w
        /\ job'[j].lease = LeaseTicks
        /\ step'[j].status = "running" /\ step'[j].owner = w
        /\ step'[j].lease = LeaseTicks
    BY <1>3, <1>7 DEF Claimed, Taken, Leased, Job, Step
  <1>10. Claiming(w, j)'
    BY <1>4, <1>5, <1>9, KernelAssumption DEF Claiming, HoldsLease, Working
  <1>11. job[j].attempts < Budget
    BY <1>1 DEF AllWithin, WithinBudget
  <1>12. WithinBudget(j)'
    BY <1>6, <1>8, <1>9, <1>10, <1>11 DEF WithinBudget
  <1>13. \A k \in Jobs \ {j} : job'[k] = job[k] /\ step'[k] = step[k]
    BY <1>1
  <1> QED BY <1>2, <1>5, <1>6, <1>12, <1>13, OneWithin

LEMMA ProgressWithin ==
  ASSUME Typed, AllWithin, NEW w \in Workers, ReportProgress(w)
  PROVE  AllWithin'
  <1> USE DEF Typed, Rows, Processes
  <1>1. PICK j \in Jobs : j = worker[w].job
    BY DEF ReportProgress, Handling, ClaimsHeld
  <1>2. step' = step /\ spent' = spent
    BY DEF ReportProgress
  <1>3. worker[w] \in Worker /\ job[j] \in Job
    OBVIOUS
  <1> DEFINE r == [worker[w] EXCEPT !.pc = "progressed",
                     !.jobVersion = job'[j].version]
  <1>4. CASE /\ HoldsLease(w)
             /\ job' = [job EXCEPT ![j] = Progressed(job[j])]
             /\ worker' = [worker EXCEPT ![w] = r]
    <2>1. /\ r.life = worker[w].life /\ r.pc = "progressed" /\ r.job = j
          /\ r.jobVersion = job'[j].version
          /\ r.stepVersion = worker[w].stepVersion
      BY <1>1, <1>3 DEF Worker
    <2> HIDE DEF r
    <2>2. worker'[w] = r /\ \A v \in Workers \ {w} : worker'[v] = worker[v]
      BY <1>4
    <2>3. Budget' = Budget
      BY <1>2, <2>1, <2>2, BudgetStands
    <2>4. job'[j] = Progressed(job[j])
      BY <1>4
    <2>5. /\ job'[j].attempts = job[j].attempts
          /\ job'[j].status = job[j].status
          /\ job'[j].owner = job[j].owner
          /\ job'[j].lease = job[j].lease
      BY <1>3, <2>4 DEF Progressed, Job
    <2>6. HoldsLease(w)'
      BY <1>1, <1>2, <1>4, <2>1, <2>2, <2>5 DEF HoldsLease
    <2>7. ASSUME NEW v \in Workers, Claiming(v, j) PROVE Claiming(v, j)'
      <3>1. v = w
        BY <1>1, <1>4, <2>7 DEF Claiming, HoldsLease
      <3> QED BY <2>1, <2>2, <2>6, <2>7, <3>1 DEF Claiming, Working
    <2>8. WithinBudget(j)'
      BY <2>3, <2>5, <2>7 DEF AllWithin, WithinBudget
    <2>9. \A k \in Jobs \ {j} : job'[k] = job[k] /\ step'[k] = step[k]
      BY <1>2, <1>4
    <2> QED BY <1>1, <2>2, <2>3, <2>8, <2>9, OneWithin
  <1>5. CASE Goto(w, "progressed") /\ job' = job
    BY <1>2, <1>5, TurnWithin DEF Working
  <1>6. CASE FailWith(w, TRUE) /\ job' = job
    BY <1>2, <1>6, TurnWithin
  <1>7. \/ /\ HoldsLease(w)
           /\ job' = [job EXCEPT ![j] = Progressed(job[j])]
           /\ worker' = [worker EXCEPT ![w].pc = "progressed",
                                       ![w].jobVersion = job'[j].version]
        \/ Goto(w, "progressed") /\ job' = job
        \/ FailWith(w, TRUE) /\ job' = job
    BY <1>1, Zenon DEF ReportProgress
  <1>8. worker' = [worker EXCEPT ![w].pc = "progressed",
                                 ![w].jobVersion = job'[j].version]
          => worker' = [worker EXCEPT ![w] = r]
    BY <1>3 DEF Worker
  <1> QED BY <1>4, <1>5, <1>6, <1>7, <1>8

LEMMA WithinStep ==
  ASSUME Typed, RowsInv, AllWithin, [Next]_vars PROVE AllWithin'
  <1> USE DEF Typed, Rows, ClaimsHeld
  <1>r. \A j \in Jobs : job[j] \in Job /\ job[j].attempts \in Nat
    BY DEF Job
  <1>b. Budget \in Nat /\ Budget >= MaxAttempts /\ MaxAttempts \in Nat \ {0}
    BY BudgetType, KernelAssumption
  <1>n. ASSUME job' = job, step' = step, worker' = worker, spent' = spent
        PROVE  AllWithin'
    BY <1>n, RowsWithin
  <1>w. \A j \in Jobs : WithinBudget(j)
    BY DEF AllWithin
  <1>1. ASSUME NEW j \in Jobs, CompleteUpload(j) PROVE AllWithin'
    <2>0. CASE job' = job /\ step' = step
      BY <1>1, <1>n, <2>0 DEF CompleteUpload
    <2>1. CASE Admit({j})
      <3>1. /\ job'[j].attempts = 0 /\ job'[j].status = "queued"
            /\ \A k \in Jobs \ {j} : job'[k] = job[k] /\ step'[k] = step[k]
        BY <2>1 DEF Admit, QueuedRow, NoRow
      <3>2. worker' = worker /\ spent' = spent
        BY <1>1 DEF CompleteUpload
      <3>3. Budget' = Budget
        BY <3>2, BudgetStands
      <3>4. \A k \in Jobs \ {j} : WithinBudget(k)'
        BY <1>w, <3>1, <3>2, <3>3, Untouched DEF Claiming
      <3>5. WithinBudget(j)'
        BY <1>b, <3>1, <3>3 DEF WithinBudget
      <3> QED BY <3>4, <3>5 DEF AllWithin
    <2> QED BY <1>1, <2>0, <2>1 DEF CompleteUpload
  <1>2. ASSUME NEW j \in Jobs, Cancel(j) PROVE AllWithin'
    <2>1. /\ Bumped(job[j], "cancel_requested").status = "cancel_requested"
          /\ Bumped(job[j], "cancel_requested").attempts = job[j].attempts
      BY <1>r, RowStatuses, RowAttempts
    <2>2. /\ job' = [job EXCEPT ![j] = Bumped(job[j], "cancel_requested")]
          /\ step' = step /\ worker' = worker /\ spent' = spent
      BY <1>2 DEF Cancel
    <2> QED BY <2>1, <2>2, RowsWithin
  <1>3. ASSUME NEW a \in Assets, SoftDelete(a) PROVE AllWithin'
    <2>1. /\ worker' = worker /\ job' = job /\ step' = step
          /\ spent' = [spent EXCEPT !.deletes = @ + 1]
      BY <1>3 DEF SoftDelete
    <2>3. Budget' = Budget
      BY <2>1 DEF Budget, Rest
    <2> QED BY <1>w, <2>1, <2>3, Untouched DEF AllWithin, Claiming
  <1>4. ASSUME NEW a \in Assets,
               Restore(a) \/ RetryIngestion(a) \/ FailUpload(a)
        PROVE  AllWithin'
    BY <1>4, <1>n DEF Restore, RetryIngestion, FailUpload
  <1>5. ASSUME NEW a \in Assets, FailStaleUpload(a) PROVE AllWithin'
    <2>1. /\ worker' = worker /\ job' = job /\ step' = step
          /\ spent' = [spent EXCEPT !.stale[a] = @ + 1]
      BY <1>5 DEF FailStaleUpload
    <2>3. Budget' = Budget
      BY <2>1 DEF Budget, Rest
    <2> QED BY <1>w, <2>1, <2>3, Untouched DEF AllWithin, Claiming
  <1>6. ASSUME NEW p \in Projects, DeleteProject(p) \/ RestoreProject(p)
        PROVE  AllWithin'
    <2>1. /\ worker' = worker /\ job' = job /\ step' = step
          /\ \/ spent' = spent
             \/ spent' = [spent EXCEPT !.deletes = @ + 1]
      BY <1>6 DEF DeleteProject, RestoreProject
    <2>2. Budget' = Budget
      BY <2>1 DEF Budget, Rest
    <2> QED BY <1>w, <2>1, <2>2, Untouched DEF AllWithin, Claiming
  <1>7. ASSUME NEW w \in Workers, Start(w) PROVE AllWithin'
    <2>1. PICK S \in SUBSET {j \in Jobs : AssetOf[j] \in Orphans} : Admit(S)
      BY <1>7 DEF Start
    <2>2. /\ worker[w].life = "down" /\ spent' = spent
          /\ worker'[w].life = "up"
          /\ \A v \in Workers \ {w} : worker'[v] = worker[v]
      BY <1>7 DEF Start, Fresh, Processes, Worker
    <2>4. Budget' = Budget
      BY <2>2, BudgetStands
    <2>5. ASSUME NEW j \in S PROVE WithinBudget(j)'
      <3>1. job'[j].attempts = 0 /\ job'[j].status = "queued" /\ j \in Jobs
        BY <2>1 DEF Admit, QueuedRow, NoRow
      <3> QED BY <1>b, <2>4, <3>1 DEF WithinBudget
    <2>6. ASSUME NEW j \in Jobs \ S PROVE WithinBudget(j)'
      <3>1. job'[j] = job[j] /\ step'[j] = step[j]
        BY <2>1 DEF Admit
      <3>2. \A v \in Workers : Claiming(v, j) => worker'[v] = worker[v]
        BY <2>2 DEF Claiming
      <3>3. \A v \in Workers : Claiming(v, j) =>
              worker[v].pc \in Working \cup {"rejected"}
        BY DEF Claiming
      <3> QED BY <1>w, <2>4, <3>1, <3>2, <3>3, Untouched
    <2> QED BY <2>5, <2>6 DEF AllWithin
  <1>8. ASSUME NEW w \in Workers, Reconcile(w) PROVE AllWithin'
    <2>1. worker' = worker /\ spent' = spent
      BY <1>8 DEF Reconcile
    <2>2. ASSUME NEW j \in Jobs
          PROVE  \/ job'[j] = job[j] /\ step'[j] = step[j]
                 \/ /\ job'[j].attempts = job[j].attempts
                    /\ \/ job'[j].status \notin {"queued",
                            "retry_scheduled", "running"}
                       \/ job[j].attempts < Budget
      <3>1. CASE j \in Expired
        <4>1. job'[j] = Requeued(job[j], "queued")
          BY <1>8, <3>1 DEF Reconcile
        <4>2. job[j].status = "running" /\ job[j].lease = 0
          BY <3>1 DEF Expired, Lapsed
        <4>3. \A v \in Workers : ~Claiming(v, j)
          BY <4>2 DEF Claiming, HoldsLease
        <4>4. job[j].attempts < Budget
          BY <1>w, <4>2, <4>3 DEF WithinBudget
        <4> QED BY <1>r, <4>1, <4>4, RowAttempts
      <3>2. CASE j \in DueRetries \ Expired
        <4>1. job'[j] = Bumped(job[j], "queued")
          BY <1>8, <3>2 DEF Reconcile
        <4>2. job[j].attempts < Budget
          BY <1>w, <3>2 DEF WithinBudget, DueRetries
        <4> QED BY <1>r, <4>1, <4>2, RowAttempts
      <3>3. CASE j \in LapsedHolds \ (Expired \cup DueRetries)
        <4>1. job'[j] = Released(job[j])
          BY <1>8, <3>3 DEF Reconcile
        <4>2. job[j].status \in {"waiting_provider", "cancel_requested"}
          BY <3>3 DEF LapsedHolds
        <4>3. /\ Released(job[j]).attempts = job[j].attempts
              /\ Released(job[j]).status = job[j].status
          BY <1>r, RowAttempts, RowStatuses
        <4> QED BY <4>1, <4>2, <4>3
      <3>4. CASE j \notin Expired \cup DueRetries \cup LapsedHolds
        BY <1>8, <3>4 DEF Reconcile
      <3> QED BY <3>1, <3>2, <3>3, <3>4
    <2> QED BY <2>1, <2>2, RowsWithin
  <1>9. ASSUME NEW w \in Workers, ClaimCancellationCleanup(w)
        PROVE  AllWithin'
    <2>1. PICK j \in Jobs :
             /\ job[j].status = "cancel_requested"
             /\ job' = [job EXCEPT ![j] = Leased(job[j], w)]
             /\ worker' = [worker EXCEPT ![w] = [worker[w] EXCEPT
                  !.pc = "cleanup", !.job = j, !.jobVersion = job'[j].version]]
      BY <1>9, Zenon DEF ClaimCancellationCleanup, CleanupCandidates
    <2>2. worker[w].pc = "idle" /\ step' = step /\ spent' = spent
      BY <1>9 DEF ClaimCancellationCleanup, Ready
    <2> DEFINE r == [worker[w] EXCEPT !.pc = "cleanup", !.job = j,
                                      !.jobVersion = job'[j].version]
    <2>3. r.life = worker[w].life
      BY DEF Processes, Worker
    <2>4. worker'[w] = r /\ \A v \in Workers \ {w} : worker'[v] = worker[v]
      BY <2>1 DEF Processes
    <2> HIDE DEF r
    <2>5. Budget' = Budget
      BY <2>2, <2>3, <2>4, BudgetStands
    <2>6. /\ Leased(job[j], w).attempts = job[j].attempts
          /\ Leased(job[j], w).status = job[j].status
      BY <1>r, RowAttempts, RowStatuses
    <2>7. job'[j] = Leased(job[j], w)
      BY <2>1
    <2>8. WithinBudget(j)'
      BY <1>b, <1>r, <1>w, <2>1, <2>5, <2>6, <2>7, RowWithin
    <2>9. \A k \in Jobs \ {j} : job'[k] = job[k] /\ step'[k] = step[k]
      BY <2>1, <2>2
    <2> QED BY <2>2, <2>4, <2>5, <2>8, <2>9, OneWithin
  <1>11. ASSUME NEW w \in Workers, CompleteCancellationCleanup(w)
         PROVE  AllWithin'
    <2>1. PICK j \in Jobs : j = worker[w].job
      BY <1>11 DEF CompleteCancellationCleanup
    <2>2. spent' = spent
      BY <1>11 DEF CompleteCancellationCleanup
    <2>3. \/ /\ job' = [job EXCEPT ![j] = Settled(job[j], "cancelled")]
             /\ step' = [step EXCEPT ![j] = Settled(step[j], "cancelled")]
                \/ step' = step
             /\ GiveUp(w)
          \/ job' = job /\ step' = step /\ Goto(w, "rejected")
      BY <1>11, <2>1, Zenon DEF CompleteCancellationCleanup
    <2>4. /\ Settled(job[j], "cancelled").status = "cancelled"
          /\ Settled(job[j], "cancelled").attempts = job[j].attempts
      BY <1>r, RowStatuses, RowAttempts
    <2>5. CASE job' = job /\ step' = step /\ Goto(w, "rejected")
      BY <2>2, <2>5, TurnWithin
    <2>6. CASE /\ job' = [job EXCEPT ![j] = Settled(job[j], "cancelled")]
               /\ step' = [step EXCEPT ![j] = Settled(step[j], "cancelled")]
                  \/ step' = step
               /\ GiveUp(w)
      <3>1. /\ job'[j].status \in Terminal
            /\ job'[j].attempts = job[j].attempts
        BY <2>4, <2>6 DEF Terminal
      <3>2. \A k \in Jobs \ {j} : job'[k] = job[k] /\ step'[k] = step[k]
        BY <2>6
      <3> QED BY <2>1, <2>2, <2>6, <3>1, <3>2, SettlesWithin
    <2> QED BY <2>3, <2>5, <2>6
  <1>12. ASSUME NEW w \in Workers, StartHandling(w) \/ Inspected(w)
         PROVE  AllWithin'
    <2>1. job' = job /\ step' = step /\ spent' = spent
      BY <1>12 DEF StartHandling, Inspected
    <2>2. \/ Goto(w, "inspecting") \/ Goto(w, "inspected")
          \/ \E b \in BOOLEAN : FailWith(w, b)
      BY <1>12 DEF StartHandling, Inspected
    <2> QED BY <2>1, <2>2, TurnWithin DEF Working
  <1>14. ASSUME NEW w \in Workers,
                HeartbeatAfterInspection(w) \/ HeartbeatTimer(w)
         PROVE  AllWithin'
    <2>1. worker[w].job \in Jobs /\ spent' = spent
      BY <1>14 DEF HeartbeatAfterInspection, HeartbeatTimer, Handling
    <2>2. \E pc \in Working : Beat(w, pc)
      BY <1>14 DEF HeartbeatAfterInspection, HeartbeatTimer, Working
    <2> QED BY <2>1, <2>2, BeatWithin
  <1>16. ASSUME NEW w \in Workers, CompleteAssetIngestion(w) PROVE AllWithin'
    <2>1. PICK j \in Jobs : j = worker[w].job
      BY <1>16 DEF CompleteAssetIngestion, Handling
    <2>2. spent' = spent
      BY <1>16 DEF CompleteAssetIngestion
    <2>3. \/ /\ job' = [job EXCEPT ![j] = Completed(job[j])]
             /\ step' = [step EXCEPT ![j] = Settled(step[j], "completed")]
             /\ GiveUp(w)
          \/ job' = job /\ step' = step /\ FailWith(w, ~HoldsLease(w))
      BY <1>16, <2>1, Zenon DEF CompleteAssetIngestion
    <2>4. /\ Completed(job[j]).status = "completed"
          /\ Completed(job[j]).attempts = job[j].attempts
      BY <1>r, RowStatuses, RowAttempts
    <2>5. CASE /\ job' = [job EXCEPT ![j] = Completed(job[j])]
               /\ step' = [step EXCEPT ![j] = Settled(step[j], "completed")]
               /\ GiveUp(w)
      <3>1. /\ job'[j].status \in Terminal
            /\ job'[j].attempts = job[j].attempts
            /\ \A k \in Jobs \ {j} : job'[k] = job[k] /\ step'[k] = step[k]
        BY <2>4, <2>5 DEF Terminal
      <3> QED BY <2>1, <2>2, <2>5, <3>1, SettlesWithin
    <2>6. CASE job' = job /\ step' = step /\ FailWith(w, ~HoldsLease(w))
      <3> DEFINE b == ~HoldsLease(w)
      <3>1. b \in BOOLEAN /\ FailWith(w, b)
        BY <2>6
      <3> HIDE DEF b
      <3> QED BY <2>2, <2>6, <3>1, TurnWithin
    <2> QED BY <2>3, <2>5, <2>6
  <1>17. ASSUME NEW w \in Workers, FailAssetIngestion(w) PROVE AllWithin'
    <2>1. PICK j \in Jobs : j = worker[w].job
      BY <1>17 DEF FailAssetIngestion, Handling
    <2>2. spent' = spent
      BY <1>17 DEF FailAssetIngestion
    <2>3. \/ /\ CanRetry(w)
             /\ job' = [job EXCEPT ![j] = Delayed(job[j])]
             /\ step' = [step EXCEPT ![j] = Delayed(step[j])]
             /\ GiveUp(w)
          \/ /\ job' = [job EXCEPT ![j] = Settled(job[j], "failed")]
             /\ step' = [step EXCEPT ![j] = Settled(step[j], "failed")]
             /\ GiveUp(w)
          \/ job' = job /\ step' = step /\ Goto(w, "rejected")
          \/ job' = job /\ step' = step /\ GiveUp(w) /\ ~HoldsLease(w)
      BY <1>17, <2>1, Zenon DEF FailAssetIngestion
    <2>4. /\ Delayed(job[j]).attempts = job[j].attempts
          /\ Settled(job[j], "failed").attempts = job[j].attempts
          /\ Settled(job[j], "failed").status = "failed"
      BY <1>r, RowStatuses, RowAttempts
    <2>5. CASE /\ CanRetry(w)
               /\ job' = [job EXCEPT ![j] = Delayed(job[j])]
               /\ step' = [step EXCEPT ![j] = Delayed(step[j])]
               /\ GiveUp(w)
      <3>1. /\ job[j].attempts < MaxAttempts
            /\ job'[j].attempts = job[j].attempts
            /\ \A k \in Jobs \ {j} : job'[k] = job[k] /\ step'[k] = step[k]
        BY <2>1, <2>4, <2>5 DEF CanRetry
      <3> QED BY <2>1, <2>2, <2>5, <3>1, SettlesWithin
    <2>6. CASE /\ job' = [job EXCEPT ![j] = Settled(job[j], "failed")]
               /\ step' = [step EXCEPT ![j] = Settled(step[j], "failed")]
               /\ GiveUp(w)
      <3>1. /\ job'[j].status \in Terminal
            /\ job'[j].attempts = job[j].attempts
            /\ \A k \in Jobs \ {j} : job'[k] = job[k] /\ step'[k] = step[k]
        BY <2>4, <2>6 DEF Terminal
      <3> QED BY <2>1, <2>2, <2>6, <3>1, SettlesWithin
    <2> QED BY <2>2, <2>3, <2>5, <2>6, TurnWithin
  <1>19. ASSUME NEW w \in Workers, Stop(w) \/ Crash(w) PROVE AllWithin'
    <2>1. /\ job' = job
          /\ spent' = [spent EXCEPT !.crashes = spent.crashes + 1]
      BY <1>19 DEF Stop, Crash
    <2> QED BY <2>1, BudgetRises, MoreBudget
  <1>21. ASSUME NEW w \in Workers, Exit(w) PROVE AllWithin'
    <2>1. /\ worker'[w].life = "down"
          /\ \A v \in Workers \ {w} : worker'[v] = worker[v]
      BY <1>21 DEF Exit, Idle, Holding, Processes
    <2>2. job' = job /\ step' = step
      BY <1>21 DEF Exit
    <2>3. CASE spent' = [spent EXCEPT !.rejections = @ + 1]
      BY <2>2, <2>3, BudgetRises, MoreBudget
    <2>4. CASE worker[w].life = "stopping" /\ spent' = spent
      <3>2. Budget' = Budget
        BY <2>4, BudgetStands
      <3> SUFFICES ASSUME NEW j \in Jobs PROVE WithinBudget(j)'
        BY DEF AllWithin
      <3>3. \A v \in Workers : Claiming(v, j) => worker'[v] = worker[v]
        BY <2>1, <2>4 DEF Claiming
      <3>4. \A v \in Workers : Claiming(v, j) =>
              worker[v].pc \in Working \cup {"rejected"}
        BY DEF Claiming
      <3> QED BY <1>w, <2>2, <3>2, <3>3, <3>4, Untouched
    <2> QED BY <1>21, <2>3, <2>4 DEF Exit
  <1>22. CASE UNCHANGED vars
    BY <1>22, <1>n DEF vars
  <1>23. CASE Next
    BY <1>1, <1>2, <1>3, <1>4, <1>5, <1>6, <1>7, <1>8, <1>9, <1>11, <1>12, <1>14,
       <1>16, <1>17, <1>19, <1>21, <1>23, TickWithin, ClaimWithin,
       ProgressWithin, NextCases, Zenon
  <1> QED BY <1>22, <1>23

(* Whatever processes end or fall behind their leases, and whatever else    *)
(* they do meanwhile, each claim of a Job beyond its policy is the answer   *)
(* to one of these losses.                                                  *)
THEOREM ClaimsAnswerLosses == Spec => []LossesExceedPolicy
  <1>1. Init => AllWithin
    <2> SUFFICES ASSUME Init PROVE AllWithin
      OBVIOUS
    <2>1. Budget \in Nat
      BY TypedInit, BudgetType
    <2> QED BY <2>1 DEF Init, AllWithin, WithinBudget, NoRow
  <1>2. Typed /\ RowsInv /\ AllWithin /\ [Next]_vars => AllWithin'
    BY WithinStep
  <1>3. AllWithin => LossesExceedPolicy
    BY DEF AllWithin, WithinBudget, Budget, LossesExceedPolicy
  <1> QED BY <1>1, <1>2, <1>3, AlwaysRowsInv, PTL DEF Spec
=============================================================================
