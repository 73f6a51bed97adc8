---------------------------- MODULE ServerProcess ----------------------------
(***************************************************************************)
(* One server process after another over one database: the start, the      *)
(* maintenance, outbox and dispatcher loops that it runs while it serves,  *)
(* and its shutdown in the order of the close hook.  Signals before the    *)
(* process listens end it at once and are crashes here.  An application    *)
(* key is configured; without one neither outbox nor dispatcher exist.     *)
(***************************************************************************)
EXTENDS Startup, Dispatcher

VARIABLES
  preview,   \* a preview maintenance pass is under way
  outbox,    \* an outbox pass is under way
  survey     \* an Asset maintenance pass is under way

passVars == <<preview, outbox, survey>>
vars == <<startupVars, loopVars, passVars>>

-----------------------------------------------------------------------------
RunPhases == {"starting", "opening", "serving"}
ClosePhases == {"closing", "draining", "settling", "closed"}

To(next) == phase' = next /\ UNCHANGED <<diskVars, mode, lifeVars, crashes>>

(* A process that ends leaves nothing of its loops. *)
Gone == /\ Exit /\ LoopGone
        /\ preview' = FALSE /\ outbox' = FALSE /\ survey' = FALSE

-----------------------------------------------------------------------------
(* buildApplication, after the database: the witness is recorded, storage   *)
(* is probed, and assets are reconciled once.  The first pass of preview    *)
(* maintenance and of the outbox are waited for.                            *)

StorageReady ==
  /\ phase = "migrated"
  /\ To("starting")
  /\ preview' = TRUE
  /\ UNCHANGED <<loopVars, outbox, survey>>

StorageFails ==
  /\ phase = "migrated" /\ crashes < CrashBound
  /\ crashes' = crashes + 1
  /\ Gone
  /\ UNCHANGED <<diskVars, mode>>

StartLoops ==
  /\ phase = "starting" /\ ~preview
  /\ To("opening")
  /\ Start
  /\ outbox' = TRUE
  /\ UNCHANGED <<preview, survey>>

Listen ==
  /\ phase = "opening" /\ ~outbox
  /\ To("serving")
  /\ UNCHANGED <<loopVars, passVars>>

-----------------------------------------------------------------------------
(* While it runs *)

Write ==
  /\ phase = "serving" /\ db.data < DataBound
  /\ db' = [db EXCEPT !.data = @ + 1]
  /\ UNCHANGED <<replica, backups, mode, phase, lifeVars, crashes, loopVars,
                 passVars>>

PreviewPass ==
  /\ phase \in {"opening", "serving"} /\ ~preview
  /\ preview' = TRUE
  /\ UNCHANGED <<startupVars, loopVars, outbox, survey>>

PreviewEnds ==
  /\ preview
  /\ preview' = FALSE
  /\ UNCHANGED <<startupVars, loopVars, outbox, survey>>

OutboxPass ==
  /\ phase \in {"serving", "closing"} /\ ~outbox
  /\ outbox' = TRUE
  /\ UNCHANGED <<startupVars, loopVars, preview, survey>>

OutboxWakes ==
  /\ outbox /\ Wake
  /\ UNCHANGED <<startupVars, passVars>>

OutboxEnds ==
  /\ outbox
  /\ outbox' = FALSE
  /\ UNCHANGED <<startupVars, loopVars, preview, survey>>

(* The interval starts a pass also while another one is under way; survey   *)
(* stands for one or more.  The hook clears the interval and waits for no   *)
(* pass, so that one may find the database and the storage closed.          *)
AssetPass ==
  /\ phase = "serving" /\ ~survey
  /\ survey' = TRUE
  /\ UNCHANGED <<startupVars, loopVars, preview, outbox>>

AssetPassEnds ==
  /\ survey
  /\ survey' = FALSE
  /\ UNCHANGED <<startupVars, loopVars, preview, outbox>>

LoopTick == Tick /\ UNCHANGED <<startupVars, passVars>>
LoopEndTick == EndTick /\ UNCHANGED <<startupVars, passVars>>

-----------------------------------------------------------------------------
(* The close hook *)

Signal ==
  /\ phase = "serving"
  /\ To("closing")
  /\ UNCHANGED <<loopVars, passVars>>

(* closeSharedResources stops the outbox and waits for its pass. *)
PreviewStopped ==
  /\ phase = "closing" /\ ~preview
  /\ To("draining")
  /\ UNCHANGED <<loopVars, passVars>>

(* The hook throws when the pass outlasts its grace.  Nobody handles the    *)
(* rejection that becomes of it, which ends the process before the          *)
(* resources would be closed.                                               *)
PreviewOutlasts ==
  /\ phase = "closing" /\ preview
  /\ Gone
  /\ UNCHANGED <<diskVars, mode, crashes>>

StopWithoutWaiting ==
  /\ phase = "draining"
  /\ To("settling")
  /\ Stop
  /\ UNCHANGED passVars
OutboxStopped ==
  /\ phase = "draining" /\ ~outbox
  /\ To("settling")
  /\ Stop
  /\ UNCHANGED passVars

(* The handler has ended, or its grace has.  An Asset maintenance pass may  *)
(* be under way.                                                            *)
CloseResources ==
  /\ phase = "settling"
  /\ To("closed")
  /\ UNCHANGED <<loopVars, passVars>>

Leave ==
  /\ phase = "closed"
  /\ Gone
  /\ UNCHANGED <<diskVars, mode, crashes>>

(* Also an error in a round or in a reconciliation, which nobody catches.   *)
Crash ==
  /\ phase # "off" /\ crashes < CrashBound
  /\ crashes' = crashes + 1
  /\ Gone
  /\ UNCHANGED <<diskVars, mode>>

-----------------------------------------------------------------------------
Init == /\ StartupInit /\ LoopIdle
        /\ preview = FALSE /\ outbox = FALSE /\ survey = FALSE

Begins == StartupStep /\ UNCHANGED <<loopVars, passVars>>
Surroundings ==
  /\ Litestream \/ Replicate \/ LoseDisk \/ FailBackup
  /\ UNCHANGED <<loopVars, passVars>>
Runs == \/ StorageReady \/ StartLoops \/ Listen
        \/ PreviewEnds \/ OutboxEnds \/ AssetPassEnds
        \/ LoopTick \/ LoopEndTick
Closes == \/ PreviewStopped \/ OutboxStopped \/ CloseResources \/ Leave

Next ==
  \/ Begins \/ Surroundings \/ Runs \/ Closes
  \/ StorageFails \/ Write \/ PreviewPass \/ OutboxPass \/ OutboxWakes
  \/ AssetPass \/ Signal \/ PreviewOutlasts \/ Crash

Spec == Init /\ [][Next]_vars

(* The entry script and the start go on, passes and handlers end, and set   *)
(* timers fire.  That handlers end is an assumption: an inspection has no   *)
(* timeout.                                                                 *)
Fairness ==
  /\ WF_vars(Begins)
  /\ WF_vars(StorageReady) /\ WF_vars(StartLoops) /\ WF_vars(Listen)
  /\ WF_vars(PreviewEnds) /\ WF_vars(OutboxEnds)
  /\ WF_vars(LoopTick) /\ WF_vars(LoopEndTick)
  /\ WF_vars(Closes)
FairSpec == Spec /\ Fairness

-----------------------------------------------------------------------------
(* Properties *)

(* The state has its type; backups are copies of what the database was.     *)
TypeOK ==
  /\ db \in Databases /\ replica \in Databases
  /\ backups \subseteq [version : Versions, data : Nat, verified : BOOLEAN]
  /\ mode \in Modes /\ crashes \in 0..CrashBound
  /\ phase \in StartPhases \cup RunPhases \cup ClosePhases
  /\ fresh \in BOOLEAN /\ backed \in BOOLEAN
  /\ timer \in {"none", "now", "poll"} /\ active \in {0, 1}
  /\ \A flag \in {ticking, wakeRequested, stopping, preview, outbox, survey} :
       flag \in BOOLEAN

(* The database and the storage are closed only after those that the hook   *)
(* waits for: no pass of preview maintenance and no delivery of the outbox  *)
(* is under way, although both begin on their own timers up to the signal   *)
(* and, the outbox, beyond it; and the dispatcher, which they wake, begins  *)
(* no more rounds.  It says nothing of what the hook does not wait for: a   *)
(* pass of Asset maintenance, and a handler that outlasts its grace.        *)
ClosedAfterAwaited ==
  phase = "closed" => ~preview /\ ~outbox /\ stopping /\ timer = "none"

Promise ==
  INSTANCE Wakeups WITH asked <- wakeRequested \/ timer = "now",
                        running <- ticking,
                        open <- phase # "off" /\ ~stopping

(* The dispatcher keeps its promise to those who wake it: a wake that       *)
(* arrives while a round runs is neither lost nor starts a second round.    *)
KeepsWakeups == Promise!Spec

(* Wherever crashes, failures and losses of the disk have struck, once they *)
(* are over a process serves again, unless an operator is needed.           *)
ServesAgain == []<>(phase = "serving" \/ NeedsOperator)
=============================================================================
