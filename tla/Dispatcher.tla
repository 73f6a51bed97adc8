----------------------------- MODULE Dispatcher -----------------------------
(***************************************************************************)
(* The loop of DurableJobDispatcher: its timer, its rounds, and the wakes  *)
(* that reach it from outbox deliveries.  A round handles at most one Job, *)
(* whose kernel is modelled elsewhere; here a round either has a handler   *)
(* at work or not.                                                         *)
(***************************************************************************)
EXTENDS Integers

VARIABLES
  timer,           \* "none", "now", or "poll": the timeout that is set
  ticking,
  wakeRequested,
  stopping,
  active           \* handlers at work

loopVars == <<timer, ticking, wakeRequested, stopping, active>>

LoopIdle ==
  /\ timer = "none" /\ ticking = FALSE /\ wakeRequested = FALSE
  /\ stopping = FALSE /\ active = 0

LoopGone ==
  /\ timer' = "none" /\ ticking' = FALSE /\ wakeRequested' = FALSE
  /\ stopping' = FALSE /\ active' = 0

-----------------------------------------------------------------------------
Wake ==
  /\ ~stopping
  /\ IF ticking
     THEN wakeRequested' = TRUE /\ UNCHANGED timer
     ELSE timer' = "now" /\ UNCHANGED wakeRequested
  /\ UNCHANGED <<ticking, stopping, active>>

Start == timer = "none" /\ ~stopping /\ Wake

(* The timeout fires, and runOnce finds a Job, of which a handler takes     *)
(* care, or finds none.                                                     *)
Tick ==
  /\ timer # "none" /\ ~stopping /\ ~ticking
  /\ timer' = "none" /\ ticking' = TRUE
  /\ active' \in {0, 1}
  /\ UNCHANGED <<wakeRequested, stopping>>

EndTickForgetting ==
  /\ ticking
  /\ ticking' = FALSE /\ active' = 0
  /\ wakeRequested' = FALSE
  /\ timer' = IF stopping THEN "none" ELSE "poll"
  /\ UNCHANGED stopping
EndTick ==
  /\ ticking
  /\ ticking' = FALSE /\ active' = 0
  /\ IF stopping THEN UNCHANGED <<timer, wakeRequested>>
     ELSE /\ timer' = IF wakeRequested THEN "now" ELSE "poll"
          /\ wakeRequested' = FALSE
  /\ UNCHANGED stopping

Stop ==
  /\ stopping' = TRUE
  /\ wakeRequested' = FALSE /\ timer' = "none"
  /\ UNCHANGED <<ticking, active>>

=============================================================================
