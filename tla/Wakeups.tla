------------------------------- MODULE Wakeups -------------------------------
(***************************************************************************)
(* What the dispatcher's loop promises to those who wake it: rounds do not *)
(* overlap, and after a wake a round begins that had not begun before it,  *)
(* as long as the loop is open.                                            *)
(***************************************************************************)
VARIABLES
  asked,     \* somebody woke the loop since the last round began
  running,   \* a round is under way
  open       \* the loop has not been stopped

wakeupVars == <<asked, running, open>>

Init == asked = FALSE /\ running = FALSE /\ open = FALSE

Open == ~open /\ open' = TRUE /\ UNCHANGED <<asked, running>>

Ask == open /\ asked' = TRUE /\ UNCHANGED <<running, open>>

Begin ==
  /\ open /\ ~running
  /\ running' = TRUE /\ asked' = FALSE
  /\ UNCHANGED open

End == running /\ running' = FALSE /\ UNCHANGED <<asked, open>>

(* The last round goes on when the loop is stopped, but not when its        *)
(* process ends.                                                            *)
Stop == open' = FALSE /\ asked' = FALSE /\ running' \in {running, FALSE}

Next == Open \/ Ask \/ Begin \/ End \/ Stop

Spec == Init /\ [][Next]_wakeupVars /\ WF_wakeupVars(asked /\ Begin)
=============================================================================
