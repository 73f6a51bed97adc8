--------------------------- MODULE JobStateMachine ---------------------------
(***************************************************************************)
(* What the durable Job kernel promises, and nothing of how it does it:    *)
(* every Job and its root JobStep move only along the transition tables of *)
(* job-state-machine.ts, and a Job and its step never tell two stories.    *)
(* The tables are the code's; no production code path consults them (only  *)
(* the tests do), so that the SQL of the repository follows them is a      *)
(* theorem about JobKernel, which implements this specification.           *)
(***************************************************************************)
CONSTANT Jobs

VARIABLES jobStatus, stepStatus

mapped == <<jobStatus, stepStatus>>

JOB_STATUSES ==
  {"queued", "running", "waiting_provider", "retry_scheduled",
   "cancel_requested", "cancelled", "completed", "failed"}

JOB_STEP_STATUSES ==
  {"pending", "running", "waiting_provider", "retry_scheduled",
   "completed", "skipped", "cancelled", "failed"}

JOB_TRANSITIONS ==
  ({"queued"} \X {"running", "cancel_requested"})
  \cup ({"running"} \X {"queued", "waiting_provider", "retry_scheduled",
                        "cancel_requested", "completed", "failed"})
  \cup ({"waiting_provider"} \X {"running", "retry_scheduled",
                                 "cancel_requested", "failed"})
  \cup ({"retry_scheduled"} \X {"queued", "cancel_requested"})
  \cup ({"cancel_requested"} \X {"cancelled", "failed"})

isAllowedJobTransition(from, to) == <<from, to>> \in JOB_TRANSITIONS

JOB_STEP_TRANSITIONS ==
  ({"pending"} \X {"running", "skipped", "cancelled"})
  \cup ({"running"} \X {"pending", "waiting_provider", "retry_scheduled",
                        "completed", "skipped", "cancelled", "failed"})
  \cup ({"waiting_provider"} \X {"running", "retry_scheduled", "completed",
                                 "cancelled", "failed"})
  \cup ({"retry_scheduled"} \X {"pending", "cancelled"})

isAllowedJobStepTransition(from, to) == <<from, to>> \in JOB_STEP_TRANSITIONS

(* A Job that no transaction has inserted yet has no row at all. *)
ABSENT == "absent"

TERMINAL_JOB_STATUSES == {"cancelled", "completed", "failed"}

(* The root-step statuses that go with each Job status.  A cancellation is  *)
(* recorded on the Job first; its step follows at the cleanup.              *)
Agrees(j, s) ==
  \/ j = ABSENT /\ s = ABSENT
  \/ j = "queued" /\ s = "pending"
  \/ /\ j \in {"running", "waiting_provider", "retry_scheduled",
               "cancelled", "completed", "failed"}
     /\ s = j
  \/ /\ j = "cancel_requested"
     /\ s \in {"pending", "running", "waiting_provider", "retry_scheduled"}

Init ==
  /\ jobStatus = [j \in Jobs |-> ABSENT]
  /\ stepStatus = [j \in Jobs |-> ABSENT]

(* One Job's part of a step: it is admitted, or it keeps its status, or it  *)
(* follows the tables; its step follows the tables too.                     *)
Move(j) ==
  \/ /\ jobStatus[j] = ABSENT
     /\ jobStatus'[j] = "queued"
     /\ stepStatus'[j] = "pending"
  \/ /\ \/ jobStatus'[j] = jobStatus[j]
        \/ isAllowedJobTransition(jobStatus[j], jobStatus'[j])
     /\ \/ stepStatus'[j] = stepStatus[j]
        \/ isAllowedJobStepTransition(stepStatus[j], stepStatus'[j])

Next ==
  /\ \A j \in Jobs : Move(j) /\ Agrees(jobStatus'[j], stepStatus'[j])
  /\ DOMAIN jobStatus' = Jobs
  /\ DOMAIN stepStatus' = Jobs

Spec == Init /\ [][Next]_mapped
=============================================================================
