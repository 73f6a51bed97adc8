---------------------------- MODULE MCAccounts -----------------------------
(***************************************************************************)
(* Instances of Accounts for TLC.  Ids are small numbers, so that rows are *)
(* inserted in one order only.  A behaviour is cut down in one of two ways,*)
(* chosen once: "office" stops the clock and lets users, administrators and*)
(* callbacks interleave; "clock" has one user, whom nobody administers, and*)
(* lets requests, the maintenance pass and time interleave.                *)
(***************************************************************************)
EXTENDS Accounts

CONSTANT Focuses  \* the ways of cutting down that a run explores

VARIABLE focus

mcVars == <<vars, focus>>

MCInit == Init /\ focus \in Focuses

Alone == CHOOSE u \in Users : TRUE

InFocus ==
  /\ focus = "office" => now' = now
  /\ focus = "clock" =>
       /\ \A u \in Users \ {Alone} : uStatus'[u] = "absent"
       /\ uVersion'[Alone] <= 2 /\ uRole' = uRole /\ dPhase' = dPhase
       /\ cCookie' = cCookie /\ sTab' = sTab

MCNext == Next /\ InFocus /\ UNCHANGED focus

MCSpec == MCInit /\ [][MCNext]_mcVars /\ WF_mcVars(Maintain /\ UNCHANGED focus)
=============================================================================
