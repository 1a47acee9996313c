----------------------------- MODULE Suspension -----------------------------
(***************************************************************************)
(* What host suspension promises                                           *)
(* (src/infra/gateway-suspend-coordinator.ts): the scheduler is paused     *)
(* exactly while a suspension is held or being recovered, admission comes  *)
(* back only together with the scheduler, and a restart that overtakes a   *)
(* suspension freezes the scheduler as it finds it until the next          *)
(* lifecycle begins.                                                       *)
(***************************************************************************)
VARIABLES
  mode,         \* "running", "ready", "recovering" or "restarting"
  scheduling    \* the cron scheduler ticks

vars == <<mode, scheduling>>

Init ==
  /\ mode = "running"
  /\ scheduling = TRUE

\* The gateway was idle: the fence is held for the host.
Hold ==
  /\ mode = "running"
  /\ mode' = "ready"
  /\ scheduling' = FALSE

\* The scheduler did not come back: admission stays closed with it.
Fail ==
  /\ mode \in {"running", "ready"}
  /\ mode' = "recovering"
  /\ scheduling' = FALSE

Reopen ==
  /\ mode \in {"ready", "recovering"}
  /\ mode' = "running"
  /\ scheduling' = TRUE

Restart ==
  /\ mode # "restarting"
  /\ mode' = "restarting"
  /\ UNCHANGED scheduling

Begin ==
  /\ mode = "restarting"
  /\ mode' = "running"
  /\ scheduling' = TRUE

Next == Hold \/ Fail \/ Reopen \/ Restart \/ Begin

Spec == Init /\ [][Next]_vars
=============================================================================
