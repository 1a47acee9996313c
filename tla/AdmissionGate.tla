--------------------------- MODULE AdmissionGate ---------------------------
(***************************************************************************)
(* What the gateway's work admission promises                              *)
(* (src/process/gateway-work-admission.ts): pieces of root work are        *)
(* admitted and finish, and a gate decides when new ones may enter.  While *)
(* the gate is fenced or draining, only work that is already admitted may  *)
(* bring in more work, so once nothing is admitted nothing comes back      *)
(* until the gate reopens; draining ends only when everything is retired.  *)
(***************************************************************************)
CONSTANT Roots          \* pieces of root work

VARIABLES
  gate,                 \* "open", "fenced", "prepared" or "draining"
  live,                 \* admitted work that has not finished
  admitted              \* work that was ever admitted

vars == <<gate, live, admitted>>

Gates == {"open", "fenced", "prepared", "draining"}

Init ==
  /\ gate = "open"
  /\ live = {}
  /\ admitted = {}

\* Work enters through the open gate, as the continuation of live work, or as
\* the restart that a prepared suspension admits while it is idle.
Admit(r) ==
  /\ r \notin admitted
  /\ gate \in {"open", "prepared"} \/ live # {}
  /\ admitted' = admitted \union {r}
  /\ live' = live \union {r}
  /\ UNCHANGED gate

Finish(r) ==
  /\ r \in live
  /\ live' = live \ {r}
  /\ UNCHANGED <<gate, admitted>>

\* A reversible fence closes or reopens, or the one-way drain begins.
Move ==
  /\ gate # "draining"
  /\ gate' \in Gates
  /\ UNCHANGED <<live, admitted>>

\* The in-process restart retires all work and reopens the gate.
Reset ==
  /\ gate' = "open"
  /\ live' = {}
  /\ UNCHANGED admitted

Next ==
  \/ \E r \in Roots : Admit(r)
  \/ \E r \in Roots : Finish(r)
  \/ Move
  \/ Reset

Spec == Init /\ [][Next]_vars
=============================================================================
