------------------------------ MODULE Approval -------------------------------
(***************************************************************************)
(* What an exec approval promises (src/gateway/exec-approval-manager.ts):  *)
(* it gets one answer, for good; a command runs only under an answer that  *)
(* lets it run; and only allow-always lets more than one run.  A request   *)
(* nobody answered may be run once, by the ask fallback.                   *)
(***************************************************************************)
EXTENDS Naturals

CONSTANT Granting    \* answers under which something may run
CONSTANT Standing    \* those among them that are not used up by a run
CONSTANT Answers

VARIABLES
  answer,       \* "open", or the answer
  runs          \* commands run under it

vars == <<answer, runs>>

Init ==
  /\ answer = "open"
  /\ runs = 0

Answer ==
  /\ answer = "open"
  /\ answer' \in Answers
  /\ UNCHANGED runs

Run ==
  /\ answer \in Granting
  /\ answer \in Standing \/ runs = 0
  /\ runs' = runs + 1
  /\ UNCHANGED answer

Next == Answer \/ Run

Spec == Init /\ [][Next]_vars
=============================================================================
