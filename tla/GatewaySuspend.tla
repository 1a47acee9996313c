--------------------------- MODULE GatewaySuspend ---------------------------
(***************************************************************************)
(* Host suspension of the gateway                                          *)
(* (src/infra/gateway-suspend-coordinator.ts) on top of WorkAdmission.     *)
(*                                                                         *)
(* A host asks the gateway to become quiet: the coordinator closes         *)
(* admission, pauses the cron scheduler, inspects what is active and       *)
(* either holds the fence for the host or rolls everything back.  A held   *)
(* fence expires.  Resuming the scheduler may fail, and then the fence     *)
(* stays closed while the coordinator retries.  Every function of the      *)
(* coordinator is synchronous, hence one action here; its timers are       *)
(* actions of their own.                                                   *)
(***************************************************************************)
EXTENDS Integers, FiniteSets

CONSTANTS
  Chains, DrainWaiters, MaxRoots, MaxLeases, MaxGeneration,   \* of WorkAdmission
  Requests,         \* who asks: requestId and terminalPolicy of a prepare call
  MaxRenewals       \* bound: renewals of one suspension

ASSUME BoundsAssumption ==
  /\ MaxRoots \in Nat
  /\ MaxLeases \in Nat
  /\ MaxGeneration \in Nat

VARIABLES
  gate, root, nextRoot, activeRootWork, lease, nextLease, chain, wait,
  signalLeases, suspendLeases,                                \* of WorkAdmission
  current,          \* the coordinator's entry
  retired,          \* retiredForLifecycleReset
  paused            \* the cron scheduler of this lifecycle is paused

Admission == INSTANCE WorkAdmission

admissionVars == <<gate, root, nextRoot, activeRootWork, lease, nextLease, chain, wait,
                   signalLeases, suspendLeases>>
vars == <<admissionVars, current, retired, paused>>

\* `lease' is the generation of the suspension lease the entry closes over,
\* `phase' the phase its reopenAdmission expects; `own' is the root of the
\* prepare call itself and `restart' whether a restart request was admitted
\* since: both serve the properties only.
Entry == [kind : {"none", "held", "recovering"}, lease : Nat,
          phase : {"preparing", "prepared"},
          request : Requests \union {"none"}, age : {"fresh", "old", "expired"},
          renewals : Nat, own : SUBSET (1 .. MaxRoots), restart : BOOLEAN]

NoEntry == [kind |-> "none", lease |-> 0, phase |-> "prepared",
            request |-> "none", age |-> "fresh", renewals |-> 0, own |-> {},
            restart |-> FALSE]

\* Every variable has its type; in particular an entry that goes over to
\* scheduler recovery keeps everything its reopening needs.
TypeOK ==
  /\ Admission!TypeOK
  /\ current \in Entry
  /\ retired \in Entry
  /\ paused \in BOOLEAN

-----------------------------------------------------------------------------
(* Reopening.                                                              *)

RecoveringByRollback(e) ==                         \* mutant of Recovering
  [e EXCEPT !.kind = "recovering", !.request = "none", !.age = "fresh",
            !.phase = "preparing"]

\* enterSchedulerRecovery
Recovering(e) == [e EXCEPT !.kind = "recovering", !.request = "none",
                           !.age = "fresh"]

Reopened(g) == [g EXCEPT !.phase = "accepting"]

\* What resumeAndReopen makes of the gate, the entry and the scheduler; `ok'
\* says whether the scheduler could be resumed.
ResumeAndReopen(e, ok) ==
  IF ok /\ Admission!HoldsSuspend(gate, e.lease, e.phase)
  THEN [gate |-> Reopened(gate), entry |-> NoEntry, paused |-> FALSE]
  ELSE [gate |-> gate, entry |-> Recovering(e), paused |-> paused /\ ~ok]

ReopenCurrent(ok) ==
  LET after == ResumeAndReopen(current, ok) IN
  /\ gate' = after.gate
  /\ current' = after.entry
  /\ paused' = after.paused
  /\ chain' = IF after.gate = gate THEN chain ELSE Admission!Woken
  /\ UNCHANGED <<root, nextRoot, activeRootWork, lease, nextLease, wait,
                 signalLeases, suspendLeases, retired>>

Expired(e) == e.kind = "held" /\ e.age = "expired"

\* The two minutes of a held suspension pass, in two steps.
Age ==
  /\ current.kind = "held" /\ ~Expired(current)
  /\ current' = [current EXCEPT !.age = IF @ = "fresh" THEN "old" ELSE "expired"]
  /\ UNCHANGED <<admissionVars, retired, paused>>

ExpiryTimer(ok) ==
  /\ Expired(current)
  /\ ReopenCurrent(ok)

RecoveryRetry(ok) ==
  /\ current.kind = "recovering"
  /\ ReopenCurrent(ok)

\* resumeGatewaySuspend with the suspension id it was given; any id normalises
\* an expired suspension.
ResumeGatewaySuspend(id, ok) ==
  /\ current.kind = "held"
  /\ Expired(current) \/ current.lease = id
  /\ ReopenCurrent(ok)

\* getGatewaySuspendStatus
GetGatewaySuspendStatus(ok) ==
  /\ Expired(current)
  /\ ReopenCurrent(ok)

-----------------------------------------------------------------------------
(* Preparing.                                                              *)

\* A prepare call runs under a root of its own, or under none when the fence
\* was closed on its arrival.  It does nothing else, so its root is not shared.
OwnRoot(c) ==
  IF chain[c].state = "running" /\ Admission!Live(chain[c].root)
  THEN {chain[c].root} ELSE {}
MayPrepare(c) ==
  \/ chain[c].state = "idle"
  \/ /\ chain[c].state = "running"
     /\ Admission!Live(chain[c].root)
     /\ root[chain[c].root].references = 1
     /\ \A d \in Chains \ {c} : chain[d].root # chain[c].root

\* The snapshot counts every root but the caller's; `quiet' stands for the
\* other activity it counts (queues, runs, cron, sessions).
IdleIgnoringRoots(own, quiet) == quiet            \* mutant of Idle
Idle(own, quiet) == quiet /\ activeRootWork \subseteq own

\* The fresh preparation, once no entry is current and the gate is `g': it
\* closes the gate, pauses, inspects, and commits or rolls back.
Prepared(g, request, own, quiet, ok) ==
  LET begun == Admission!SuspendBegun(g)
      entry == [NoEntry EXCEPT !.kind = "held", !.lease = begun.suspendGeneration,
                               !.request = request, !.own = own] IN
  IF Idle(own, quiet)
  THEN [gate |-> [begun EXCEPT !.phase = "prepared"], entry |-> entry, paused |-> TRUE]
  ELSE IF ok
  THEN [gate |-> Reopened(begun), entry |-> NoEntry, paused |-> FALSE]
  ELSE [gate |-> begun, entry |-> [Recovering(entry) EXCEPT !.phase = "preparing"],
        paused |-> TRUE]

\* prepareGatewaySuspend while a suspension is held: its own requester renews
\* it, any other gets a conflict and changes nothing.
RenewHeldSuspension(request) ==
  /\ current.kind = "held" /\ ~Expired(current)
  /\ current.request = request
  /\ current.renewals < MaxRenewals
  /\ current' = [current EXCEPT !.age = "fresh", !.renewals = @ + 1]
  /\ UNCHANGED <<admissionVars, retired, paused>>

\* prepareGatewaySuspend otherwise, with the end of the request that called
\* it.  `resumed' and `ok' say whether the scheduler could be resumed, first to
\* normalise an expired suspension and then to roll back.
PrepareGatewaySuspend(c, request, quiet, resumed, ok) ==
  LET own == OwnRoot(c)
      normal == IF current.kind = "held" THEN ResumeAndReopen(current, resumed)
                ELSE [gate |-> gate, entry |-> current, paused |-> paused]
      begins == ~Admission!Closed(normal.gate)
      after == IF normal.entry.kind = "none" /\ begins
               THEN Prepared(normal.gate, request, own, quiet, ok) ELSE normal IN
  /\ MayPrepare(c)
  /\ \/ current.kind = "none" /\ begins
     \/ Expired(current)
  /\ gate.suspendGeneration < MaxGeneration
  /\ gate' = after.gate
  /\ current' = after.entry
  /\ paused' = after.paused
  /\ suspendLeases' = IF normal.entry.kind = "none" /\ begins
                      THEN suspendLeases \union {after.gate.suspendGeneration}
                      ELSE suspendLeases
  /\ chain' = [d \in Chains |->
       IF d = c THEN [state |-> "idle", root |-> 0, detached |-> FALSE]
       ELSE IF normal.gate # gate THEN Admission!Woken[d] ELSE chain[d]]
  /\ UNCHANGED <<root, nextRoot, activeRootWork, lease, nextLease, wait,
                 signalLeases, retired>>

-----------------------------------------------------------------------------
(* Restart.                                                                *)

\* A drain overtakes the suspension: its invalidation callback retires the
\* coordinator's entry without resuming the scheduler that is shut down.
KeptEntry == [current |-> current, retired |-> retired]     \* mutants of
DroppedEntry == [current |-> NoEntry, retired |-> NoEntry]  \* Invalidated
Invalidated == [current |-> NoEntry, retired |-> current]

MarkRestartDraining ==
  /\ Admission!MarkRestartDraining
  /\ IF gate.phase # "accepting" /\ current.kind # "none"
     THEN /\ current' = Invalidated.current
          /\ retired' = Invalidated.retired
     ELSE UNCHANGED <<current, retired>>
  /\ UNCHANGED paused

\* The run loop's restart: resetGatewaySuspendCoordinatorForLifecycleRestart,
\* then resetAllLanes, which resets the admission; the next boot builds a new
\* scheduler.
LifecycleRestart ==
  /\ gate.draining
  /\ Admission!Reset
  /\ current' = NoEntry
  /\ retired' = NoEntry
  /\ paused' = FALSE

\* The one request a prepared idle gateway admits.
PreparedRestart(c) ==
  /\ Admission!TryBeginPreparedRestart(c)
  /\ current' = [current EXCEPT !.restart = TRUE]
  /\ UNCHANGED <<retired, paused>>

-----------------------------------------------------------------------------

Init ==
  /\ Admission!Init
  /\ current = NoEntry
  /\ retired = NoEntry
  /\ paused = FALSE

\* Work comes and goes as WorkAdmission has it.
Work ==
  /\ \/ Admission!WaitNext
     \/ Admission!SignalNext
     \/ Admission!WorkNext
  /\ UNCHANGED <<current, retired, paused>>

Next ==
  \/ Work
  \/ \E c \in Chains : PreparedRestart(c)
  \/ \E c \in Chains, request \in Requests, quiet, resumed, ok \in BOOLEAN :
       PrepareGatewaySuspend(c, request, quiet, resumed, ok)
  \/ \E request \in Requests : RenewHeldSuspension(request)
  \/ Age
  \/ \E ok \in BOOLEAN : ExpiryTimer(ok)
  \/ \E ok \in BOOLEAN : RecoveryRetry(ok)
  \/ \E id \in suspendLeases, ok \in BOOLEAN : ResumeGatewaySuspend(id, ok)
  \/ \E ok \in BOOLEAN : GetGatewaySuspendStatus(ok)
  \/ MarkRestartDraining
  \/ LifecycleRestart

Spec == Init /\ [][Next]_vars

\* Time passes, timers fire, and a retry resumes the scheduler some day.
FairSpec ==
  /\ Spec
  /\ WF_vars(Age)
  /\ WF_vars(\E ok \in BOOLEAN : ExpiryTimer(ok))
  /\ WF_vars(RecoveryRetry(TRUE))

-----------------------------------------------------------------------------
(* Properties.                                                             *)

\* The fence is closed for a suspension exactly while the coordinator has an
\* entry that can reopen it: no timer, retry, resume or prepare ever leaves
\* the gate closed with nobody to open it, or acts on a fence it lost.
SuspensionOwned ==
  /\ current.kind # "none" <=> gate.phase # "accepting"
  /\ current.kind # "none" =>
       Admission!HoldsSuspend(gate, current.lease, current.phase)

\* The scheduler is paused exactly while an entry remembers to resume it.
PauseOwned == paused <=> current.kind # "none" \/ retired.kind # "none"

\* What the coordinator has closed and paused it can find and undo, and it undoes
\* nothing else, through failures, expiry and drains.
HeldMeansOwned == SuspensionOwned /\ PauseOwned

\* While the host holds a suspension nothing is active but the request that
\* prepared it, until a restart request is let in: no waiter woken earlier, no
\* detached or readmitted chain gets past the fence.
ReadyMeansIdle ==
  current.kind # "none" /\ current.phase = "prepared" /\ ~current.restart =>
    activeRootWork \subseteq current.own

\* The coordinator keeps the promise of Suspension.
Mode ==
  IF gate.draining THEN "restarting"
  ELSE CASE current.kind = "none" -> "running"
         [] current.kind = "held" -> "ready"
         [] current.kind = "recovering" -> "recovering"

Abstract == INSTANCE Suspension WITH mode <- Mode, scheduling <- ~paused

\* Whatever expires, fails, retries or overtakes, admission and scheduling only
\* move together, as Suspension says.
ImplementsSuspension == Abstract!Spec

\* A suspension ends on its own: by expiry and, when the scheduler does not
\* come back at once, by a later retry.
EventuallyReopened == current.kind # "none" ~> current.kind = "none"
=============================================================================
