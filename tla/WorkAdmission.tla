--------------------------- MODULE WorkAdmission ---------------------------
(***************************************************************************)
(* Process-wide admission of root work                                     *)
(* (src/process/gateway-work-admission.ts).                                *)
(*                                                                         *)
(* Root work is admitted while no restart signal, restart drain or host    *)
(* suspension is pending; otherwise callers are refused or park until the  *)
(* gate moves.  An admitted root is reference counted by its leases, and   *)
(* every async chain carries the root it runs under (AsyncLocalStorage),   *)
(* which it may outlive.  Fences are held through leases that carry the    *)
(* generation they were issued in.  Every exported function is synchronous *)
(* up to its first await, hence one action here; a continuation after an   *)
(* await is an action of its own (Resume, RootWaitReturn).                 *)
(***************************************************************************)
EXTENDS Integers, FiniteSets

CONSTANTS
  Chains,           \* async call chains
  DrainWaiters,     \* calls of waitForActiveGatewayRootWork
  MaxRoots,         \* bound: roots ever admitted
  MaxLeases,        \* bound: root leases ever issued
  MaxGeneration     \* bound: generation of either fence

ASSUME BoundsAssumption ==
  /\ MaxRoots \in Nat
  /\ MaxLeases \in Nat
  /\ MaxGeneration \in Nat

Roots == 1 .. MaxRoots
Leases == 1 .. MaxLeases
NoRoot == 0

VARIABLES
  gate,             \* the two fences and the one-way drain
  root,             \* [Roots -> record]: the admission objects
  nextRoot,         \* the next root to be created
  activeRootWork,   \* roots in the active set
  lease,            \* [Leases -> record]: the release closures
  nextLease,        \* the next lease to be issued
  chain,            \* [Chains -> record]: async chains and their stored root
  wait,             \* [DrainWaiters -> state]
  signalLeases,     \* generations of issued restart-signal leases
  suspendLeases     \* generations of issued suspend leases

rootVars == <<root, nextRoot, activeRootWork, lease, nextLease>>
vars == <<gate, rootVars, chain, wait, signalLeases, suspendLeases>>

Phases == {"accepting", "preparing", "prepared"}
Generations == 0 .. MaxGeneration

\* Every variable has its type; in particular no release, late or repeated,
\* takes the reference count of a root below zero.
TypeOK ==
  /\ gate \in [draining : BOOLEAN, signalPending : BOOLEAN, signalGeneration : Nat,
               phase : Phases, suspendGeneration : Nat]
  /\ root \in [Roots -> [references : Nat, released : BOOLEAN, retired : BOOLEAN]]
  /\ nextRoot \in 1 .. MaxRoots + 1
  /\ activeRootWork \in SUBSET Roots
  /\ lease \in [Leases -> [root : Roots \union {NoRoot}, released : BOOLEAN]]
  /\ nextLease \in 1 .. MaxLeases + 1
  /\ chain \in [Chains -> [state : {"idle", "running", "parked", "woken"},
                           root : Roots \union {NoRoot}, detached : BOOLEAN]]
  /\ wait \in [DrainWaiters -> {"idle", "waiting", "resolved", "drained", "active"}]
  /\ signalLeases \in SUBSET Nat
  /\ suspendLeases \in SUBSET Nat

-----------------------------------------------------------------------------
(* The gate.                                                               *)

\* isGatewayWorkAdmissionClosed
Closed(g) == g.draining \/ g.signalPending \/ g.phase # "accepting"

SuspendBegunSameGeneration(g) ==                  \* mutant of SuspendBegun
  [g EXCEPT !.phase = "preparing"]
SuspendBegun(g) ==
  [g EXCEPT !.phase = "preparing", !.suspendGeneration = @ + 1]

\* The fence a suspend lease closes over is still its own.
HoldsSuspend(g, n, phase) == g.suspendGeneration = n /\ g.phase = phase
HoldsSignal(g, n) == g.signalPending /\ g.signalGeneration = n

\* invalidateSuspendAdmission, when a suspension is in force
Invalidated(g) ==
  IF g.phase = "accepting" THEN g
  ELSE [g EXCEPT !.phase = "accepting", !.suspendGeneration = @ + 1]

\* A drain supersedes the reversible fences: it closes before it drops them.
Drained(g) ==
  Invalidated([g EXCEPT !.signalPending = FALSE, !.signalGeneration = @ + 1,
                        !.draining = TRUE])

\* resolveSuspendOpenWaiters
NoneWoken == chain                                \* mutant of Woken
Woken ==
  [c \in Chains |-> IF chain[c].state = "parked"
                    THEN [chain[c] EXCEPT !.state = "woken"] ELSE chain[c]]

-----------------------------------------------------------------------------
(* Roots and chains.                                                       *)

\* A chain runs under a live root: its stored root exists and is unreleased.
Live(r) == r # NoRoot /\ r < nextRoot /\ ~root[r].released

\* createGatewayRootWorkAdmission, with chain c running under the new root
Admit(c, detached) ==
  /\ nextRoot <= MaxRoots
  /\ nextLease <= MaxLeases
  /\ root' = [root EXCEPT ![nextRoot] =
                [references |-> 1, released |-> FALSE, retired |-> FALSE]]
  /\ activeRootWork' = activeRootWork \union {nextRoot}
  /\ lease' = [lease EXCEPT ![nextLease] = [root |-> nextRoot, released |-> FALSE]]
  /\ chain' = [chain EXCEPT ![c] =
                [state |-> "running", root |-> nextRoot, detached |-> detached]]
  /\ nextRoot' = nextRoot + 1
  /\ nextLease' = nextLease + 1

Place(c, state, r, detached) ==
  /\ chain' = [chain EXCEPT ![c] = [state |-> state, root |-> r, detached |-> detached]]
  /\ UNCHANGED rootVars

\* One iteration of the loops that wait for the gate.  `detached' chains ask
\* for a root of their own; the others stay under a live stored root.
Attempt(c, r, detached) ==
  \/ /\ ~detached /\ Live(r) /\ ~gate.draining
     /\ Place(c, "running", r, detached)
  \/ /\ gate.draining
     /\ Place(c, "idle", NoRoot, FALSE)
  \/ /\ ~gate.draining /\ (detached \/ ~Live(r)) /\ ~Closed(gate)
     /\ Admit(c, detached)
  \/ /\ ~gate.draining /\ (detached \/ ~Live(r)) /\ Closed(gate)
     /\ Place(c, "parked", r, detached)

\* tryBeginGatewayRootWorkAdmission outside live work
TryBegin(c) ==
  /\ chain[c].state \in {"idle", "running"}
  /\ ~Live(chain[c].root)
  /\ ~Closed(gate)
  /\ Admit(c, FALSE)
  /\ UNCHANGED <<gate, wait, signalLeases, suspendLeases>>

\* tryBeginGatewayPreparedRestartRootWorkAdmission
TryBeginPreparedRestart(c) ==
  /\ chain[c].state = "idle"
  /\ ~gate.draining /\ ~gate.signalPending
  /\ gate.phase = "prepared"
  /\ activeRootWork = {}
  /\ Admit(c, FALSE)
  /\ UNCHANGED <<gate, wait, signalLeases, suspendLeases>>

\* beginGatewayRootWorkAdmissionWhenOpen
BeginWhenOpen(c) ==
  /\ chain[c].state \in {"idle", "running"}
  /\ Attempt(c, chain[c].root, FALSE)
  /\ UNCHANGED <<gate, wait, signalLeases, suspendLeases>>

\* runWithGatewayIndependentRootWorkAdmission, in a chain of its own
RunIndependent(c) ==
  /\ chain[c].state = "idle"
  /\ Attempt(c, NoRoot, TRUE)
  /\ UNCHANGED <<gate, wait, signalLeases, suspendLeases>>

\* runWithGatewayRootWorkReadmission: work that outlived a reset root
Readmit(c) ==
  /\ chain[c].state = "running"
  /\ chain[c].root # NoRoot /\ root[chain[c].root].retired
  /\ Attempt(c, chain[c].root, TRUE)
  /\ UNCHANGED <<gate, wait, signalLeases, suspendLeases>>

\* The await of a parked chain returns and its loop tries again.
Resume(c) ==
  /\ chain[c].state = "woken"
  /\ Attempt(c, chain[c].root, chain[c].detached)
  /\ UNCHANGED <<gate, wait, signalLeases, suspendLeases>>

\* The continuation of live work gets a root whatever the gate says.
ParentKnown(c) == chain[c].root # NoRoot          \* mutant of ParentAlive
ParentAlive(c) == Live(chain[c].root)

\* runWithGatewayIndependentRootWorkContinuation with a live parent
Continue(c, d) ==
  /\ chain[c].state = "running"
  /\ ParentAlive(c)
  /\ chain[d].state = "idle"
  /\ Admit(d, TRUE)
  /\ UNCHANGED <<gate, wait, signalLeases, suspendLeases>>

\* A chain starts another without asking: the child inherits the stored root.
Fork(c, d) ==
  /\ chain[c].state = "running"
  /\ chain[d].state = "idle"
  /\ Place(d, "running", chain[c].root, FALSE)
  /\ UNCHANGED <<gate, wait, signalLeases, suspendLeases>>

End(c) ==
  /\ chain[c].state = "running"
  /\ Place(c, "idle", NoRoot, FALSE)
  /\ UNCHANGED <<gate, wait, signalLeases, suspendLeases>>

\* retainGatewayRootWorkAdmissionContinuation
Retain(c) ==
  LET r == chain[c].root IN
  /\ chain[c].state = "running"
  /\ Live(r)
  /\ nextLease <= MaxLeases
  /\ root' = [root EXCEPT ![r].references = @ + 1]
  /\ lease' = [lease EXCEPT ![nextLease] = [root |-> r, released |-> FALSE]]
  /\ nextLease' = nextLease + 1
  /\ UNCHANGED <<gate, nextRoot, activeRootWork, chain, wait, signalLeases,
                 suspendLeases>>

\* resolveRootDrainWaiters
Resolved ==
  [w \in DrainWaiters |-> IF wait[w] = "waiting" THEN "resolved" ELSE wait[w]]

\* A lease is spent once it was released or its root was, by a reset too.
SpentByRoot(x) == root[lease[x].root].released    \* mutant of Spent
Spent(x) == lease[x].released \/ root[lease[x].root].released

\* A release closure is called; calling a spent one changes nothing.
Release(x) ==
  LET r == lease[x].root
      left == root[r].references - 1 IN
  /\ x < nextLease
  /\ ~Spent(x)
  /\ lease' = [lease EXCEPT ![x].released = TRUE]
  /\ \/ /\ left > 0
        /\ root' = [root EXCEPT ![r].references = left]
        /\ UNCHANGED <<activeRootWork, wait>>
     \/ /\ left <= 0
        /\ root' = [root EXCEPT ![r].references = left, ![r].released = TRUE]
        /\ activeRootWork' = activeRootWork \ {r}
        /\ wait' = IF activeRootWork' = {} THEN Resolved ELSE wait
  /\ UNCHANGED <<gate, nextRoot, nextLease, chain, signalLeases, suspendLeases>>

-----------------------------------------------------------------------------
(* Waiting for the active roots.                                           *)

WaitForActiveRootWork(w) ==
  /\ wait[w] = "idle"
  /\ wait' = [wait EXCEPT ![w] = IF activeRootWork = {} THEN "drained" ELSE "waiting"]
  /\ UNCHANGED <<gate, rootVars, chain, signalLeases, suspendLeases>>

RootWaitTimeout(w) ==
  /\ wait[w] = "waiting"
  /\ wait' = [wait EXCEPT ![w] = "resolved"]
  /\ UNCHANGED <<gate, rootVars, chain, signalLeases, suspendLeases>>

\* The await returns and reports what is active then.
RootWaitReturn(w) ==
  /\ wait[w] = "resolved"
  /\ wait' = [wait EXCEPT ![w] = IF activeRootWork = {} THEN "drained" ELSE "active"]
  /\ UNCHANGED <<gate, rootVars, chain, signalLeases, suspendLeases>>

-----------------------------------------------------------------------------
(* Restart and suspension.                                                 *)

\* markGatewayRestartDraining
MarkRestartDraining ==
  /\ ~gate.draining
  /\ gate' = Drained(gate)
  /\ chain' = Woken
  /\ UNCHANGED <<rootVars, wait, signalLeases, suspendLeases>>

\* beginGatewayRestartSignalAdmission
BeginRestartSignal ==
  /\ ~gate.draining /\ ~gate.signalPending
  /\ gate.signalGeneration < MaxGeneration
  /\ gate' = [gate EXCEPT !.signalPending = TRUE, !.signalGeneration = @ + 1]
  /\ signalLeases' = signalLeases \union {gate.signalGeneration + 1}
  /\ UNCHANGED <<rootVars, chain, wait, suspendLeases>>

\* clearRestartSignalFence
ClearRestartSignalFence ==
  /\ ~gate.draining /\ gate.signalPending
  /\ gate' = [gate EXCEPT !.signalPending = FALSE, !.signalGeneration = @ + 1]
  /\ chain' = Woken
  /\ UNCHANGED <<rootVars, wait, signalLeases, suspendLeases>>

\* The rollback of a signal lease; the unconditional one of the fence's owner
\* of last resort is ClearRestartSignalFence itself.
RollbackRestartSignal(n) ==
  /\ n \in signalLeases
  /\ HoldsSignal(gate, n)
  /\ ClearRestartSignalFence

\* tryBeginGatewaySuspendAdmission
TryBeginSuspend ==
  /\ ~Closed(gate)
  /\ gate.suspendGeneration < MaxGeneration
  /\ gate' = SuspendBegun(gate)
  /\ suspendLeases' = suspendLeases \union {SuspendBegun(gate).suspendGeneration}
  /\ UNCHANGED <<rootVars, chain, wait, signalLeases>>

CommitSuspend(n) ==
  /\ n \in suspendLeases
  /\ HoldsSuspend(gate, n, "preparing")
  /\ gate' = [gate EXCEPT !.phase = "prepared"]
  /\ UNCHANGED <<rootVars, chain, wait, signalLeases, suspendLeases>>

\* A lease's rollback (from "preparing") or release (from "prepared")
ReopenSuspend(n, phase) ==
  /\ n \in suspendLeases
  /\ HoldsSuspend(gate, n, phase)
  /\ gate' = [gate EXCEPT !.phase = "accepting"]
  /\ chain' = Woken
  /\ UNCHANGED <<rootVars, wait, signalLeases, suspendLeases>>

\* resetGatewayWorkAdmission: the in-process restart retires every root.
RootsRetired ==
  [r \in Roots |-> IF r \in activeRootWork
                   THEN [references |-> 0, released |-> TRUE, retired |-> TRUE]
                   ELSE root[r]]

Reset ==
  /\ gate.suspendGeneration < MaxGeneration /\ gate.signalGeneration < MaxGeneration
  /\ root' = RootsRetired
  /\ activeRootWork' = {}
  /\ wait' = Resolved
  /\ gate' = [gate EXCEPT !.draining = FALSE, !.signalPending = FALSE,
                          !.signalGeneration = @ + 1, !.phase = "accepting",
                          !.suspendGeneration = @ + 1]
  /\ chain' = Woken
  /\ UNCHANGED <<nextRoot, lease, nextLease, signalLeases, suspendLeases>>

-----------------------------------------------------------------------------

Init ==
  /\ gate = [draining |-> FALSE, signalPending |-> FALSE, signalGeneration |-> 0,
             phase |-> "accepting", suspendGeneration |-> 0]
  /\ root = [r \in Roots |-> [references |-> 0, released |-> FALSE, retired |-> FALSE]]
  /\ nextRoot = 1
  /\ activeRootWork = {}
  /\ lease = [x \in Leases |-> [root |-> NoRoot, released |-> FALSE]]
  /\ nextLease = 1
  /\ chain = [c \in Chains |-> [state |-> "idle", root |-> NoRoot, detached |-> FALSE]]
  /\ wait = [w \in DrainWaiters |-> "idle"]
  /\ signalLeases = {}
  /\ suspendLeases = {}

\* What request handlers, timers and their descendants do.
WorkNext ==
  \/ \E c \in Chains :
       \/ TryBegin(c)
       \/ BeginWhenOpen(c)
       \/ RunIndependent(c)
       \/ Readmit(c)
       \/ Resume(c)
       \/ End(c)
       \/ Retain(c)
       \/ \E d \in Chains \ {c} : Continue(c, d) \/ Fork(c, d)
  \/ \E x \in Leases : Release(x)

\* The restart request that a prepared suspension lets in.
RestartRequestNext == \E c \in Chains : TryBeginPreparedRestart(c)

WaitNext ==
  \E w \in DrainWaiters :
    WaitForActiveRootWork(w) \/ RootWaitTimeout(w) \/ RootWaitReturn(w)

SignalNext ==
  \/ BeginRestartSignal
  \/ ClearRestartSignalFence
  \/ \E n \in Generations : RollbackRestartSignal(n)

SuspendNext ==
  \/ TryBeginSuspend
  \/ \E n \in Generations : CommitSuspend(n)
  \/ \E n \in Generations, phase \in {"preparing", "prepared"} : ReopenSuspend(n, phase)

Next ==
  \/ WorkNext
  \/ RestartRequestNext
  \/ WaitNext
  \/ SignalNext
  \/ SuspendNext
  \/ MarkRestartDraining
  \/ Reset

Spec == Init /\ [][Next]_vars

-----------------------------------------------------------------------------
(* Properties.                                                             *)

\* No chain is parked at a gate that would let it in or must refuse it: every
\* path that opens the gate or starts the drain wakes the parked chains.
NoLostOpenWaiter ==
  \A c \in Chains :
    chain[c].state = "parked" => Closed(gate) /\ ~gate.draining

\* A pending wait for the active roots has one to wait for: the release of the
\* last root, by whichever lease, and the reset resolve every wait.
NoLostDrainWaiter ==
  \A w \in DrainWaiters : wait[w] = "waiting" => activeRootWork # {}

\* Nobody waits for what has already happened, at the gate or for the roots.
NoLostWaiter == NoLostOpenWaiter /\ NoLostDrainWaiter

OpenLeases(r) ==
  {x \in Leases : x < nextLease /\ lease[x].root = r /\ ~lease[x].released}

\* A root is active exactly until its last lease is released or a reset retires
\* it; retained continuations are counted, double and late releases are not.
RootAccounting ==
  \A r \in 1 .. nextRoot - 1 :
    /\ r \in activeRootWork <=> ~root[r].released
    /\ r \in activeRootWork =>
         /\ root[r].references = Cardinality(OpenLeases(r))
         /\ OpenLeases(r) # {}

\* A restart drain has dropped the reversible fences, so no lease of theirs can
\* reopen admission into the dying process.
DrainSupersedesFences ==
  gate.draining => ~gate.signalPending /\ gate.phase = "accepting"

HasSuspend(n) == gate.suspendGeneration = n /\ gate.phase # "accepting"

\* A fence lease that lost its fence (rolled back, released, superseded by a
\* drain, invalidated by a reset) never gets hold of a later one.
LostLeasesStayLost ==
  [][/\ \A n \in suspendLeases : ~HasSuspend(n) => ~HasSuspend(n)'
     /\ \A n \in signalLeases :
          ~HoldsSignal(gate, n) => ~HoldsSignal(gate', n)]_vars

\* The promise of the gate: the module implements AdmissionGate.
GateState ==
  IF gate.draining THEN "draining"
  ELSE IF gate.signalPending \/ gate.phase = "preparing" THEN "fenced"
  ELSE IF gate.phase = "prepared" THEN "prepared"
  ELSE "open"

Gate == INSTANCE AdmissionGate WITH
          gate <- GateState, live <- activeRootWork, admitted <- 1 .. nextRoot - 1

\* Work enters only through the open gate, as the continuation of live work, or
\* as the restart that an idle prepared suspension lets in.
ImplementsGate == Gate!Spec
=============================================================================
