------------------------ MODULE WorkAdmissionProofs ------------------------
(***************************************************************************)
(* TLAPS proofs about WorkAdmission: type correctness, that no chain stays *)
(* parked at a gate that moved, that a drain supersedes the reversible     *)
(* fences, that the module implements AdmissionGate, and that roots are    *)
(* counted exactly.                                                        *)
(***************************************************************************)
EXTENDS WorkAdmission, FiniteSetTheorems, TLAPS

\* The active set is exactly the unreleased roots, each still referenced, and
\* every issued lease is for a root that exists.
RootsInv ==
  /\ activeRootWork \subseteq 1 .. nextRoot - 1
  /\ \A r \in 1 .. nextRoot - 1 : r \in activeRootWork <=> ~root[r].released
  /\ \A r \in activeRootWork : root[r].references >= 1
  /\ \A x \in 1 .. nextLease - 1 : lease[x].root \in 1 .. nextRoot - 1

Inv == TypeOK /\ RootsInv

USE DEF Roots, Leases, NoRoot, Phases, rootVars

\* No root, lease or waiter exists initially.
LEMMA InitInv == Init => Inv
  BY BoundsAssumption DEF Init, Inv, TypeOK, RootsInv

-----------------------------------------------------------------------------
(* What the steps of a chain do to the roots.                              *)

\* Admitting a root keeps the invariant.
LEMMA AdmitInv ==
  ASSUME Inv, NEW c \in Chains, NEW detached \in BOOLEAN, Admit(c, detached),
         UNCHANGED <<gate, wait, signalLeases, suspendLeases>>
  PROVE  Inv'
<1> USE BoundsAssumption DEF Inv
<1>1. nextRoot \in Roots /\ nextLease \in Leases
  BY DEF Admit, TypeOK
<1>2. TypeOK'
  BY <1>1 DEF Admit, TypeOK
<1>3. RootsInv'
  BY <1>1 DEF Admit, TypeOK, RootsInv
<1> QED
  BY <1>2, <1>3

\* Moving a chain leaves the roots alone.
LEMMA PlaceInv ==
  ASSUME Inv, NEW c \in Chains, NEW state \in {"idle", "running", "parked", "woken"},
         NEW r \in Roots \union {NoRoot}, NEW detached \in BOOLEAN,
         Place(c, state, r, detached),
         UNCHANGED <<gate, wait, signalLeases, suspendLeases>>
  PROVE  Inv'
  BY DEF Inv, TypeOK, RootsInv, Place

\* Whatever the gate answers an attempt, roots and chains stay consistent.
LEMMA AttemptInv ==
  ASSUME Inv, NEW c \in Chains, NEW r \in Roots \union {NoRoot},
         NEW detached \in BOOLEAN, Attempt(c, r, detached),
         UNCHANGED <<gate, wait, signalLeases, suspendLeases>>
  PROVE  Inv'
  BY AdmitInv, PlaceInv DEF Attempt

GateType ==
  [draining : BOOLEAN, signalPending : BOOLEAN, signalGeneration : Nat,
   phase : Phases, suspendGeneration : Nat]
RootType == [references : Nat, released : BOOLEAN, retired : BOOLEAN]
LeaseType == [root : Roots \union {NoRoot}, released : BOOLEAN]
ChainType ==
  [state : {"idle", "running", "parked", "woken"}, root : Roots \union {NoRoot},
   detached : BOOLEAN]
WaitStates == {"idle", "waiting", "resolved", "drained", "active"}

\* The two sweeps over waiters keep the types.
LEMMA SweepTypes ==
  ASSUME TypeOK
  PROVE  /\ Woken \in [Chains -> ChainType]
         /\ Resolved \in [DrainWaiters -> WaitStates]
  BY DEF TypeOK, Woken, Resolved, ChainType, WaitStates

\* What exists lies within the bounds.
LEMMA Existing ==
  ASSUME TypeOK
  PROVE  /\ 1 .. nextRoot - 1 \subseteq Roots
         /\ 1 .. nextLease - 1 \subseteq Leases
  BY BoundsAssumption DEF TypeOK

\* A release spends its own lease, and the root with its last one.
LEMMA ReleaseInv ==
  ASSUME Inv, NEW x \in Leases, Release(x)
  PROVE  Inv'
<1> DEFINE r == lease[x].root
           left == root[r].references - 1
<1> USE DEF Inv
<1>1. /\ r \in 1 .. nextRoot - 1 /\ r \in Roots
      /\ ~root[r].released /\ r \in activeRootWork
      /\ root[r].references \in Nat /\ left \in Nat
  BY DEF Release, Spent, RootsInv, TypeOK
<1>2. lease' = [lease EXCEPT ![x].released = TRUE]
  BY DEF Release
<1>3. UNCHANGED <<gate, nextRoot, nextLease, chain, signalLeases, suspendLeases>>
  BY DEF Release
<1>4. /\ lease' \in [Leases -> LeaseType]
      /\ \A y \in Leases : lease'[y].root = lease[y].root
  <2>1. lease \in [Leases -> LeaseType]
    BY DEF TypeOK, LeaseType
  <2>2. PICK a : a = [lease[x] EXCEPT !.released = TRUE]
    OBVIOUS
  <2>3. a \in LeaseType /\ a.root = lease[x].root
    BY <2>1, <2>2 DEF LeaseType
  <2>4. lease' = [lease EXCEPT ![x] = a]
    BY <1>2, <2>2
  <2> QED
    BY <2>1, <2>3, <2>4
<1>5. CASE /\ left > 0
           /\ root' = [root EXCEPT ![r].references = left]
           /\ UNCHANGED <<activeRootWork, wait>>
  <2> HIDE DEF r, left
  <2>1. /\ root' \in [Roots -> RootType]
        /\ \A q \in Roots : root'[q].released = root[q].released
        /\ \A q \in Roots : q # r => root'[q] = root[q]
        /\ root'[r].references = left
    BY <1>1, <1>5 DEF TypeOK, RootType
  <2>2. TypeOK'
    BY <1>3, <1>4, <1>5, <2>1 DEF TypeOK, LeaseType, RootType
  <2>3. RootsInv'
    BY <1>1, <1>3, <1>4, <1>5, <2>1, Existing DEF RootsInv
  <2> QED
    BY <2>2, <2>3
<1>6. CASE /\ left <= 0
           /\ root' = [root EXCEPT ![r].references = left, ![r].released = TRUE]
           /\ activeRootWork' = activeRootWork \ {r}
           /\ wait' = IF activeRootWork' = {} THEN Resolved ELSE wait
  <2> HIDE DEF r, left
  <2>1. wait' \in [DrainWaiters -> WaitStates]
    BY <1>6, SweepTypes DEF TypeOK, WaitStates
  <2>2. /\ root' \in [Roots -> RootType]
        /\ root'[r].released
        /\ \A q \in Roots : q # r => root'[q] = root[q]
    BY <1>1, <1>6 DEF TypeOK, RootType
  <2>3. activeRootWork' \in SUBSET Roots
    BY <1>6 DEF TypeOK
  <2>4. TypeOK'
    BY <1>3, <1>4, <2>1, <2>2, <2>3 DEF TypeOK, LeaseType, RootType, WaitStates
  <2>5. RootsInv'
    BY <1>1, <1>3, <1>4, <1>6, <2>2, Existing DEF RootsInv
  <2> QED
    BY <2>4, <2>5
<1> QED
  BY <1>5, <1>6 DEF Release

\* A retained continuation adds one reference and one lease.
LEMMA RetainInv ==
  ASSUME Inv, NEW c \in Chains, Retain(c)
  PROVE  Inv'
<1> DEFINE r == chain[c].root
<1> USE BoundsAssumption DEF Inv
<1>1. /\ r \in 1 .. nextRoot - 1 /\ r \in Roots /\ nextLease \in Leases
      /\ ~root[r].released
  BY DEF Retain, Live, TypeOK
<1>2. /\ r \in activeRootWork
      /\ root[r].references \in Nat /\ root[r].references + 1 \in Nat
  BY <1>1 DEF RootsInv, TypeOK
<1>3. /\ root' = [root EXCEPT ![r].references = @ + 1]
      /\ lease' = [lease EXCEPT ![nextLease] = [root |-> r, released |-> FALSE]]
      /\ nextLease' = nextLease + 1
      /\ UNCHANGED <<gate, nextRoot, activeRootWork, chain, wait, signalLeases,
                     suspendLeases>>
  BY DEF Retain
<1> HIDE DEF r
<1>4. /\ root' \in [Roots -> RootType]
      /\ root'[r].references = root[r].references + 1
      /\ \A q \in Roots : root'[q].released = root[q].released
      /\ \A q \in Roots : q # r => root'[q] = root[q]
  <2> DEFINE more == root[r].references + 1
  <2>1. root' = [root EXCEPT ![r].references = more] /\ more \in Nat
    BY <1>2, <1>3
  <2> HIDE DEF more
  <2>2. root \in [Roots -> RootType]
    BY DEF TypeOK, RootType
  <2>3. root' \in [Roots -> RootType]
    BY <1>1, <2>1, <2>2 DEF RootType
  <2>4. /\ root'[r].references = more
        /\ \A q \in Roots : root'[q].released = root[q].released
        /\ \A q \in Roots : q # r => root'[q] = root[q]
    BY <1>1, <2>1, <2>2 DEF RootType
  <2> QED
    BY <2>3, <2>4 DEF more
<1>5. /\ lease' \in [Leases -> LeaseType]
      /\ lease'[nextLease].root = r
      /\ \A y \in Leases : y # nextLease => lease'[y] = lease[y]
  BY <1>1, <1>3 DEF TypeOK, LeaseType
<1>6. nextLease' \in 1 .. MaxLeases + 1
  BY <1>1, <1>3
<1>7. TypeOK'
  BY <1>3, <1>4, <1>5, <1>6 DEF TypeOK, RootType, LeaseType
<1>8. RootsInv'
  <2>1. \A q \in 1 .. nextRoot - 1 : q \in activeRootWork <=> ~root'[q].released
    BY <1>4, Existing DEF RootsInv
  <2>2. \A q \in activeRootWork : root'[q].references >= 1
    BY <1>2, <1>4, Existing DEF RootsInv
  <2>3. \A y \in 1 .. nextLease : lease'[y].root \in 1 .. nextRoot - 1
    BY <1>1, <1>5, Existing DEF RootsInv
  <2>4. nextLease' - 1 = nextLease
    BY <1>1, <1>3
  <2> QED
    BY <1>3, <2>1, <2>2, <2>3, <2>4 DEF RootsInv
<1> QED
  BY <1>7, <1>8

\* A step that touches only the gate, the chains and the fence leases.
LEMMA OffRootsInv ==
  ASSUME Inv, UNCHANGED <<rootVars, wait>>,
         gate' \in GateType, chain' \in [Chains -> ChainType],
         signalLeases' \in SUBSET Nat, suspendLeases' \in SUBSET Nat
  PROVE  Inv'
  BY DEF Inv, TypeOK, RootsInv, GateType, ChainType

\* The reset retires all active roots at once.
LEMMA ResetInv ==
  ASSUME Inv, Reset
  PROVE  Inv'
<1> USE DEF Inv
<1>1. /\ root' \in [Roots -> RootType]
      /\ \A r \in Roots : r \in activeRootWork => root'[r].released
      /\ \A r \in Roots : r \notin activeRootWork => root'[r] = root[r]
  BY DEF Reset, RootsRetired, TypeOK, RootType
<1>2. gate' \in GateType
  <2>1. /\ gate \in GateType
        /\ gate.signalGeneration + 1 \in Nat /\ gate.suspendGeneration + 1 \in Nat
    BY DEF TypeOK, GateType
  <2> QED
    BY <2>1 DEF Reset, GateType
<1>3. chain' \in [Chains -> ChainType] /\ wait' \in [DrainWaiters -> WaitStates]
  BY SweepTypes DEF Reset
<1>4. /\ activeRootWork' = {}
      /\ UNCHANGED <<nextRoot, lease, nextLease, signalLeases, suspendLeases>>
  BY DEF Reset
<1>5. TypeOK'
  BY <1>1, <1>2, <1>3, <1>4 DEF TypeOK, RootType, GateType, ChainType, WaitStates
<1>6. RootsInv'
  BY <1>1, <1>4, Existing DEF RootsInv
<1> QED
  BY <1>5, <1>6

\* Steps of the fences leave the roots alone.
LEMMA FenceInv ==
  ASSUME Inv, SignalNext \/ SuspendNext \/ MarkRestartDraining
  PROVE  Inv'
<1>0. /\ gate \in GateType
      /\ gate.signalGeneration + 1 \in Nat /\ gate.suspendGeneration + 1 \in Nat
      /\ chain \in [Chains -> ChainType]
      /\ Woken \in [Chains -> ChainType]
      /\ signalLeases \in SUBSET Nat /\ suspendLeases \in SUBSET Nat
  BY SweepTypes DEF Inv, TypeOK, GateType, ChainType
<1>1. CASE MarkRestartDraining
  <2>1. gate' \in GateType
    BY <1>0, <1>1 DEF MarkRestartDraining, Drained, Invalidated, GateType
  <2> QED
    BY <1>0, <1>1, <2>1, OffRootsInv DEF MarkRestartDraining
<1>2. CASE BeginRestartSignal
  <2>1. gate' \in GateType /\ signalLeases' \in SUBSET Nat
    BY <1>0, <1>2 DEF BeginRestartSignal, GateType
  <2> QED
    BY <1>0, <1>2, <2>1, OffRootsInv DEF BeginRestartSignal
<1>3. CASE ClearRestartSignalFence
  <2>1. gate' \in GateType
    BY <1>0, <1>3 DEF ClearRestartSignalFence, GateType
  <2> QED
    BY <1>0, <1>3, <2>1, OffRootsInv DEF ClearRestartSignalFence
<1>4. CASE TryBeginSuspend
  <2>1. gate' \in GateType /\ suspendLeases' \in SUBSET Nat
    BY <1>0, <1>4 DEF TryBeginSuspend, SuspendBegun, GateType
  <2> QED
    BY <1>0, <1>4, <2>1, OffRootsInv DEF TryBeginSuspend
<1>5. ASSUME NEW n \in Generations, CommitSuspend(n) PROVE Inv'
  <2>1. gate' \in GateType
    BY <1>0, <1>5 DEF CommitSuspend, GateType
  <2> QED
    BY <1>0, <1>5, <2>1, OffRootsInv DEF CommitSuspend
<1>6. ASSUME NEW n \in Generations, NEW phase \in {"preparing", "prepared"},
             ReopenSuspend(n, phase)
      PROVE  Inv'
  <2>1. gate' \in GateType
    BY <1>0, <1>6 DEF ReopenSuspend, GateType
  <2> QED
    BY <1>0, <1>6, <2>1, OffRootsInv DEF ReopenSuspend
<1> QED
  BY <1>1, <1>2, <1>3, <1>4, <1>5, <1>6
     DEF SignalNext, SuspendNext, RollbackRestartSignal

\* Waiting for the roots changes nothing but the waits.
LEMMA WaitInv ==
  ASSUME Inv, WaitNext
  PROVE  Inv'
<1> USE DEF Inv, TypeOK, RootsInv
<1>1. ASSUME NEW w \in DrainWaiters, WaitForActiveRootWork(w) PROVE Inv'
  BY <1>1 DEF WaitForActiveRootWork
<1>2. ASSUME NEW w \in DrainWaiters, RootWaitTimeout(w) PROVE Inv'
  BY <1>2 DEF RootWaitTimeout
<1>3. ASSUME NEW w \in DrainWaiters, RootWaitReturn(w) PROVE Inv'
  BY <1>3 DEF RootWaitReturn
<1> QED
  BY <1>1, <1>2, <1>3 DEF WaitNext

\* Every step of root work keeps the invariant.
LEMMA WorkInv ==
  ASSUME Inv, WorkNext \/ RestartRequestNext
  PROVE  Inv'
<1>1. ASSUME NEW c \in Chains, TryBegin(c) \/ TryBeginPreparedRestart(c) PROVE Inv'
  BY <1>1, AdmitInv DEF TryBegin, TryBeginPreparedRestart
<1>2. ASSUME NEW c \in Chains,
             BeginWhenOpen(c) \/ RunIndependent(c) \/ Readmit(c) \/ Resume(c)
      PROVE  Inv'
  <2>1. chain[c].root \in Roots \union {NoRoot} /\ chain[c].detached \in BOOLEAN
    BY DEF Inv, TypeOK
  <2> QED
    BY <1>2, <2>1, AttemptInv DEF BeginWhenOpen, RunIndependent, Readmit, Resume
<1>3. ASSUME NEW c \in Chains, End(c) PROVE Inv'
  BY <1>3, PlaceInv DEF End
<1>4. ASSUME NEW c \in Chains, Retain(c) PROVE Inv'
  BY <1>4, RetainInv
<1>5. ASSUME NEW c \in Chains, NEW d \in Chains \ {c}, Continue(c, d) PROVE Inv'
  BY <1>5, AdmitInv DEF Continue
<1>6. ASSUME NEW c \in Chains, NEW d \in Chains \ {c}, Fork(c, d) PROVE Inv'
  <2>1. chain[c].root \in Roots \union {NoRoot}
    BY DEF Inv, TypeOK
  <2> QED
    BY <1>6, <2>1, PlaceInv DEF Fork
<1>7. ASSUME NEW x \in Leases, Release(x) PROVE Inv'
  BY <1>7, ReleaseInv
<1> QED
  BY <1>1, <1>2, <1>3, <1>4, <1>5, <1>6, <1>7 DEF WorkNext, RestartRequestNext

\* Every step does.
LEMMA NextInv == Inv /\ [Next]_vars => Inv'
<1>1. ASSUME Inv, UNCHANGED vars PROVE Inv'
  BY <1>1 DEF vars, Inv, TypeOK, RootsInv
<1> QED
  BY <1>1, WorkInv, WaitInv, FenceInv, ResetInv DEF Next

\* Every variable keeps its type; in particular no sequence of releases, late
\* and repeated ones included, takes a reference count below zero.
THEOREM TypeCorrect == Spec => []TypeOK
<1>1. Inv => TypeOK
  BY DEF Inv
<1> QED
  BY <1>1, InitInv, NextInv, PTL DEF Spec

-----------------------------------------------------------------------------
(* What each kind of step does to the gate.                                *)

\* Only the fences, the drain and the reset move the gate or issue fence
\* leases.
LEMMA WorkKeepsGate ==
  ASSUME WorkNext \/ RestartRequestNext \/ WaitNext \/ UNCHANGED vars
  PROVE  UNCHANGED <<gate, signalLeases, suspendLeases>>
<1>1. CASE WorkNext \/ RestartRequestNext
  BY <1>1 DEF WorkNext, RestartRequestNext, TryBegin, TryBeginPreparedRestart, BeginWhenOpen,
     RunIndependent, Readmit, Resume, End, Retain, Continue, Fork, Release
<1>2. CASE WaitNext
  BY <1>2 DEF WaitNext, WaitForActiveRootWork, RootWaitTimeout, RootWaitReturn
<1> QED
  BY <1>1, <1>2 DEF vars

\* The gate as the fences see it: a drain has dropped them, and no lease is of
\* a generation still to come.
FencesInv ==
  /\ DrainSupersedesFences
  /\ \A n \in suspendLeases : n <= gate.suspendGeneration
  /\ \A n \in signalLeases : n <= gate.signalGeneration

\* A fence lease that does not hold its fence does not get it in this step.
LostStep ==
  /\ \A n \in suspendLeases : ~HasSuspend(n) => ~HasSuspend(n)'
  /\ \A n \in signalLeases : ~HoldsSignal(gate, n) => ~HoldsSignal(gate', n)

\* A step keeps the fences exclusive and never revives a lost lease.
LEMMA FencesStep ==
  ASSUME TypeOK, FencesInv, [Next]_vars
  PROVE  FencesInv' /\ LostStep
<1> USE DEF FencesInv, LostStep, DrainSupersedesFences, HasSuspend, HoldsSignal
<1>0. /\ gate \in GateType
      /\ gate.signalGeneration \in Nat /\ gate.suspendGeneration \in Nat
      /\ gate.phase \in Phases
      /\ signalLeases \subseteq Nat /\ suspendLeases \subseteq Nat
  BY DEF TypeOK, GateType
<1>1. CASE MarkRestartDraining
  <2>1. /\ gate'.draining /\ ~gate'.signalPending /\ gate'.phase = "accepting"
        /\ gate'.signalGeneration = gate.signalGeneration + 1
        /\ \/ gate'.suspendGeneration = gate.suspendGeneration
           \/ gate'.suspendGeneration = gate.suspendGeneration + 1
        /\ UNCHANGED <<signalLeases, suspendLeases>>
    BY <1>0, <1>1 DEF MarkRestartDraining, Drained, Invalidated, GateType
  <2> QED
    BY <1>0, <2>1
<1>2. CASE BeginRestartSignal
  <2>1. /\ ~gate'.draining
        /\ gate'.signalGeneration = gate.signalGeneration + 1
        /\ gate'.phase = gate.phase
        /\ gate'.suspendGeneration = gate.suspendGeneration
        /\ signalLeases' = signalLeases \union {gate.signalGeneration + 1}
        /\ UNCHANGED suspendLeases
    BY <1>0, <1>2 DEF BeginRestartSignal, GateType
  <2> QED
    BY <1>0, <2>1
<1>3. CASE ClearRestartSignalFence
  <2>1. /\ ~gate'.draining /\ ~gate'.signalPending
        /\ gate'.signalGeneration = gate.signalGeneration + 1
        /\ gate'.phase = gate.phase
        /\ gate'.suspendGeneration = gate.suspendGeneration
        /\ UNCHANGED <<signalLeases, suspendLeases>>
    BY <1>0, <1>3 DEF ClearRestartSignalFence, GateType
  <2> QED
    BY <1>0, <2>1
<1>4. CASE TryBeginSuspend
  <2>1. /\ ~gate.draining /\ ~gate'.draining
        /\ gate'.signalPending = gate.signalPending
        /\ gate'.signalGeneration = gate.signalGeneration
        /\ gate'.suspendGeneration = gate.suspendGeneration + 1
        /\ suspendLeases' = suspendLeases \union {gate.suspendGeneration + 1}
        /\ UNCHANGED signalLeases
    BY <1>0, <1>4 DEF TryBeginSuspend, SuspendBegun, Closed, GateType
  <2> QED
    BY <1>0, <2>1
<1>5. ASSUME NEW n \in Generations, CommitSuspend(n) PROVE FencesInv' /\ LostStep
  <2>1. /\ gate.phase = "preparing"
        /\ gate'.draining = gate.draining
        /\ gate'.signalPending = gate.signalPending
        /\ gate'.signalGeneration = gate.signalGeneration
        /\ gate'.suspendGeneration = gate.suspendGeneration
        /\ UNCHANGED <<signalLeases, suspendLeases>>
    BY <1>0, <1>5 DEF CommitSuspend, HoldsSuspend, GateType
  <2> QED
    BY <1>0, <2>1
<1>6. ASSUME NEW n \in Generations, NEW phase \in {"preparing", "prepared"},
             ReopenSuspend(n, phase)
      PROVE  FencesInv' /\ LostStep
  <2>1. /\ gate'.phase = "accepting"
        /\ gate'.draining = gate.draining
        /\ gate'.signalPending = gate.signalPending
        /\ gate'.signalGeneration = gate.signalGeneration
        /\ gate'.suspendGeneration = gate.suspendGeneration
        /\ UNCHANGED <<signalLeases, suspendLeases>>
    BY <1>0, <1>6 DEF ReopenSuspend, GateType
  <2> QED
    BY <1>0, <2>1
<1>7. CASE Reset
  <2>1. /\ ~gate'.draining /\ ~gate'.signalPending /\ gate'.phase = "accepting"
        /\ gate'.signalGeneration = gate.signalGeneration + 1
        /\ gate'.suspendGeneration = gate.suspendGeneration + 1
        /\ UNCHANGED <<signalLeases, suspendLeases>>
    BY <1>0, <1>7 DEF Reset, GateType
  <2> QED
    BY <1>0, <2>1
<1>8. CASE WorkNext \/ RestartRequestNext \/ WaitNext \/ UNCHANGED vars
  BY <1>8, WorkKeepsGate
<1> QED
  BY <1>1, <1>2, <1>3, <1>4, <1>5, <1>6, <1>7, <1>8
     DEF Next, SignalNext, SuspendNext, RollbackRestartSignal

\* Once the process drains for a restart, both reversible fences are dropped
\* and stay dropped: nothing their leases do reopens admission.
THEOREM DrainSupersedes == Spec => []DrainSupersedesFences
<1>1. Init => FencesInv
  BY DEF Init, FencesInv, DrainSupersedesFences
<1>2. Inv /\ FencesInv /\ [Next]_vars => FencesInv'
  BY FencesStep DEF Inv
<1>3. FencesInv => DrainSupersedesFences
  BY DEF FencesInv
<1> QED
  BY <1>1, <1>2, <1>3, InitInv, NextInv, PTL DEF Spec

\* A fence lease that lost its fence never gets hold of a later one, however
\* late its owner calls commit, rollback or release.
THEOREM LeasesStayLost == Spec => LostLeasesStayLost
<1>1. Init => FencesInv
  BY DEF Init, FencesInv, DrainSupersedesFences
<1>2. Inv /\ FencesInv /\ [Next]_vars => FencesInv' /\ [LostStep]_vars
  BY FencesStep DEF Inv
<1>3. LostLeasesStayLost <=> [][LostStep]_vars
  BY DEF LostLeasesStayLost, LostStep
<1> QED
  BY <1>1, <1>2, <1>3, InitInv, NextInv, PTL DEF Spec

-----------------------------------------------------------------------------
(* Nobody waits for a gate that moved, or for roots that are gone.         *)

\* Placing one chain somewhere new parks it only at a closed gate.
LEMMA AttemptParks ==
  ASSUME TypeOK, NoLostOpenWaiter, UNCHANGED gate, NEW c \in Chains, NEW r,
         NEW detached, Attempt(c, r, detached)
  PROVE  NoLostOpenWaiter'
<1>1. CASE Admit(c, detached)
  BY <1>1 DEF Admit, TypeOK, NoLostOpenWaiter, Closed
<1>2. CASE Place(c, "running", r, detached)
  BY <1>2 DEF Place, TypeOK, NoLostOpenWaiter, Closed
<1>3. CASE Place(c, "idle", NoRoot, FALSE)
  BY <1>3 DEF Place, TypeOK, NoLostOpenWaiter, Closed
<1>4. CASE ~gate.draining /\ Closed(gate) /\ Place(c, "parked", r, detached)
  BY <1>4 DEF Place, TypeOK, NoLostOpenWaiter, Closed
<1> QED
  BY <1>1, <1>2, <1>3, <1>4 DEF Attempt

\* Work parks a chain only at a closed gate that is not draining.
LEMMA WorkParks ==
  ASSUME TypeOK, NoLostOpenWaiter, WorkNext \/ RestartRequestNext
  PROVE  NoLostOpenWaiter'
<1>1. ASSUME NEW c \in Chains, TryBegin(c) \/ TryBeginPreparedRestart(c)
      PROVE  NoLostOpenWaiter'
  BY <1>1 DEF TryBegin, TryBeginPreparedRestart, Admit, TypeOK, NoLostOpenWaiter, Closed
<1>2. ASSUME NEW c \in Chains,
             BeginWhenOpen(c) \/ RunIndependent(c) \/ Readmit(c) \/ Resume(c)
      PROVE  NoLostOpenWaiter'
  BY <1>2, AttemptParks DEF BeginWhenOpen, RunIndependent, Readmit, Resume
<1>3. ASSUME NEW c \in Chains, End(c) PROVE NoLostOpenWaiter'
  BY <1>3 DEF End, Place, TypeOK, NoLostOpenWaiter, Closed
<1>4. ASSUME NEW c \in Chains, Retain(c) PROVE NoLostOpenWaiter'
  BY <1>4 DEF Retain, NoLostOpenWaiter, Closed
<1>5. ASSUME NEW c \in Chains, NEW d \in Chains \ {c}, Continue(c, d)
      PROVE  NoLostOpenWaiter'
  BY <1>5 DEF Continue, Admit, TypeOK, NoLostOpenWaiter, Closed
<1>6. ASSUME NEW c \in Chains, NEW d \in Chains \ {c}, Fork(c, d)
      PROVE  NoLostOpenWaiter'
  BY <1>6 DEF Fork, Place, TypeOK, NoLostOpenWaiter, Closed
<1>7. ASSUME NEW x \in Leases, Release(x) PROVE NoLostOpenWaiter'
  BY <1>7 DEF Release, NoLostOpenWaiter, Closed
<1> QED
  BY <1>1, <1>2, <1>3, <1>4, <1>5, <1>6, <1>7 DEF WorkNext, RestartRequestNext

\* A step that opens the gate or starts the drain wakes every parked chain.
LEMMA GateParks ==
  ASSUME TypeOK, NoLostOpenWaiter, SignalNext \/ SuspendNext \/ MarkRestartDraining \/ Reset
  PROVE  NoLostOpenWaiter'
<1>1. CASE chain' = Woken
  BY <1>1 DEF Woken, TypeOK, NoLostOpenWaiter
<1>2. CASE BeginRestartSignal
  BY <1>2 DEF BeginRestartSignal, TypeOK, NoLostOpenWaiter, Closed
<1>3. CASE TryBeginSuspend
  BY <1>3 DEF TryBeginSuspend, NoLostOpenWaiter
<1>4. ASSUME NEW n \in Generations, CommitSuspend(n) PROVE NoLostOpenWaiter'
  BY <1>4 DEF CommitSuspend, TypeOK, NoLostOpenWaiter, Closed
<1> QED
  BY <1>1, <1>2, <1>3, <1>4
     DEF SignalNext, SuspendNext, RollbackRestartSignal, ClearRestartSignalFence,
         ReopenSuspend, MarkRestartDraining, Reset

\* No chain stays parked at a gate that would let it in or must refuse it.
LEMMA OpenWaitersWoken == Spec => []NoLostOpenWaiter
<1>1. Init => NoLostOpenWaiter
  BY DEF Init, NoLostOpenWaiter
<1>2. ASSUME Inv, NoLostOpenWaiter, [Next]_vars PROVE NoLostOpenWaiter'
  <2>1. CASE WaitNext \/ UNCHANGED vars
    BY <1>2, <2>1 DEF WaitNext, WaitForActiveRootWork, RootWaitTimeout,
       RootWaitReturn, vars, NoLostOpenWaiter, Closed
  <2> QED
    BY <1>2, <2>1, WorkParks, GateParks DEF Next, Inv
<1> QED
  BY <1>1, <1>2, InitInv, NextInv, PTL DEF Spec

\* No wait for the active roots outlives the last of them.
LEMMA DrainWaitersResolved == Spec => []NoLostDrainWaiter
<1>1. Init => NoLostDrainWaiter
  BY DEF Init, NoLostDrainWaiter
<1>2. ASSUME Inv, NoLostDrainWaiter, [Next]_vars PROVE NoLostDrainWaiter'
  <2> USE <1>2 DEF Inv, NoLostDrainWaiter
  <2>1. CASE wait' = wait /\ activeRootWork \subseteq activeRootWork'
    BY <2>1
  <2>2. ASSUME NEW x \in Leases, Release(x) PROVE NoLostDrainWaiter'
    BY <2>2 DEF Release, Resolved, TypeOK
  <2>3. CASE Reset
    BY <2>3 DEF Reset, Resolved, TypeOK
  <2>4. CASE WaitNext
    BY <2>4 DEF WaitNext, WaitForActiveRootWork, RootWaitTimeout, RootWaitReturn,
       TypeOK
  <2>5. CASE UNCHANGED <<wait, activeRootWork>>
    BY <2>5
  <2>6. ASSUME NEW c \in Chains, NEW r, NEW detached, Attempt(c, r, detached),
               UNCHANGED wait
        PROVE  NoLostDrainWaiter'
    BY <2>6 DEF Attempt, Admit, Place
  <2>7. CASE WorkNext \/ RestartRequestNext
    BY <2>1, <2>2, <2>6, <2>7
       DEF WorkNext, RestartRequestNext, TryBegin, TryBeginPreparedRestart, BeginWhenOpen, RunIndependent,
           Readmit, Resume, End, Retain, Continue, Fork, Admit, Place
  <2>8. CASE SignalNext \/ SuspendNext \/ MarkRestartDraining
    BY <2>5, <2>8
       DEF SignalNext, SuspendNext, MarkRestartDraining, BeginRestartSignal,
           RollbackRestartSignal, ClearRestartSignalFence, TryBeginSuspend,
           CommitSuspend, ReopenSuspend
  <2> QED
    BY <2>3, <2>4, <2>5, <2>7, <2>8 DEF Next, vars
<1> QED
  BY <1>1, <1>2, InitInv, NextInv, PTL DEF Spec

\* Nobody who waits for the admission is forgotten: neither a chain parked at the
\* gate nor a caller of waitForActiveGatewayRootWork.
THEOREM WaitersWoken == Spec => []NoLostWaiter
<1> QED
  BY OpenWaitersWoken, DrainWaitersResolved, PTL DEF NoLostWaiter

-----------------------------------------------------------------------------
(* The module implements AdmissionGate.                                    *)

\* A root admitted through an open gate, into a prepared idle gateway, or as
\* the continuation of live work maps to Admit.
LEMMA AdmitRefines ==
  ASSUME Inv, NEW c \in Chains, NEW detached, Admit(c, detached), UNCHANGED gate,
         GateState \in {"open", "prepared"} \/ activeRootWork # {}
  PROVE  Gate!Next
<1>1. /\ nextRoot \in Roots /\ nextRoot \notin 1 .. nextRoot - 1
      /\ activeRootWork' = activeRootWork \union {nextRoot}
      /\ 1 .. nextRoot' - 1 = (1 .. nextRoot - 1) \union {nextRoot}
  BY DEF Admit, Inv, TypeOK
<1>2. GateState' = GateState
  BY DEF GateState
<1>3. Gate!Admit(nextRoot)
  BY <1>1, <1>2 DEF Gate!Admit
<1> QED
  BY <1>1, <1>3 DEF Gate!Next

\* An attempt that gets a root maps to an admission, any other to a stutter.
LEMMA AttemptRefines ==
  ASSUME Inv, NEW c \in Chains, NEW r, NEW detached, Attempt(c, r, detached),
         UNCHANGED gate
  PROVE  [Gate!Next]_Gate!vars
<1>1. CASE ~Closed(gate) /\ Admit(c, detached)
  <2>1. GateState = "open"
    BY <1>1 DEF Closed, GateState, Inv, TypeOK, Phases
  <2> QED
    BY <1>1, <2>1, AdmitRefines
<1>2. CASE UNCHANGED rootVars
  BY <1>2 DEF rootVars, Gate!vars, GateState
<1> QED
  BY <1>1, <1>2 DEF Attempt, Place

\* Root work maps to admissions, to finishing work and to stutters.
LEMMA WorkRefines ==
  ASSUME Inv, WorkNext \/ RestartRequestNext
  PROVE  [Gate!Next]_Gate!vars
<1>1. ASSUME NEW c \in Chains, TryBegin(c) PROVE [Gate!Next]_Gate!vars
  <2>1. GateState = "open"
    BY <1>1 DEF TryBegin, Closed, GateState, Inv, TypeOK, Phases
  <2> QED
    BY <1>1, <2>1, AdmitRefines DEF TryBegin
<1>2. ASSUME NEW c \in Chains, TryBeginPreparedRestart(c) PROVE [Gate!Next]_Gate!vars
  <2>1. GateState = "prepared"
    BY <1>2 DEF TryBeginPreparedRestart, GateState
  <2> QED
    BY <1>2, <2>1, AdmitRefines DEF TryBeginPreparedRestart
<1>3. ASSUME NEW c \in Chains,
             BeginWhenOpen(c) \/ RunIndependent(c) \/ Readmit(c) \/ Resume(c)
      PROVE  [Gate!Next]_Gate!vars
  BY <1>3, AttemptRefines DEF BeginWhenOpen, RunIndependent, Readmit, Resume
<1>4. ASSUME NEW c \in Chains, NEW d \in Chains \ {c}, Continue(c, d)
      PROVE  [Gate!Next]_Gate!vars
  <2>1. chain[c].root \in activeRootWork
    BY <1>4 DEF Continue, ParentAlive, Live, Inv, TypeOK, RootsInv
  <2> QED
    BY <1>4, <2>1, AdmitRefines DEF Continue
<1>5. ASSUME NEW x \in Leases, Release(x) PROVE [Gate!Next]_Gate!vars
  <2>1. lease[x].root \in activeRootWork
    BY <1>5 DEF Release, Spent, Inv, TypeOK, RootsInv
  <2>2. GateState' = GateState /\ nextRoot' = nextRoot
    BY <1>5 DEF Release, GateState
  <2>3. CASE activeRootWork' = activeRootWork \ {lease[x].root}
    BY <2>1, <2>2, <2>3 DEF Gate!Next, Gate!Finish, Inv, TypeOK
  <2>4. CASE UNCHANGED activeRootWork
    BY <2>2, <2>4 DEF Gate!vars
  <2> QED
    BY <1>5, <2>3, <2>4 DEF Release
<1>6. CASE UNCHANGED <<gate, nextRoot, activeRootWork>>
  BY <1>6 DEF Gate!vars, GateState
<1> QED
  BY <1>1, <1>2, <1>3, <1>4, <1>5, <1>6
     DEF WorkNext, RestartRequestNext, End, Retain, Fork, Place

\* The fences map to moves of the abstract gate.
LEMMA GateRefines ==
  ASSUME Inv, DrainSupersedesFences, SignalNext \/ SuspendNext \/ MarkRestartDraining
  PROVE  [Gate!Next]_Gate!vars
<1>1. UNCHANGED <<nextRoot, activeRootWork>>
  BY DEF SignalNext, SuspendNext, MarkRestartDraining, BeginRestartSignal,
     RollbackRestartSignal, ClearRestartSignalFence, TryBeginSuspend,
     CommitSuspend, ReopenSuspend
<1>2. ~gate.draining
  BY DEF SignalNext, SuspendNext, MarkRestartDraining, BeginRestartSignal,
     RollbackRestartSignal, ClearRestartSignalFence, TryBeginSuspend,
     CommitSuspend, ReopenSuspend, HoldsSuspend, DrainSupersedesFences, Closed
<1>3. GateState # "draining" /\ GateState' \in Gate!Gates
  BY <1>2 DEF GateState, Gate!Gates
<1> QED
  BY <1>1, <1>3 DEF Gate!Next, Gate!Move

\* The in-process restart maps to the abstract reset.
LEMMA ResetRefines ==
  ASSUME Inv, Reset
  PROVE  Gate!Next
<1>1. gate'.phase = "accepting" /\ ~gate'.draining /\ ~gate'.signalPending
  BY DEF Reset, Inv, TypeOK
<1>2. GateState' = "open"
  BY <1>1 DEF GateState
<1> QED
  BY <1>2 DEF Reset, Gate!Next, Gate!Reset

\* The refinement: work enters only through the open gate, as continuation of
\* live work, or as the restart an idle prepared suspension lets in.
THEOREM Refinement == Spec => ImplementsGate
<1>1. Init => Gate!Init
  BY DEF Init, Gate!Init, GateState
<1>2. Inv /\ DrainSupersedesFences /\ [Next]_vars => [Gate!Next]_Gate!vars
  <2>1. CASE WaitNext \/ UNCHANGED vars
    BY <2>1 DEF WaitNext, WaitForActiveRootWork, RootWaitTimeout, RootWaitReturn,
       vars, rootVars, Gate!vars, GateState
  <2> QED
    BY <2>1, WorkRefines, GateRefines, ResetRefines DEF Next
<1>3. Spec => []Inv
  BY InitInv, NextInv, PTL DEF Spec
<1> QED
  BY <1>1, <1>2, <1>3, DrainSupersedes, PTL DEF Spec, ImplementsGate, Gate!Spec

-----------------------------------------------------------------------------
(* The reference counts.  Next to the types and the active set, counting is *)
(* inductive: a lease is issued with the reference it stands for.           *)

CountInv ==
  \A r \in activeRootWork : root[r].references = Cardinality(OpenLeases(r))

\* The open leases of a root are finitely many.
LEMMA OpenFinite ==
  ASSUME NEW r
  PROVE  IsFiniteSet(OpenLeases(r)) /\ Cardinality(OpenLeases(r)) \in Nat
<1>1. IsFiniteSet(1 .. MaxLeases)
  BY BoundsAssumption, FS_Interval
<1>2. OpenLeases(r) \subseteq 1 .. MaxLeases
  BY DEF OpenLeases
<1> QED
  BY <1>1, <1>2, FS_Subset, FS_CardinalityType

\* A step that leaves roots and leases alone leaves the counts alone.
LEMMA SameCount ==
  ASSUME CountInv, UNCHANGED rootVars
  PROVE  CountInv'
  BY DEF CountInv, OpenLeases

\* A new root has one reference and one lease; every other keeps what it has.
LEMMA AdmitCount ==
  ASSUME Inv, CountInv, NEW c \in Chains, NEW detached \in BOOLEAN, Admit(c, detached)
  PROVE  CountInv'
<1>1. PICK n, y : n = nextRoot /\ y = nextLease
  OBVIOUS
<1>2. /\ n \in Roots /\ y \in Leases /\ nextLease' = y + 1
      /\ root' = [root EXCEPT ![n] = [references |-> 1, released |-> FALSE, retired |-> FALSE]]
      /\ lease' = [lease EXCEPT ![y] = [root |-> n, released |-> FALSE]]
      /\ activeRootWork' = activeRootWork \union {n}
  BY <1>1, BoundsAssumption DEF Admit, Inv, TypeOK
<1>3. /\ root \in [Roots -> RootType] /\ lease \in [Leases -> LeaseType]
      /\ activeRootWork \subseteq 1 .. n - 1
  BY <1>1 DEF Inv, TypeOK, RootsInv, RootType, LeaseType
<1>4. /\ lease'[y] = [root |-> n, released |-> FALSE]
      /\ \A x \in Leases : x < y => lease'[x] = lease[x]
  BY <1>2, <1>3
<1>5. /\ root'[n].references = 1
      /\ \A r \in Roots : r # n => root'[r] = root[r]
  BY <1>2, <1>3, Zenon
<1>6. \A r \in activeRootWork : r \in Roots /\ r # n
  <2>1. n \in Roots /\ activeRootWork \subseteq 1 .. n - 1
    BY <1>2, <1>3
  <2> QED
    BY <2>1, BoundsAssumption
<1>7. ASSUME NEW r \in activeRootWork PROVE OpenLeases(r)' = OpenLeases(r)
  BY <1>1, <1>2, <1>4, <1>6 DEF OpenLeases
<1>8. OpenLeases(n)' = {y}
  <2>1. \A x \in Leases : x < y => lease'[x].root # n
    BY <1>1, <1>2, <1>4 DEF Inv, RootsInv
  <2>2. ASSUME NEW x \in Leases
        PROVE  x < nextLease' /\ lease'[x].root = n /\ ~lease'[x].released <=> x = y
    BY <1>2, <1>4, <2>1
  <2> QED
    BY <1>2, <2>2 DEF OpenLeases
<1>9. ASSUME NEW r \in activeRootWork'
      PROVE  root'[r].references = Cardinality(OpenLeases(r)')
  <2>1. CASE r \in activeRootWork
    <3>1. root[r].references = Cardinality(OpenLeases(r))
      BY <2>1 DEF CountInv
    <3> QED
      BY <1>5, <1>6, <1>7, <2>1, <3>1
  <2>2. CASE r = n
    BY <1>5, <1>8, <2>2, FS_Singleton
  <2> QED
    BY <1>2, <2>1, <2>2
<1> QED
  BY <1>9 DEF CountInv

\* A retained continuation is one reference and one lease more.
LEMMA RetainCount ==
  ASSUME Inv, CountInv, NEW c \in Chains, Retain(c)
  PROVE  CountInv'
<1>1. PICK r : r = chain[c].root
  OBVIOUS
<1>2. /\ r \in 1 .. nextRoot - 1 /\ r \in Roots /\ nextLease \in Leases
      /\ root' = [root EXCEPT ![r].references = @ + 1]
      /\ lease' = [lease EXCEPT ![nextLease] = [root |-> r, released |-> FALSE]]
      /\ nextLease' = nextLease + 1 /\ activeRootWork' = activeRootWork
  BY <1>1, BoundsAssumption DEF Retain, Live, Inv, TypeOK
<1>3. /\ root \in [Roots -> RootType] /\ lease \in [Leases -> LeaseType]
      /\ activeRootWork \subseteq Roots /\ nextLease \in Nat
  BY DEF Inv, TypeOK, RootsInv, RootType, LeaseType
<1>4. lease'[nextLease] = [root |-> r, released |-> FALSE]
      /\ \A x \in Leases : x < nextLease => lease'[x] = lease[x]
  BY <1>2, <1>3
<1>5. ASSUME NEW q \in activeRootWork, q # r PROVE OpenLeases(q)' = OpenLeases(q)
  BY <1>2, <1>4, <1>5 DEF OpenLeases
<1>6. OpenLeases(r)' = OpenLeases(r) \union {nextLease} /\ nextLease \notin OpenLeases(r)
  BY <1>2, <1>4 DEF OpenLeases
<1>7. Cardinality(OpenLeases(r) \union {nextLease}) = Cardinality(OpenLeases(r)) + 1
  BY <1>6, OpenFinite, FS_AddElement
<1>8. ASSUME NEW q \in activeRootWork'
      PROVE  root'[q].references = Cardinality(OpenLeases(q)')
  <2>1. CASE q # r
    BY <1>2, <1>3, <1>5, <2>1 DEF CountInv
  <2>2. CASE q = r
    BY <1>2, <1>3, <1>6, <1>7, <2>2 DEF CountInv, RootType
  <2> QED
    BY <2>1, <2>2
<1> QED
  BY <1>8 DEF CountInv

\* A release takes its own lease, and only it, from its root's.
LEMMA ReleaseCount ==
  ASSUME Inv, CountInv, NEW x \in Leases, Release(x)
  PROVE  CountInv'
<1>1. PICK r, left : r = lease[x].root /\ left = root[r].references - 1
  OBVIOUS
<1>2. /\ r \in Roots /\ x < nextLease /\ ~lease[x].released
      /\ lease' = [lease EXCEPT ![x].released = TRUE] /\ nextLease' = nextLease
      /\ \/ root' = [root EXCEPT ![r].references = left] /\ activeRootWork' = activeRootWork
         \/ activeRootWork' = activeRootWork \ {r}
            /\ root' = [root EXCEPT ![r].references = left, ![r].released = TRUE]
  <2>1. r \in 1 .. nextRoot - 1
    BY <1>1 DEF Release, Inv, RootsInv, TypeOK
  <2> QED
    BY <1>1, <2>1, Existing DEF Release, Spent, Inv
<1>3. /\ root \in [Roots -> RootType] /\ lease \in [Leases -> LeaseType]
      /\ activeRootWork \subseteq Roots
  BY DEF Inv, TypeOK, RootType, LeaseType
<1>4. /\ lease'[x].released
      /\ \A y \in Leases : lease'[y].root = lease[y].root /\ (y # x => lease'[y] = lease[y])
  BY <1>2, <1>3 DEF LeaseType
<1>5. ASSUME NEW q, q # r PROVE OpenLeases(q)' = OpenLeases(q)
  BY <1>1, <1>2, <1>4, <1>5 DEF OpenLeases
<1>6. OpenLeases(r)' = OpenLeases(r) \ {x} /\ x \in OpenLeases(r)
  BY <1>1, <1>2, <1>4 DEF OpenLeases
<1>7. Cardinality(OpenLeases(r) \ {x}) = Cardinality(OpenLeases(r)) - 1
  BY <1>6, OpenFinite, FS_RemoveElement
<1>8. ASSUME NEW q \in activeRootWork'
      PROVE  root'[q].references = Cardinality(OpenLeases(q)')
  <2>1. q \in activeRootWork /\ q \in Roots /\ root[q].references = Cardinality(OpenLeases(q))
    BY <1>2, <1>3 DEF CountInv
  <2>2. CASE q # r
    BY <1>2, <1>3, <1>5, <2>1, <2>2
  <2>3. CASE q = r
    <3>1. root' = [root EXCEPT ![r].references = left]
      BY <1>2, <2>3
    <3>2. root'[r].references = left
      BY <1>2, <1>3, <3>1 DEF RootType
    <3> QED
      BY <1>1, <1>6, <1>7, <2>1, <2>3, <3>2
  <2> QED
    BY <2>2, <2>3
<1> QED
  BY <1>8 DEF CountInv

\* Every step keeps the counts.
LEMMA NextCount == Inv /\ CountInv /\ [Next]_vars => CountInv'
<1> SUFFICES ASSUME Inv, CountInv, [Next]_vars PROVE CountInv'
  OBVIOUS
<1>1. ASSUME NEW c \in Chains, TryBegin(c) \/ TryBeginPreparedRestart(c) PROVE CountInv'
  BY <1>1, AdmitCount DEF TryBegin, TryBeginPreparedRestart
<1>2. ASSUME NEW c \in Chains,
             BeginWhenOpen(c) \/ RunIndependent(c) \/ Readmit(c) \/ Resume(c)
      PROVE  CountInv'
  <2>1. chain[c].detached \in BOOLEAN
    BY DEF Inv, TypeOK
  <2>2. PICK r : \E detached \in BOOLEAN : Attempt(c, r, detached)
    BY <1>2, <2>1 DEF BeginWhenOpen, RunIndependent, Readmit, Resume
  <2>3. (\E detached \in BOOLEAN : Admit(c, detached)) \/ UNCHANGED rootVars
    BY <2>2 DEF Attempt, Place
  <2> QED
    BY <2>3, AdmitCount, SameCount
<1>3. ASSUME NEW c \in Chains, Retain(c) PROVE CountInv'
  BY <1>3, RetainCount
<1>4. ASSUME NEW c \in Chains, NEW d \in Chains \ {c}, Continue(c, d) PROVE CountInv'
  BY <1>4, AdmitCount DEF Continue
<1>5. ASSUME NEW x \in Leases, Release(x) PROVE CountInv'
  BY <1>5, ReleaseCount
<1>6. CASE Reset
  BY <1>6 DEF Reset, CountInv
<1>7. ASSUME NEW c \in Chains, End(c) \/ \E d \in Chains : Fork(c, d) PROVE CountInv'
  BY <1>7, SameCount DEF End, Fork, Place
<1>8. CASE WaitNext \/ MarkRestartDraining \/ SuspendNext \/ SignalNext \/ UNCHANGED vars
  <2>1. UNCHANGED rootVars
    BY <1>8 DEF WaitNext, WaitForActiveRootWork, RootWaitTimeout, RootWaitReturn,
       MarkRestartDraining, SuspendNext, TryBeginSuspend, CommitSuspend, ReopenSuspend,
       SignalNext, BeginRestartSignal, ClearRestartSignalFence, RollbackRestartSignal, vars
  <2> QED
    BY <2>1, SameCount
<1> QED
  BY <1>1, <1>2, <1>3, <1>4, <1>5, <1>6, <1>7, <1>8 DEF Next, WorkNext, RestartRequestNext

\* A root is active exactly until its last lease is released or a reset retires it:
\* its count is the number of its open leases, and never zero while it is active.
THEOREM RootsCounted == Spec => []RootAccounting
<1>1. Init => CountInv
  BY DEF Init, CountInv
<1>2. Inv /\ CountInv => RootAccounting
  <2> SUFFICES ASSUME Inv, CountInv, NEW r \in 1 .. nextRoot - 1
               PROVE  /\ r \in activeRootWork <=> ~root[r].released
                      /\ r \in activeRootWork =>
                           /\ root[r].references = Cardinality(OpenLeases(r))
                           /\ OpenLeases(r) # {}
    BY DEF RootAccounting
  <2>1. r \in activeRootWork => root[r].references >= 1
                                /\ root[r].references = Cardinality(OpenLeases(r))
    BY DEF Inv, RootsInv, CountInv
  <2> QED
    <3>1. Cardinality({}) = 0
      BY FS_EmptySet
    <3>2. r \in activeRootWork <=> ~root[r].released
      BY DEF Inv, RootsInv
    <3>3. r \in activeRootWork => OpenLeases(r) # {}
      BY <2>1, <3>1
    <3> QED
      BY <2>1, <3>2, <3>3
<1> QED
  BY <1>1, <1>2, InitInv, NextInv, NextCount, PTL DEF Spec
=============================================================================
