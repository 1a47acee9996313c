------------------------ MODULE GatewaySuspendProofs ------------------------
(***************************************************************************)
(* TLAPS proofs about GatewaySuspend: the coordinator always owns the      *)
(* fence it closed and the scheduler it paused, it keeps the promise of    *)
(* Suspension, and nothing gets past the fence of a held suspension.       *)
(***************************************************************************)
EXTENDS GatewaySuspend, TLAPS

GateType ==
  [draining : BOOLEAN, signalPending : BOOLEAN, signalGeneration : Nat,
   phase : Admission!Phases, suspendGeneration : Nat]

\* The part of an entry's type that the argument needs: it is a record with
\* these fields, of which only the kind is confined.
IsEntry(e) ==
  e \in [kind : {"none", "held", "recovering"}, lease : {e.lease},
         phase : {e.phase}, request : {e.request}, age : {e.age},
         renewals : {e.renewals}, own : {e.own}, restart : {e.restart}]

\* What makes the ownership inductive: a drain has dropped every suspension,
\* and only a drain leaves a retired entry.
OwnersInv ==
  /\ gate \in GateType
  /\ IsEntry(current) /\ IsEntry(retired)
  /\ paused \in BOOLEAN
  /\ SuspensionOwned
  /\ PauseOwned
  /\ gate.draining => gate.phase = "accepting"
  /\ retired.kind # "none" => gate.draining

USE DEF GateType, Admission!Phases, SuspensionOwned, PauseOwned,
        Admission!HoldsSuspend

\* The absent entry is an entry of kind "none".
LEMMA NoEntryShape == IsEntry(NoEntry) /\ NoEntry.kind = "none"
  BY DEF NoEntry, IsEntry

\* enterSchedulerRecovery keeps the lease and the phase its reopening expects.
LEMMA RecoveringShape ==
  ASSUME NEW e, IsEntry(e)
  PROVE  /\ IsEntry(Recovering(e)) /\ Recovering(e).kind = "recovering"
         /\ Recovering(e).lease = e.lease /\ Recovering(e).phase = e.phase
  BY DEF IsEntry, Recovering

\* Initially nothing is suspended, paused or retired.
LEMMA InitOwners == Init => OwnersInv
<1> SUFFICES ASSUME Init PROVE OwnersInv
  OBVIOUS
<1>1. gate = [draining |-> FALSE, signalPending |-> FALSE, signalGeneration |-> 0,
              phase |-> "accepting", suspendGeneration |-> 0]
  BY DEF Init, Admission!Init
<1>2. current = NoEntry /\ retired = NoEntry /\ paused = FALSE
  BY DEF Init
<1> QED
  BY <1>1, <1>2, NoEntryShape DEF OwnersInv

\* Work, waits and restart signals leave the suspension's side of the gate.
LEMMA WorkOwners ==
  ASSUME OwnersInv, Work
  PROVE  /\ OwnersInv'
         /\ UNCHANGED <<current, retired, paused>> /\ gate'.draining = gate.draining
<1>1. UNCHANGED <<current, retired, paused>>
  BY DEF Work
<1>2. CASE UNCHANGED gate
  BY <1>1, <1>2 DEF OwnersInv
<1>3. ASSUME gate' \in GateType, gate'.phase = gate.phase,
             gate'.suspendGeneration = gate.suspendGeneration,
             gate'.draining = gate.draining
      PROVE  OwnersInv'
  BY <1>1, <1>3 DEF OwnersInv
<1>4. CASE Admission!SignalNext
  <2>1. /\ gate \in GateType
        /\ gate.signalGeneration + 1 \in Nat
    BY DEF OwnersInv
  <2>2. CASE Admission!BeginRestartSignal
    BY <1>1, <1>3, <2>1, <2>2 DEF Admission!BeginRestartSignal
  <2>3. CASE Admission!ClearRestartSignalFence
    BY <1>1, <1>3, <2>1, <2>3 DEF Admission!ClearRestartSignalFence
  <2> QED
    BY <1>4, <2>2, <2>3 DEF Admission!SignalNext, Admission!RollbackRestartSignal
<1>5. CASE Admission!WaitNext
  BY <1>1, <1>2, <1>5 DEF Admission!WaitNext, Admission!WaitForActiveRootWork,
     Admission!RootWaitTimeout, Admission!RootWaitReturn
<1>6. CASE Admission!WorkNext
  BY <1>1, <1>2, <1>6 DEF Admission!WorkNext, Admission!TryBegin,
     Admission!BeginWhenOpen, Admission!RunIndependent, Admission!Readmit,
     Admission!Resume, Admission!End, Admission!Retain, Admission!Continue,
     Admission!Fork, Admission!Release
<1> QED
  BY <1>4, <1>5, <1>6 DEF Work

\* Reopening succeeds as soon as the scheduler comes back: the fence is never
\* lost to the entry that owns it.
LEMMA ReopenResult ==
  ASSUME OwnersInv, current.kind # "none", NEW ok \in BOOLEAN
  PROVE  LET after == ResumeAndReopen(current, ok) IN
         /\ ~gate.draining /\ paused /\ retired.kind = "none"
         /\ ok => after = [gate |-> Reopened(gate), entry |-> NoEntry, paused |-> FALSE]
         /\ ~ok => after = [gate |-> gate, entry |-> Recovering(current), paused |-> TRUE]
         /\ Reopened(gate) \in GateType /\ Reopened(gate).phase = "accepting"
         /\ Reopened(gate).draining = gate.draining
         /\ Reopened(gate).signalPending = gate.signalPending
         /\ Reopened(gate).suspendGeneration = gate.suspendGeneration
         /\ IsEntry(Recovering(current)) /\ Recovering(current).kind = "recovering"
         /\ Recovering(current).lease = current.lease
         /\ Recovering(current).phase = current.phase
<1>1. /\ gate.phase # "accepting" /\ ~gate.draining
      /\ paused = TRUE /\ retired.kind = "none"
      /\ Admission!HoldsSuspend(gate, current.lease, current.phase)
  BY DEF OwnersInv
<1>2. /\ Reopened(gate) \in GateType /\ Reopened(gate).phase = "accepting"
      /\ Reopened(gate).draining = gate.draining
      /\ Reopened(gate).signalPending = gate.signalPending
      /\ Reopened(gate).suspendGeneration = gate.suspendGeneration
  BY DEF OwnersInv, Reopened
<1>3. /\ IsEntry(Recovering(current)) /\ Recovering(current).kind = "recovering"
      /\ Recovering(current).lease = current.lease
      /\ Recovering(current).phase = current.phase
  BY RecoveringShape DEF OwnersInv
<1> QED
  BY <1>1, <1>2, <1>3 DEF ResumeAndReopen

\* A reopening ends the suspension with its pause, or keeps both for the retry.
LEMMA ReopenOwners ==
  ASSUME OwnersInv, current.kind # "none", NEW ok \in BOOLEAN, ReopenCurrent(ok)
  PROVE  /\ OwnersInv'
         /\ \/ current'.kind = "none" /\ paused' = FALSE
            \/ current'.kind = "recovering" /\ paused' = TRUE
         /\ gate'.draining = gate.draining
<1>1. retired' = retired
  BY DEF ReopenCurrent
<1>2. CASE ok
  <2>1. ResumeAndReopen(current, ok)
          = [gate |-> Reopened(gate), entry |-> NoEntry, paused |-> FALSE]
    BY <1>2, ReopenResult
  <2>2. gate' = Reopened(gate) /\ current' = NoEntry /\ paused' = FALSE
    BY <2>1 DEF ReopenCurrent
  <2> QED
    BY <1>1, <1>2, <2>2, ReopenResult, NoEntryShape DEF OwnersInv
<1>3. CASE ~ok
  <2>1. ResumeAndReopen(current, ok)
          = [gate |-> gate, entry |-> Recovering(current), paused |-> TRUE]
    BY <1>3, ReopenResult
  <2>2. gate' = gate /\ current' = Recovering(current) /\ paused' = TRUE
    BY <2>1 DEF ReopenCurrent
  <2> QED
    BY <1>1, <1>3, <2>2, ReopenResult DEF OwnersInv
<1> QED
  BY <1>2, <1>3

-----------------------------------------------------------------------------
(* Preparing.                                                              *)

\* What is left after a preparation or a normalisation fits together: gate,
\* entry and scheduler agree that there is a suspension or that there is none.
Agree(after) ==
  /\ after.gate \in GateType /\ ~after.gate.draining
  /\ IsEntry(after.entry)
  /\ after.entry.kind # "none" <=> after.gate.phase # "accepting"
  /\ after.entry.kind # "none" =>
       Admission!HoldsSuspend(after.gate, after.entry.lease, after.entry.phase)
  /\ after.paused = (after.entry.kind # "none")

\* A fresh preparation commits, rolls back or is left to recovery as a whole.
LEMMA PreparedAgrees ==
  ASSUME NEW g \in GateType, g.phase = "accepting", ~g.draining,
         NEW request, NEW own, NEW quiet \in BOOLEAN, NEW ok \in BOOLEAN
  PROVE  Agree(Prepared(g, request, own, quiet, ok))
<1> DEFINE begun == Admission!SuspendBegun(g)
           entry == [NoEntry EXCEPT !.kind = "held", !.lease = begun.suspendGeneration,
                                    !.request = request, !.own = own]
           after == Prepared(g, request, own, quiet, ok)
<1>1. /\ begun \in GateType /\ begun.phase = "preparing" /\ ~begun.draining
  <2>1. g.suspendGeneration + 1 \in Nat
    OBVIOUS
  <2> QED
    BY <2>1 DEF Admission!SuspendBegun
<1>2. /\ IsEntry(entry) /\ entry.kind = "held"
      /\ entry.lease = begun.suspendGeneration /\ entry.phase = "prepared"
  BY DEF NoEntry, IsEntry
<1> HIDE DEF begun, entry, after
<1>3. ASSUME Idle(own, quiet) PROVE Agree(after)
  <2> DEFINE closed == [begun EXCEPT !.phase = "prepared"]
  <2>1. after = [gate |-> closed, entry |-> entry, paused |-> TRUE]
    BY <1>3 DEF Prepared, after, begun, entry
  <2>2. /\ closed \in GateType /\ closed.phase = "prepared" /\ ~closed.draining
        /\ closed.suspendGeneration = begun.suspendGeneration
    BY <1>1
  <2> HIDE DEF closed
  <2> QED
    BY <1>2, <2>1, <2>2 DEF Agree
<1>4. ASSUME ~Idle(own, quiet), ok PROVE Agree(after)
  <2>1. after = [gate |-> Reopened(begun), entry |-> NoEntry, paused |-> FALSE]
    BY <1>4 DEF Prepared, after, begun
  <2>2. /\ Reopened(begun) \in GateType /\ Reopened(begun).phase = "accepting"
        /\ ~Reopened(begun).draining
    BY <1>1 DEF Reopened
  <2> QED
    BY <2>1, <2>2, NoEntryShape DEF Agree
<1>5. ASSUME ~Idle(own, quiet), ~ok PROVE Agree(after)
  <2> DEFINE kept == [Recovering(entry) EXCEPT !.phase = "preparing"]
  <2>1. after = [gate |-> begun, entry |-> kept, paused |-> TRUE]
    BY <1>5 DEF Prepared, after, begun, entry
  <2>2. /\ IsEntry(Recovering(entry)) /\ Recovering(entry).kind = "recovering"
        /\ Recovering(entry).lease = entry.lease
    BY <1>2, RecoveringShape
  <2>3. /\ IsEntry(kept) /\ kept.kind = "recovering" /\ kept.lease = entry.lease
        /\ kept.phase = "preparing"
    BY <2>2 DEF IsEntry
  <2> HIDE DEF kept
  <2> QED
    BY <1>1, <1>2, <2>1, <2>3 DEF Agree
<1>6. Agree(after)
  BY <1>3, <1>4, <1>5
<1> QED
  BY <1>6 DEF after

\* The state before a preparation agrees, normalised or not.
LEMMA NormalAgrees ==
  ASSUME OwnersInv, NEW resumed \in BOOLEAN,
         \/ current.kind = "none" /\ ~Admission!Closed(gate)
         \/ Expired(current)
  PROVE  Agree(IF current.kind = "held" THEN ResumeAndReopen(current, resumed)
               ELSE [gate |-> gate, entry |-> current, paused |-> paused])
<1> DEFINE normal == IF current.kind = "held" THEN ResumeAndReopen(current, resumed)
                     ELSE [gate |-> gate, entry |-> current, paused |-> paused]
<1>1. ASSUME current.kind = "none" /\ ~Admission!Closed(gate) PROVE Agree(normal)
  BY <1>1 DEF OwnersInv, Agree, Admission!Closed
<1>2. ASSUME Expired(current) PROVE Agree(normal)
  <2>1. current.kind = "held"
    BY <1>2 DEF Expired
  <2>2. CASE resumed
    <3>1. /\ normal = [gate |-> Reopened(gate), entry |-> NoEntry, paused |-> FALSE]
          /\ Reopened(gate) \in GateType /\ Reopened(gate).phase = "accepting"
          /\ ~Reopened(gate).draining
      BY <2>1, <2>2, ReopenResult
    <3> HIDE DEF normal
    <3> QED
      BY <3>1, NoEntryShape DEF Agree
  <2>3. CASE ~resumed
    <3>1. /\ normal = [gate |-> gate, entry |-> Recovering(current), paused |-> TRUE]
          /\ ~gate.draining
          /\ IsEntry(Recovering(current)) /\ Recovering(current).kind = "recovering"
          /\ Recovering(current).lease = current.lease
          /\ Recovering(current).phase = current.phase
      BY <2>1, <2>3, ReopenResult
    <3> HIDE DEF normal
    <3> QED
      BY <2>1, <3>1 DEF Agree, OwnersInv
  <2> QED
    BY <2>2, <2>3
<1> QED
  BY <1>1, <1>2

\* So does a prepare call that first normalises an expired suspension.
LEMMA PrepareOwners ==
  ASSUME OwnersInv, NEW c \in Chains, NEW request \in Requests,
         NEW quiet \in BOOLEAN, NEW resumed \in BOOLEAN, NEW ok \in BOOLEAN,
         PrepareGatewaySuspend(c, request, quiet, resumed, ok)
  PROVE  /\ OwnersInv'
         /\ paused' = (current'.kind # "none")
         /\ ~gate.draining /\ ~gate'.draining
         /\ current.kind \in {"none", "held"}
<1> DEFINE own == OwnRoot(c)
           normal == IF current.kind = "held" THEN ResumeAndReopen(current, resumed)
                     ELSE [gate |-> gate, entry |-> current, paused |-> paused]
           begins == ~Admission!Closed(normal.gate)
           after == IF normal.entry.kind = "none" /\ begins
                    THEN Prepared(normal.gate, request, own, quiet, ok) ELSE normal
<1>1. /\ \/ current.kind = "none" /\ begins
         \/ Expired(current)
      /\ gate' = after.gate /\ current' = after.entry /\ paused' = after.paused
      /\ retired' = retired
  BY DEF PrepareGatewaySuspend
<1>2. \/ current.kind = "none" /\ ~Admission!Closed(gate)
      \/ Expired(current)
  BY <1>1
<1>3. Agree(normal)
  BY <1>2, NormalAgrees
<1>4. /\ ~gate.draining /\ retired.kind = "none"
      /\ current.kind \in {"none", "held"}
  BY <1>2 DEF OwnersInv, Expired, Admission!Closed
<1> HIDE DEF normal
<1>5. Agree(after)
  <2>1. CASE normal.entry.kind = "none" /\ begins
    <3>1. /\ normal.gate \in GateType /\ normal.gate.phase = "accepting"
          /\ ~normal.gate.draining
      BY <1>3, <2>1 DEF Agree
    <3>2. Agree(Prepared(normal.gate, request, own, quiet, ok))
      BY <3>1, PreparedAgrees
    <3> QED
      BY <2>1, <3>2
  <2>2. CASE ~(normal.entry.kind = "none" /\ begins)
    BY <1>3, <2>2
  <2> QED
    BY <2>1, <2>2
<1> HIDE DEF after
<1>6. OwnersInv'
  BY <1>1, <1>4, <1>5 DEF OwnersInv, Agree
<1> QED
  BY <1>1, <1>4, <1>5, <1>6 DEF Agree

-----------------------------------------------------------------------------
(* The other actions.                                                      *)

\* Renewing, ageing and letting a restart request in touch an entry's
\* bookkeeping only.
LEMMA BookkeepingOwners ==
  ASSUME OwnersInv,
         \/ \E request \in Requests : RenewHeldSuspension(request)
         \/ Age
         \/ \E c \in Chains : PreparedRestart(c)
  PROVE  /\ OwnersInv'
         /\ current'.kind = current.kind /\ UNCHANGED <<gate, paused>>
<1>1. /\ UNCHANGED <<gate, retired, paused>>
      /\ current'.kind = current.kind /\ current'.lease = current.lease
      /\ current'.phase = current.phase /\ IsEntry(current')
  BY DEF RenewHeldSuspension, Age, PreparedRestart, OwnersInv, IsEntry,
     admissionVars, Admission!TryBeginPreparedRestart
<1> QED
  BY <1>1 DEF OwnersInv

\* A drain moves the entry to `retired' and its fence out of the way.
LEMMA DrainOwners ==
  ASSUME OwnersInv, MarkRestartDraining
  PROVE  /\ OwnersInv'
         /\ ~gate.draining /\ gate'.draining /\ paused' = paused
<1>1. /\ ~gate.draining /\ paused' = paused
      /\ gate' = Admission!Drained(gate)
  BY DEF MarkRestartDraining, Admission!MarkRestartDraining
<1>2. gate' \in GateType /\ gate'.draining /\ gate'.phase = "accepting"
  <2>1. gate.signalGeneration + 1 \in Nat /\ gate.suspendGeneration + 1 \in Nat
    BY DEF OwnersInv
  <2> DEFINE closed == [gate EXCEPT !.signalPending = FALSE, !.signalGeneration = @ + 1,
                                    !.draining = TRUE]
  <2>2. /\ closed \in GateType /\ closed.draining /\ closed.phase = gate.phase
        /\ closed.suspendGeneration = gate.suspendGeneration
    BY <2>1 DEF OwnersInv
  <2>3. gate' = Admission!Invalidated(closed)
    BY <1>1 DEF Admission!Drained
  <2> HIDE DEF closed
  <2> QED
    BY <2>1, <2>2, <2>3 DEF Admission!Invalidated
<1>3. /\ current'.kind = "none" /\ IsEntry(current') /\ IsEntry(retired')
      /\ retired'.kind = current.kind
  BY NoEntryShape, <1>1 DEF OwnersInv, MarkRestartDraining, Invalidated
<1> QED
  BY <1>1, <1>2, <1>3 DEF OwnersInv

\* The next lifecycle starts with neither suspension nor pause.
LEMMA RestartOwners ==
  ASSUME OwnersInv, LifecycleRestart
  PROVE  /\ OwnersInv'
         /\ gate.draining /\ ~gate'.draining
         /\ paused' = FALSE /\ current'.kind = "none"
<1>1. gate' \in GateType /\ gate'.phase = "accepting" /\ ~gate'.draining
  <2>1. gate.signalGeneration + 1 \in Nat /\ gate.suspendGeneration + 1 \in Nat
    BY DEF OwnersInv
  <2> QED
    BY <2>1 DEF LifecycleRestart, Admission!Reset, OwnersInv
<1>2. current' = NoEntry /\ retired' = NoEntry /\ paused' = FALSE /\ gate.draining
  BY DEF LifecycleRestart
<1> QED
  BY <1>1, <1>2, NoEntryShape DEF OwnersInv

\* Every timer, retry and resume is a reopening of the current entry.
LEMMA ReopeningStep ==
  ASSUME \/ \E ok \in BOOLEAN : ExpiryTimer(ok)
         \/ \E ok \in BOOLEAN : RecoveryRetry(ok)
         \/ \E id \in suspendLeases, ok \in BOOLEAN : ResumeGatewaySuspend(id, ok)
         \/ \E ok \in BOOLEAN : GetGatewaySuspendStatus(ok)
  PROVE  current.kind # "none" /\ \E ok \in BOOLEAN : ReopenCurrent(ok)
  BY DEF ExpiryTimer, RecoveryRetry, ResumeGatewaySuspend, GetGatewaySuspendStatus,
     Expired

\* What a step makes of the invariant and of the abstract state.
LEMMA StepOwners ==
  ASSUME OwnersInv, [Next]_vars
  PROVE  OwnersInv' /\ [Abstract!Next]_(Abstract!vars)
<1> USE DEF Abstract!Next, Abstract!vars, Mode
<1>1. CASE Work
  <2>1. /\ OwnersInv' /\ UNCHANGED <<current, retired, paused>>
        /\ gate'.draining = gate.draining
    BY <1>1, WorkOwners
  <2> QED
    BY <2>1
<1>2. CASE \/ \E request \in Requests : RenewHeldSuspension(request)
           \/ Age
           \/ \E c \in Chains : PreparedRestart(c)
  <2>1. /\ OwnersInv' /\ current'.kind = current.kind /\ UNCHANGED <<gate, paused>>
    BY <1>2, BookkeepingOwners
  <2> QED
    BY <2>1
<1>3. CASE \E c \in Chains, request \in Requests, quiet, resumed, ok \in BOOLEAN :
             PrepareGatewaySuspend(c, request, quiet, resumed, ok)
  <2>1. /\ OwnersInv' /\ paused' = (current'.kind # "none")
        /\ ~gate.draining /\ ~gate'.draining
        /\ current.kind \in {"none", "held"}
    BY <1>3, PrepareOwners
  <2>2. /\ paused = (current.kind # "none")
        /\ current'.kind \in {"none", "held", "recovering"}
    BY <2>1 DEF OwnersInv, IsEntry
  <2> QED
    BY <2>1, <2>2 DEF Abstract!Hold, Abstract!Fail, Abstract!Reopen
<1>4. CASE \/ \E ok \in BOOLEAN : ExpiryTimer(ok)
           \/ \E ok \in BOOLEAN : RecoveryRetry(ok)
           \/ \E id \in suspendLeases, ok \in BOOLEAN : ResumeGatewaySuspend(id, ok)
           \/ \E ok \in BOOLEAN : GetGatewaySuspendStatus(ok)
  <2>1. current.kind # "none" /\ \E ok \in BOOLEAN : ReopenCurrent(ok)
    BY <1>4, ReopeningStep
  <2>2. /\ OwnersInv'
        /\ \/ current'.kind = "none" /\ paused' = FALSE
           \/ current'.kind = "recovering" /\ paused' = TRUE
        /\ gate'.draining = gate.draining
    BY <2>1, ReopenOwners
  <2>3. /\ ~gate.draining /\ paused = TRUE /\ current.kind \in {"held", "recovering"}
    BY <2>1 DEF OwnersInv, IsEntry
  <2> QED
    BY <2>2, <2>3 DEF Abstract!Fail, Abstract!Reopen
<1>5. CASE MarkRestartDraining
  <2>1. /\ OwnersInv' /\ ~gate.draining /\ gate'.draining /\ paused' = paused
    BY <1>5, DrainOwners
  <2>2. current.kind \in {"none", "held", "recovering"}
    BY DEF OwnersInv, IsEntry
  <2> QED
    BY <2>1, <2>2 DEF Abstract!Restart
<1>6. CASE LifecycleRestart
  <2>1. /\ OwnersInv' /\ gate.draining /\ ~gate'.draining
        /\ paused' = FALSE /\ current'.kind = "none"
    BY <1>6, RestartOwners
  <2> QED
    BY <2>1 DEF Abstract!Begin
<1>7. CASE UNCHANGED vars
  BY <1>7 DEF vars, admissionVars, OwnersInv
<1> QED
  BY <1>1, <1>2, <1>3, <1>4, <1>5, <1>6, <1>7 DEF Next

\* The invariant holds in every reachable state.
LEMMA OwnersCorrect == Spec => []OwnersInv
<1>1. OwnersInv /\ [Next]_vars => OwnersInv'
  BY StepOwners
<1> QED
  BY InitOwners, <1>1, PTL DEF Spec

-----------------------------------------------------------------------------

\* The gate is closed for a suspension exactly while the coordinator has an
\* entry whose lease can reopen it, and the scheduler is paused exactly while an
\* entry, current or retired by a drain, remembers to resume it.
THEOREM HeldOwned == Spec => []HeldMeansOwned
<1>1. OwnersInv => HeldMeansOwned
  BY DEF OwnersInv, HeldMeansOwned
<1> QED
  BY <1>1, OwnersCorrect, PTL

\* The coordinator over the work admission implements the suspension contract.
THEOREM Refinement == Spec => ImplementsSuspension
<1>1. Init => Abstract!Init
  BY InitOwners DEF Init, Admission!Init, NoEntry, Abstract!Init, Mode
<1>2. OwnersInv /\ [Next]_vars => [Abstract!Next]_(Abstract!vars)
  BY StepOwners
<1> QED
  BY <1>1, <1>2, OwnersCorrect, PTL DEF Spec, ImplementsSuspension, Abstract!Spec

-----------------------------------------------------------------------------
(* Nothing is admitted behind a prepared fence.  The roots and chains of    *)
(* the admission are typed as loosely as the argument allows: no counting.  *)

RootRecord == [references : Int, released : BOOLEAN, retired : BOOLEAN]
ChainRecord ==
  [state : {"idle", "running", "parked", "woken"}, root : 0 .. MaxRoots,
   detached : BOOLEAN]

\* What is not released is in the active set, and no chain runs under a root
\* that does not exist yet.
RootsOK ==
  /\ nextRoot \in Nat \ {0}
  /\ root \in [1 .. MaxRoots -> RootRecord]
  /\ \A r \in 1 .. MaxRoots : r < nextRoot /\ ~root[r].released => r \in activeRootWork
  /\ chain \in [Chains -> ChainRecord]
  /\ \A c \in Chains : chain[c].root < nextRoot

\* The host holds a prepared fence, or the coordinator retries to reopen it, and no
\* restart request was let in.
Fenced(e) == e.kind # "none" /\ e.phase = "prepared" /\ ~e.restart

\* Behind it only the prepare call's root may be active, and no chain has it: there
\* is no live work that could continue.
QuietInv ==
  Fenced(current) =>
    /\ activeRootWork \subseteq current.own
    /\ current.own \subseteq 1 .. nextRoot - 1
    /\ \A c \in Chains : chain[c].root \notin current.own

\* What a step leaves of it, whatever root the prepare call had.
QuietStep ==
  \A own :
    /\ activeRootWork \subseteq own
    /\ own \subseteq 1 .. nextRoot - 1
    /\ \A c \in Chains : chain[c].root \notin own
    => /\ activeRootWork' \subseteq own
       /\ own \subseteq 1 .. nextRoot' - 1
       /\ \A c \in Chains : chain'[c].root \notin own

USE DEF Admission!Roots, Admission!Leases, Admission!NoRoot, Admission!rootVars

\* The sweep over parked chains changes their states only.
LEMMA WokenChains ==
  ASSUME RootsOK
  PROVE  /\ Admission!Woken \in [Chains -> ChainRecord]
         /\ \A c \in Chains : Admission!Woken[c].root = chain[c].root
  BY DEF RootsOK, ChainRecord, Admission!Woken

\* A new root is active and later than all others.
LEMMA AdmitRoots ==
  ASSUME RootsOK, NEW c \in Chains, NEW detached \in BOOLEAN, Admission!Admit(c, detached)
  PROVE  RootsOK'
<1>1. PICK n : n = nextRoot
  OBVIOUS
<1>2. /\ n \in 1 .. MaxRoots /\ nextRoot' = n + 1
      /\ root' = [root EXCEPT ![n] = [references |-> 1, released |-> FALSE, retired |-> FALSE]]
      /\ activeRootWork' = activeRootWork \union {n}
      /\ chain' = [chain EXCEPT ![c] =
                     [state |-> "running", root |-> n, detached |-> detached]]
  BY <1>1, BoundsAssumption DEF Admission!Admit, RootsOK
<1>3. /\ root' \in [1 .. MaxRoots -> RootRecord]
      /\ \A r \in 1 .. MaxRoots : r # n => root'[r] = root[r]
  BY <1>2 DEF RootsOK, RootRecord
<1>4. /\ chain' \in [Chains -> ChainRecord]
      /\ chain'[c].root = n /\ \A d \in Chains : d # c => chain'[d] = chain[d]
  BY <1>2 DEF RootsOK, ChainRecord
<1>5. \A r \in 1 .. MaxRoots : r < n + 1 /\ ~root'[r].released => r \in activeRootWork \union {n}
  BY <1>1, <1>2, <1>3 DEF RootsOK
<1>6. \A d \in Chains : chain'[d].root < n + 1
  BY <1>1, <1>2, <1>4, BoundsAssumption DEF RootsOK, ChainRecord
<1> QED
  BY <1>2, <1>3, <1>4, <1>5, <1>6 DEF RootsOK

\* A chain that moves under a root that exists.
LEMMA PlaceRoots ==
  ASSUME RootsOK, NEW c \in Chains, NEW state \in {"idle", "running", "parked", "woken"},
         NEW r \in 0 .. MaxRoots, r < nextRoot, NEW detached \in BOOLEAN,
         Admission!Place(c, state, r, detached)
  PROVE  /\ RootsOK' /\ UNCHANGED <<activeRootWork, nextRoot>>
         /\ chain'[c].root = r /\ \A d \in Chains : d # c => chain'[d] = chain[d]
<1>1. UNCHANGED <<root, nextRoot, activeRootWork>>
      /\ chain' = [chain EXCEPT ![c] = [state |-> state, root |-> r, detached |-> detached]]
  BY DEF Admission!Place
<1>2. /\ chain' \in [Chains -> ChainRecord]
      /\ chain'[c].root = r /\ \A d \in Chains : d # c => chain'[d] = chain[d]
  BY <1>1 DEF RootsOK, ChainRecord
<1> QED
  BY <1>1, <1>2 DEF RootsOK

\* A chain that moves stays where it is, inherits a root or has none: it does not
\* get the prepare call's.
LEMMA PlaceQuiet ==
  ASSUME RootsOK, NEW c \in Chains, NEW state \in {"idle", "running", "parked", "woken"},
         NEW r, r = 0 \/ \E d \in Chains : r = chain[d].root, NEW detached \in BOOLEAN,
         Admission!Place(c, state, r, detached)
  PROVE  RootsOK' /\ QuietStep
<1>1. r \in 0 .. MaxRoots /\ r < nextRoot
  BY BoundsAssumption DEF RootsOK, ChainRecord
<1>2. /\ RootsOK' /\ UNCHANGED <<activeRootWork, nextRoot>>
      /\ chain'[c].root = r /\ \A d \in Chains : d # c => chain'[d] = chain[d]
  BY <1>1, PlaceRoots
<1>3. nextRoot \in Nat
  BY DEF RootsOK
<1> QED
  BY <1>2, <1>3 DEF QuietStep

\* A chain with a live root rules out that only the prepare call's root is active.
LEMMA LiveActive ==
  ASSUME RootsOK, NEW c \in Chains, Admission!Live(chain[c].root)
  PROVE  chain[c].root \in activeRootWork /\ QuietStep
<1>1. chain[c].root \in activeRootWork
  BY BoundsAssumption DEF RootsOK, ChainRecord, Admission!Live
<1> QED
  BY <1>1 DEF QuietStep

\* An attempt is let in through an open gate or stays under its root.
LEMMA AttemptQuiet ==
  ASSUME RootsOK, NEW c \in Chains, NEW r, r = 0 \/ r = chain[c].root,
         NEW detached \in BOOLEAN, Admission!Attempt(c, r, detached)
  PROVE  RootsOK' /\ (gate.phase = "prepared" => QuietStep)
<1>1. CASE Admission!Admit(c, detached) /\ ~Admission!Closed(gate)
  BY <1>1, AdmitRoots DEF Admission!Closed
<1>2. CASE \/ Admission!Place(c, "running", r, detached)
           \/ Admission!Place(c, "idle", 0, FALSE)
           \/ Admission!Place(c, "parked", r, detached)
  BY <1>2, PlaceQuiet
<1> QED
  BY <1>1, <1>2 DEF Admission!Attempt

\* A retained continuation counts, no more.
LEMMA RetainQuiet ==
  ASSUME RootsOK, NEW c \in Chains, Admission!Retain(c)
  PROVE  RootsOK' /\ QuietStep
<1>1. PICK r : r = chain[c].root
  OBVIOUS
<1>2. root' = [root EXCEPT ![r].references = @ + 1] /\ r \in 1 .. MaxRoots
      /\ UNCHANGED <<nextRoot, activeRootWork, chain>>
  BY <1>1, BoundsAssumption DEF Admission!Retain, Admission!Live, RootsOK, ChainRecord
<1>3. root' \in [1 .. MaxRoots -> RootRecord]
      /\ \A q \in 1 .. MaxRoots : root'[q].released = root[q].released
  BY <1>2 DEF RootsOK, RootRecord
<1> QED
  BY <1>2, <1>3 DEF RootsOK, QuietStep

\* A release takes a root from the active set when it releases it.
LEMMA ReleaseQuiet ==
  ASSUME RootsOK, NEW x, Admission!Release(x)
  PROVE  RootsOK' /\ QuietStep
<1>1. PICK r, left : r = lease[x].root /\ left = root[r].references - 1
  OBVIOUS
<1>2. /\ UNCHANGED <<nextRoot, chain>>
      /\ \/ /\ root' = [root EXCEPT ![r].references = left]
            /\ activeRootWork' = activeRootWork
         \/ /\ root' = [root EXCEPT ![r].references = left, ![r].released = TRUE]
            /\ activeRootWork' = activeRootWork \ {r}
  BY <1>1 DEF Admission!Release
<1>3. root \in [1 .. MaxRoots -> RootRecord] /\ (r \in 1 .. MaxRoots => left \in Int)
  BY <1>1 DEF RootsOK, RootRecord
<1>4. CASE r \notin 1 .. MaxRoots
  <2>1. root' = root
    <3>1. [root EXCEPT ![r].references = left] = root
      BY <1>3, <1>4
    <3>2. [root EXCEPT ![r].references = left, ![r].released = TRUE] = root
      BY <1>3, <1>4
    <3> QED
      BY <1>2, <3>1, <3>2
  <2> QED
    BY <1>2, <1>4, <2>1 DEF RootsOK, QuietStep
<1>5. CASE /\ r \in 1 .. MaxRoots
           /\ root' = [root EXCEPT ![r].references = left]
           /\ activeRootWork' = activeRootWork
  <2>1. /\ root' \in [1 .. MaxRoots -> RootRecord]
        /\ \A q \in 1 .. MaxRoots : root'[q].released = root[q].released
    BY <1>3, <1>5 DEF RootRecord
  <2> QED
    BY <1>2, <1>5, <2>1 DEF RootsOK, QuietStep
<1>6. CASE /\ r \in 1 .. MaxRoots
           /\ root' = [root EXCEPT ![r].references = left, ![r].released = TRUE]
           /\ activeRootWork' = activeRootWork \ {r}
  <2>1. /\ root' \in [1 .. MaxRoots -> RootRecord] /\ root'[r].released
        /\ \A q \in 1 .. MaxRoots : q # r => root'[q] = root[q]
    <3>1. root' = [root EXCEPT ![r] = [root[r] EXCEPT !.references = left, !.released = TRUE]]
      BY <1>3, <1>6
    <3>2. PICK z : z = [root[r] EXCEPT !.references = left, !.released = TRUE]
      OBVIOUS
    <3>3. z \in RootRecord /\ z.released
      BY <1>3, <1>6, <3>2 DEF RootRecord
    <3>4. root' = [root EXCEPT ![r] = z]
      BY <3>1, <3>2
    <3> QED
      BY <1>3, <1>6, <3>3, <3>4
  <2> QED
    BY <1>2, <1>6, <2>1 DEF RootsOK, QuietStep
<1> QED
  BY <1>2, <1>4, <1>5, <1>6

\* Nothing that works, waits or signals gets past a prepared fence.
LEMMA WorkQuiet ==
  ASSUME RootsOK, Work
  PROVE  RootsOK' /\ (gate.phase = "prepared" => QuietStep)
<1>1. ASSUME NEW c \in Chains, Admission!TryBegin(c)
      PROVE  RootsOK' /\ (gate.phase = "prepared" => QuietStep)
  BY <1>1, AdmitRoots DEF Admission!TryBegin, Admission!Closed
<1>2. ASSUME NEW c \in Chains,
             \/ Admission!BeginWhenOpen(c) \/ Admission!RunIndependent(c)
             \/ Admission!Readmit(c) \/ Admission!Resume(c)
      PROVE  RootsOK' /\ (gate.phase = "prepared" => QuietStep)
  <2>1. chain[c].detached \in BOOLEAN
    BY DEF RootsOK, ChainRecord
  <2>2. \E detached \in BOOLEAN : \/ Admission!Attempt(c, 0, detached)
                                  \/ Admission!Attempt(c, chain[c].root, detached)
    BY <1>2, <2>1 DEF Admission!BeginWhenOpen, Admission!RunIndependent,
       Admission!Readmit, Admission!Resume
  <2> QED
    BY <2>2, AttemptQuiet
<1>3. ASSUME NEW c \in Chains, Admission!End(c) PROVE RootsOK' /\ QuietStep
  BY <1>3, PlaceQuiet DEF Admission!End
<1>4. ASSUME NEW c \in Chains, NEW d \in Chains, Admission!Fork(c, d)
      PROVE  RootsOK' /\ QuietStep
  BY <1>4, PlaceQuiet DEF Admission!Fork
<1>5. ASSUME NEW c \in Chains, NEW d \in Chains, Admission!Continue(c, d)
      PROVE  RootsOK' /\ QuietStep
  BY <1>5, AdmitRoots, LiveActive DEF Admission!Continue, Admission!ParentAlive
<1>6. CASE Admission!WaitNext
  BY <1>6 DEF Admission!WaitNext, Admission!WaitForActiveRootWork,
     Admission!RootWaitTimeout, Admission!RootWaitReturn, RootsOK, QuietStep
<1>7. CASE Admission!SignalNext
  <2>1. UNCHANGED <<root, nextRoot, activeRootWork>>
        /\ (chain' = chain \/ chain' = Admission!Woken)
    BY <1>7 DEF Admission!SignalNext, Admission!BeginRestartSignal,
       Admission!ClearRestartSignalFence, Admission!RollbackRestartSignal
  <2> QED
    BY <2>1, WokenChains DEF RootsOK, QuietStep
<1> QED
  BY <1>1, <1>2, <1>3, <1>4, <1>5, <1>6, <1>7, RetainQuiet, ReleaseQuiet
     DEF Work, Admission!WorkNext

\* An entry that goes over to recovery is the same as far as its fence goes.
LEMMA StillFenced ==
  ASSUME NEW e, IsEntry(e), e.kind # "none"
  PROVE  /\ Fenced(Recovering(e)) => Fenced(e)
         /\ Recovering(e).own = e.own
         /\ ~Fenced(NoEntry)
<1>1. /\ Recovering(e).own = e.own /\ Recovering(e).restart = e.restart
      /\ Recovering(e).phase = e.phase
  BY DEF IsEntry, Recovering
<1>2. ~Fenced(NoEntry)
  BY DEF Fenced, NoEntry
<1> QED
  BY <1>1, <1>2 DEF Fenced

\* A reopening moves the chains at the gate and admits nobody.
LEMMA ReopenQuiet ==
  ASSUME OwnersInv, RootsOK, QuietInv, current.kind # "none", NEW ok \in BOOLEAN,
         ReopenCurrent(ok)
  PROVE  RootsOK' /\ QuietInv'
<1>1. UNCHANGED <<root, nextRoot, activeRootWork>>
      /\ (chain' = chain \/ chain' = Admission!Woken)
  BY DEF ReopenCurrent
<1>2. /\ chain' \in [Chains -> ChainRecord]
      /\ \A c \in Chains : chain'[c].root = chain[c].root
  BY <1>1, WokenChains DEF RootsOK
<1>3. RootsOK'
  BY <1>1, <1>2 DEF RootsOK
<1>4. current' = NoEntry \/ current' = Recovering(current)
  BY ReopenResult DEF ReopenCurrent
<1>5. Fenced(current') => Fenced(current) /\ current'.own = current.own
  BY <1>4, StillFenced DEF OwnersInv
<1> QED
  BY <1>1, <1>2, <1>3, <1>5 DEF QuietInv

\* A prepare call ends under no root: what is active behind the fence that it closes
\* is its own root, which no chain has any more.
LEMMA PrepareQuiet ==
  ASSUME OwnersInv, RootsOK, QuietInv, NEW c \in Chains, NEW request \in Requests,
         NEW quiet \in BOOLEAN, NEW resumed \in BOOLEAN, NEW ok \in BOOLEAN,
         PrepareGatewaySuspend(c, request, quiet, resumed, ok)
  PROVE  RootsOK' /\ QuietInv'
<1> DEFINE own == OwnRoot(c)
           normal == IF current.kind = "held" THEN ResumeAndReopen(current, resumed)
                     ELSE [gate |-> gate, entry |-> current, paused |-> paused]
           begins == ~Admission!Closed(normal.gate)
           fresh == Prepared(normal.gate, request, own, quiet, ok)
<1>1. /\ MayPrepare(c) /\ UNCHANGED <<root, nextRoot, activeRootWork>>
      /\ \/ current.kind = "none" /\ begins
         \/ Expired(current)
      /\ current' = IF normal.entry.kind = "none" /\ begins THEN fresh.entry ELSE normal.entry
  BY DEF PrepareGatewaySuspend
<1>2. /\ chain' \in [Chains -> ChainRecord]
      /\ \A d \in Chains : chain'[d].root = IF d = c THEN 0 ELSE chain[d].root
  <2>1. chain' = [d \in Chains |->
            IF d = c THEN [state |-> "idle", root |-> 0, detached |-> FALSE]
            ELSE IF normal.gate # gate THEN Admission!Woken[d] ELSE chain[d]]
    BY DEF PrepareGatewaySuspend
  <2>2. [state |-> "idle", root |-> 0, detached |-> FALSE] \in ChainRecord
    BY BoundsAssumption DEF ChainRecord
  <2> HIDE DEF normal
  <2>3. \A d \in Chains : /\ Admission!Woken[d] \in ChainRecord /\ chain[d] \in ChainRecord
                          /\ Admission!Woken[d].root = chain[d].root
    BY WokenChains DEF RootsOK
  <2> QED
    BY <2>1, <2>2, <2>3
<1>3. RootsOK'
  BY <1>1, <1>2 DEF RootsOK
<1>4. ASSUME normal.entry.kind = "none" /\ begins, Fenced(current')
      PROVE  /\ activeRootWork \subseteq current'.own
             /\ current'.own \subseteq 1 .. nextRoot - 1
             /\ \A d \in Chains : chain'[d].root \notin current'.own
  <2> HIDE DEF normal, begins
  <2>1. current' = fresh.entry
    BY <1>1, <1>4
  <2>2. Idle(own, quiet) /\ current'.own = own
    BY <1>4, <2>1 DEF Prepared, Fenced, NoEntry, Recovering
  <2>3. activeRootWork \subseteq own
    BY <2>2 DEF Idle
  <2>4. own \subseteq 1 .. nextRoot - 1 /\ \A d \in Chains \ {c} : chain[d].root \notin own
    BY <1>1 DEF MayPrepare, OwnRoot, Admission!Live, RootsOK, ChainRecord
  <2>5. 0 \notin own
    BY <2>4 DEF RootsOK
  <2> QED
    BY <1>2, <2>2, <2>3, <2>4, <2>5
<1>5. CASE ~(normal.entry.kind = "none" /\ begins)
  <2>1. Expired(current) /\ current.kind = "held"
    BY <1>1, <1>5 DEF Expired
  <2>2. current' = NoEntry \/ current' = Recovering(current)
    BY <1>1, <1>5, <2>1, ReopenResult
  <2>3. Fenced(current') => Fenced(current) /\ current'.own = current.own
    BY <2>1, <2>2, StillFenced DEF OwnersInv
  <2>4. Fenced(current) => 0 \notin current.own
    BY DEF QuietInv, RootsOK
  <2> QED
    BY <1>1, <1>2, <1>3, <2>3, <2>4 DEF QuietInv
<1> QED
  BY <1>1, <1>3, <1>4, <1>5 DEF QuietInv

\* Every step keeps the host's quiet.
LEMMA NextQuiet == OwnersInv /\ RootsOK /\ QuietInv /\ [Next]_vars => RootsOK' /\ QuietInv'
<1> SUFFICES ASSUME OwnersInv, RootsOK, QuietInv, [Next]_vars PROVE RootsOK' /\ QuietInv'
  OBVIOUS
<1>1. CASE Work
  <2>1. current' = current
    BY <1>1 DEF Work
  <2>2. Fenced(current) => gate.phase = "prepared"
    BY DEF OwnersInv, Fenced
  <2>3. RootsOK' /\ (gate.phase = "prepared" => QuietStep)
    BY <1>1, WorkQuiet
  <2> QED
    BY <2>1, <2>2, <2>3 DEF QuietInv, QuietStep
<1>2. ASSUME NEW c \in Chains, PreparedRestart(c) PROVE RootsOK' /\ QuietInv'
  <2>1. Admission!Admit(c, FALSE) /\ current' = [current EXCEPT !.restart = TRUE]
    BY <1>2 DEF PreparedRestart, Admission!TryBeginPreparedRestart
  <2>2. ~Fenced(current')
    BY <2>1 DEF OwnersInv, IsEntry, Fenced
  <2> QED
    BY <2>1, <2>2, AdmitRoots DEF QuietInv
<1>3. CASE \E c \in Chains, request \in Requests, quiet, resumed, ok \in BOOLEAN :
             PrepareGatewaySuspend(c, request, quiet, resumed, ok)
  BY <1>3, PrepareQuiet
<1>4. CASE (\E request \in Requests : RenewHeldSuspension(request)) \/ Age
  <2>1. /\ UNCHANGED <<root, nextRoot, activeRootWork, chain>>
        /\ Fenced(current') => Fenced(current)
        /\ current'.own = current.own
    BY <1>4 DEF RenewHeldSuspension, Age, admissionVars, OwnersInv, IsEntry, Fenced
  <2> QED
    BY <2>1 DEF RootsOK, QuietInv
<1>5. CASE \/ \E ok \in BOOLEAN : ExpiryTimer(ok)
           \/ \E ok \in BOOLEAN : RecoveryRetry(ok)
           \/ \E id \in suspendLeases, ok \in BOOLEAN : ResumeGatewaySuspend(id, ok)
           \/ \E ok \in BOOLEAN : GetGatewaySuspendStatus(ok)
  BY <1>5, ReopeningStep, ReopenQuiet
<1>6. CASE MarkRestartDraining
  <2>1. UNCHANGED <<root, nextRoot, activeRootWork>> /\ chain' = Admission!Woken
    BY <1>6 DEF MarkRestartDraining, Admission!MarkRestartDraining
  <2>2. RootsOK'
    BY <2>1, WokenChains DEF RootsOK
  <2>3. current'.kind = "none"
    BY <1>6, NoEntryShape DEF MarkRestartDraining, OwnersInv, Invalidated
  <2> QED
    BY <2>2, <2>3 DEF QuietInv, Fenced
<1>7. CASE LifecycleRestart
  <2>1. /\ root' = Admission!RootsRetired /\ activeRootWork' = {} /\ nextRoot' = nextRoot
        /\ chain' = Admission!Woken /\ current' = NoEntry
    BY <1>7 DEF LifecycleRestart, Admission!Reset
  <2>2. /\ root' \in [1 .. MaxRoots -> RootRecord]
        /\ \A r \in 1 .. MaxRoots : IF r \in activeRootWork THEN root'[r].released
                                    ELSE root'[r] = root[r]
    BY <2>1 DEF Admission!RootsRetired, RootsOK, RootRecord
  <2>3. RootsOK'
    BY <2>1, <2>2, WokenChains DEF RootsOK
  <2> QED
    BY <2>1, <2>3, NoEntryShape DEF QuietInv, Fenced
<1>8. CASE UNCHANGED vars
  BY <1>8 DEF vars, admissionVars, RootsOK, QuietInv
<1> QED
  BY <1>1, <1>2, <1>3, <1>4, <1>5, <1>6, <1>7, <1>8 DEF Next

\* While the host holds a suspension nothing is active but the request that prepared
\* it, until a restart request is let in: no waiter woken earlier and no detached,
\* readmitted or continued chain gets past the fence.
THEOREM HeldIdle == Spec => []ReadyMeansIdle
<1>1. Init => RootsOK /\ QuietInv
  <2> SUFFICES ASSUME Init PROVE RootsOK /\ QuietInv
    OBVIOUS
  <2>1. RootsOK
    BY BoundsAssumption DEF Init, Admission!Init, RootsOK, RootRecord, ChainRecord
  <2> QED
    BY <2>1, NoEntryShape DEF Init, QuietInv, Fenced
<1>2. QuietInv => ReadyMeansIdle
  BY DEF QuietInv, ReadyMeansIdle, Fenced
<1> QED
  BY <1>1, <1>2, OwnersCorrect, NextQuiet, PTL DEF Spec
=============================================================================
