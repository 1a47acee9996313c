--------------------------- MODULE HeartbeatWake ----------------------------
(***************************************************************************)
(* The heartbeat wake dispatcher (src/infra/heartbeat-wake.ts with         *)
(* heartbeat-wake-target.ts and heartbeat-wake-lifecycle.ts).              *)
(*                                                                         *)
(* Wake requests coalesce per target into at most one task, one scheduled  *)
(* and one event wake.  A single timer dispatches what is ready, a bounded *)
(* number of targets at a time; each target owns one serial turn and the   *)
(* unscoped target excludes all others.  A wake that was refused because   *)
(* of other work is put back with a delay, and a replaced handler hands    *)
(* its unfinished wakes to its successor.                                  *)
(*                                                                         *)
(* Instants are kept as the time that is left until them: Pass lets one    *)
(* unit of time go by.                                                     *)
(***************************************************************************)
EXTENDS Naturals, Sequences, FiniteSets, FiniteSetsExt

CONSTANTS
  Targets,          \* agents and sessions
  Global,           \* GLOBAL_HEARTBEAT_WAKE_TARGET_KEY
  MaxActive,        \* MAX_CONCURRENT_HEARTBEAT_WAKE_TARGETS
  Coalesce,         \* DEFAULT_COALESCE_MS
  Window,           \* bound: the longest coalescing window asked for
  Retry,            \* DEFAULT_RETRY_MS
  Grace,            \* HEARTBEAT_IDLE_RETRY_GRACE_MS
  MaxRequests,      \* bound: requests made
  MaxGenerations,   \* bound: registrations and disposals
  Offers            \* bound: the [target, intent, coalesce] requested

ASSUME DelayAssumption ==
  /\ MaxActive \in Nat \ {0}
  /\ Coalesce \in Nat /\ Window \in Nat /\ Coalesce <= Window
  /\ Retry \in Nat /\ Grace \in Nat
  /\ MaxRequests \in Nat /\ MaxGenerations \in Nat

VARIABLES
  handler,          \* whether a handler is registered
  generation,       \* handlerGeneration
  pending,          \* pendingWakes: a wake for every slot of every target
  blocked,          \* blockedUntilMs of each target
  active,           \* activeWakeTargets, with the wakes of their turn
  timer,            \* the timer, with the delay it was set for
  requested,        \* wakeEnqueueSequence
  settled           \* history: the requests a handler has dealt with

vars == <<handler, generation, pending, blocked, active, timer, requested, settled>>

All == Targets \union {Global}
Slots == {"task", "scheduled", "event"}
Intents == {"task", "scheduled", "event", "immediate"}
Longest == Max({Window, Retry, Grace})
Delay == 0 .. Longest
Requests == 1 .. MaxRequests

\* `sequence' is enqueueSequence, `at' requestedAt (as the number of the
\* request), `barrier' immediateBarrierSequence or 0, `requests' the requests
\* the wake stands for: for tasks, the prompts it carries.
Wake == [intent : Intents, requests : SUBSET Requests, sequence : Requests,
         at : Requests, barrier : 0 .. MaxRequests, ready : Delay,
         notBefore : Delay, retained : BOOLEAN]
NoWake == [intent |-> "none"]
IsWake(w) == w.intent # "none"

\* Targets are named by agents and sessions, the unscoped one by a key that no
\* target has (heartbeat-wake-target.ts).
ASSUME TargetsAssumption == IsFiniteSet(Targets) /\ Global \notin Targets
ASSUME OffersAssumption ==
  Offers \subseteq [target : All, intent : Intents, coalesce : 0 .. Window]

NoTimer == [set |-> FALSE, due |-> 0, delay |-> 0]

Idle == [wakes |-> <<>>, generation |-> 0]
IsActive(t) == active[t].wakes # <<>>
IsStale(t) == active[t].generation # generation
ActiveTargets == {t \in All : IsActive(t)}

\* Every variable has its type; a turn has one or two wakes.
TypeOK ==
  /\ handler \in BOOLEAN /\ generation \in 0 .. MaxGenerations
  /\ pending \in [All -> [Slots -> Wake \union {NoWake}]]
  /\ blocked \in [All -> Delay]
  /\ DOMAIN active = All
  /\ \A t \in All : /\ active[t].generation \in 0 .. generation
                    /\ active[t].wakes \in Seq(Wake) /\ Len(active[t].wakes) <= 2
  /\ timer \in [set : BOOLEAN, due : Delay, delay : Delay]
  /\ requested \in 0 .. MaxRequests
  /\ settled \in SUBSET (1 .. requested)

-----------------------------------------------------------------------------
(* Wakes.                                                                  *)

Slot(intent) == IF intent \in {"task", "scheduled"} THEN intent ELSE "event"

Priority(w) == CASE w.intent = "immediate" -> 3
                 [] w.intent = "scheduled" -> 1
                 [] OTHER -> 2

\* Which of two wakes gives the merged one its intent.
Preferred(p, n) ==
  IF (p.intent = "task") # (n.intent = "task")
  THEN IF p.intent = "task" THEN p ELSE n
  ELSE IF \/ Priority(n) > Priority(p)
          \/ Priority(n) = Priority(p) /\ n.at >= p.at
       THEN n ELSE p

\* A fresh immediate wake is not held back by the retained wake it joins.
Bypasses(w, p, n) ==
  w.intent = "immediate" /\ ~w.retained /\ (p.retained \/ n.retained)

Barrier(p, n) ==
  IF p.barrier = 0 THEN n.barrier
  ELSE IF n.barrier = 0 THEN p.barrier ELSE Min({p.barrier, n.barrier})

\* mergePendingWakeReasons
Merge(p, n) ==
  LET w == Preferred(p, n)
      free == Bypasses(w, p, n)
      guarded == ~free /\ (p.notBefore > 0 \/ n.notBefore > 0)
  IN  [intent |-> w.intent,
       requests |-> p.requests \union n.requests,
       sequence |-> Min({p.sequence, n.sequence}),
       at |-> IF guarded THEN Min({p.at, n.at}) ELSE w.at,
       barrier |-> Barrier(p, n),
       ready |-> Min({p.ready, n.ready}),
       notBefore |-> IF guarded THEN Max({p.notBefore, n.notBefore}) ELSE w.notBefore,
       retained |-> ~free /\ (p.retained \/ n.retained)]

\* queuePendingWakeReason, without the blocking of the target
Queued(p, t, w) ==
  [p EXCEPT ![t][Slot(w.intent)] = IF IsWake(@) THEN Merge(@, w) ELSE w]

Wakes(group) == {group[s] : s \in Slots} \ {NoWake}
HasPending(p) == \E t \in All : Wakes(p[t]) # {}

\* isHeartbeatWakeTargetGroupReady
Due(w) == w.ready = 0 /\ w.notBefore = 0
GroupReady(p, b, t) == b[t] = 0 /\ \E w \in Wakes(p[t]) : Due(w)

\* isHeartbeatWakeAfterGlobalBarrier: an unscoped immediate wake flushes what
\* was requested before it and holds back what was requested after it.
Cutoff(p) ==
  IF p[Global]["event"].intent = "immediate" THEN p[Global]["event"].barrier ELSE 0
NeverAfter(p, t, w) == FALSE                           \* mutant of AfterBarrier
AfterBarrier(p, t, w) ==
  Cutoff(p) # 0 /\ t # Global /\ w.sequence >= Cutoff(p)

-----------------------------------------------------------------------------
(* The timer.                                                              *)

\* schedule: an earlier timer stays
Scheduled(tm, d) ==
  IF tm.set /\ tm.due <= d THEN tm ELSE [set |-> TRUE, due |-> d, delay |-> d]

\* schedulePendingWakes looks at the targets that have no turn and at the wakes
\* no barrier holds back; `a' are the targets that have a turn.
Waiting(p, a) ==
  {x \in (All \ a) \X Slots :
     IsWake(p[x[1]][x[2]]) /\ ~AfterBarrier(p, x[1], p[x[1]][x[2]])}
TimeLeft(p, b, x) ==
  IF b[x[1]] > 0 THEN b[x[1]]
  ELSE Max({p[x[1]][x[2]].ready, p[x[1]][x[2]].notBefore})

\* The active side of a barrier re-arms the timer when it ends.
Deferred(p, b, a) ==
  \/ Cardinality(a) >= MaxActive
  \/ Global \in a
  \/ a # {} /\ GroupReady(p, b, Global)

ReadyScheduled(tm, p, b, a, d) ==                      \* mutant of PendingScheduled
  IF ~Deferred(p, b, a) /\ \E x \in Waiting(p, a) : TimeLeft(p, b, x) = 0
  THEN Scheduled(tm, d) ELSE tm
PendingScheduled(tm, p, b, a, d) ==
  LET left == {TimeLeft(p, b, x) : x \in Waiting(p, a)} IN
  IF Deferred(p, b, a) \/ left = {} THEN tm
  ELSE Scheduled(tm, IF 0 \in left THEN d ELSE Min(left))

-----------------------------------------------------------------------------
(* Requests and registrations.                                             *)

\* requestHeartbeat
RequestHeartbeat(t, intent, coalesce) ==
  LET id == requested + 1
      w == [intent |-> intent, requests |-> {id}, sequence |-> id, at |-> id,
            barrier |-> IF t = Global /\ intent = "immediate" THEN id ELSE 0,
            ready |-> coalesce, notBefore |-> 0, retained |-> FALSE]
  IN  /\ requested < MaxRequests
      /\ requested' = id
      /\ pending' = Queued(pending, t, w)
      /\ timer' = Scheduled(timer, coalesce)
      /\ UNCHANGED <<handler, generation, blocked, active, settled>>

\* clearPendingWakeRetryState
Forgiven(w) ==
  IF IsWake(w) THEN [w EXCEPT !.notBefore = 0, !.retained = FALSE] ELSE w

\* setHeartbeatWakeHandler with a handler.  The turns of the handler it replaces
\* are aborted: they go on until they notice, under their own generation.
Register ==
  /\ generation < MaxGenerations
  /\ generation' = generation + 1
  /\ handler' = TRUE
  /\ pending' = [t \in All |-> [s \in Slots |-> Forgiven(pending[t][s])]]
  /\ blocked' = [t \in All |-> 0]
  /\ timer' = IF HasPending(pending)
              THEN PendingScheduled(NoTimer, pending', blocked', ActiveTargets, Coalesce)
              ELSE NoTimer
  /\ UNCHANGED <<active, requested, settled>>

\* The disposer of the registered handler; a stale disposer does nothing.  The
\* bound leaves room for the handler of the next lifecycle.
Dispose ==
  /\ handler /\ generation + 1 < MaxGenerations
  /\ handler' = FALSE
  /\ generation' = generation + 1
  /\ UNCHANGED <<pending, blocked, active, timer, requested, settled>>

-----------------------------------------------------------------------------
(* Dispatching.                                                            *)

\* Whether an unscoped immediate wake is due: then the coalescing windows of
\* what was requested before it are cut short.
Flushing ==
  LET w == pending[Global]["event"] IN
  /\ w.intent = "immediate" /\ Due(w)
  /\ ~IsActive(Global) /\ blocked[Global] = 0

Takable(t, w) ==
  /\ ~AfterBarrier(pending, t, w)
  /\ Flushing \/ w.ready = 0
  /\ w.notBefore = 0
Ready(t) == {s \in Slots : IsWake(pending[t][s]) /\ Takable(t, pending[t][s])}

\* The targets the batch looks at: a due unscoped wake goes alone, after what
\* it flushes and once no turn is left.
LookedAtAlike ==                                       \* mutant of LookedAt
  {t \in All : ~IsActive(t) /\ blocked[t] = 0 /\ Ready(t) # {}}
LookedAt ==
  LET ready == GroupReady(pending, blocked, Global)
      others == {t \in Targets :
                   ~IsActive(t) /\ blocked[t] = 0 /\ Ready(t) # {}}
      global == {t \in {Global} :
                   ActiveTargets = {} /\ blocked[t] = 0 /\ Ready(t) # {}}
  IN  IF IsActive(Global) \/ (ready /\ ActiveTargets # {}) THEN {}
      ELSE IF ready /\ ~Flushing THEN global
      ELSE IF others # {} THEN others ELSE global

\* The wakes of a turn: a due base heartbeat joins the task or event; of a task
\* and an event, retained and older work goes first.
EventBefore(task, event) ==
  IF event.retained # task.retained THEN event.retained ELSE event.at < task.at
Turn(t) ==
  LET has(s) == s \in Ready(t)
      base(w) == IF has("scheduled") THEN Merge(pending[t]["scheduled"], w) ELSE w
  IN  CASE has("task") /\ has("event") ->
             LET task == base(pending[t]["task"])
                 event == pending[t]["event"]
             IN  IF EventBefore(task, event) THEN <<event, task>> ELSE <<task, event>>
        [] has("task") /\ ~has("event") -> <<base(pending[t]["task"])>>
        [] ~has("task") /\ has("event") -> <<base(pending[t]["event"])>>
        [] OTHER -> <<pending[t]["scheduled"]>>

TakenOneOfTwo(t) ==                                    \* mutant of Taken
  IF {"task", "event"} \subseteq Ready(t) THEN Ready(t) \ {"event"} ELSE Ready(t)
Taken(t) == Ready(t)

FreeSlots == MaxActive - Cardinality(ActiveTargets)

\* The timer's callback: takePendingWakeBatch, then a turn for each group.
TimerFires ==
  /\ timer.set /\ timer.due = 0
  /\ IF ~handler
     THEN /\ timer' = NoTimer
          /\ UNCHANGED <<pending, active>>
     ELSE \E batch \in SUBSET LookedAt :
          /\ Cardinality(batch) = Min({Cardinality(LookedAt), FreeSlots})
          /\ active' = [t \in All |-> IF t \in batch
                                      THEN [wakes |-> Turn(t), generation |-> generation]
                                      ELSE active[t]]
          /\ pending' = [t \in All |-> [s \in Slots |->
               IF t \in batch /\ s \in Taken(t) THEN NoWake ELSE pending[t][s]]]
          /\ timer' = IF HasPending(pending')
                      THEN PendingScheduled(NoTimer, pending', blocked,
                                            ActiveTargets \union batch, timer.delay)
                      ELSE NoTimer
  /\ UNCHANGED <<handler, generation, blocked, requested, settled>>

\* What is put back of a wake: its coalescing window is over.
Again(w, notBefore, retained) ==
  [w EXCEPT !.ready = 0, !.notBefore = notBefore, !.retained = retained]

\* The end of a turn's current wake.  The turn goes on with the rest, or ends;
\* then the target is free, and whatever is pending is scheduled anew.
Continue(t, p, b, tm, dealtWith) ==
  LET rest == Tail(active[t].wakes) IN
  /\ pending' = p
  /\ blocked' = b
  /\ active' = [active EXCEPT ![t] = IF rest = <<>> THEN Idle ELSE [@ EXCEPT !.wakes = rest]]
  /\ timer' = IF rest = <<>> /\ HasPending(p)
              THEN PendingScheduled(tm, p, b, ActiveTargets \ {t}, 0)
              ELSE tm
  /\ settled' = settled \union dealtWith
  /\ UNCHANGED <<handler, generation, requested>>

Running(t) == IsActive(t) /\ ~IsStale(t)
Current(t) == Head(active[t].wakes)

\* The wake ran, or was skipped for a reason no retry follows.
WakeDone(t) ==
  /\ Running(t)
  /\ Continue(t, pending, blocked, timer, Current(t).requests)

\* Preempted, or skipped because requests are in flight: the wake alone waits,
\* for the time the handler gave or a grace period.
WakeDeferred(t, d) ==
  /\ Running(t)
  /\ Continue(t, Queued(pending, t, Again(Current(t), d, TRUE)), blocked,
              Scheduled(timer, d), {})

\* The handler threw, or was busy: the whole target backs off.
WakeBlocked(t, d) ==
  /\ Running(t)
  /\ Continue(t, Queued(pending, t, Again(Current(t), 0, Current(t).retained)),
              [blocked EXCEPT ![t] = Max({@, d})], Scheduled(timer, d), {})

\* A spacing guard refused the wake; real work is retained, a base heartbeat
\* is dropped.
GuardRetains(w) == w.intent # "scheduled"
WakeGuarded(t, d) ==
  /\ Running(t)
  /\ IF GuardRetains(Current(t))
     THEN Continue(t, Queued(pending, t, Again(Current(t), d, TRUE)), blocked,
                   Scheduled(timer, d), {})
     ELSE Continue(t, pending, blocked, timer, Current(t).requests)

\* handOffPendingWakeBatch
HandedOff(p, t, wakes) ==
  CASE Len(wakes) = 0 -> p
    [] Len(wakes) = 1 -> Queued(p, t, wakes[1])
    [] OTHER -> Queued(Queued(p, t, wakes[1]), t, wakes[2])

\* A turn of a replaced handler ends: with its current wake, when the handler
\* still finished it (`done'), or without.
Unfinished(t, done) == IF done THEN Tail(active[t].wakes) ELSE active[t].wakes

StaleTurnEnds(t, done) ==
  LET unfinished == Unfinished(t, done)
      p == HandedOff(pending, t, unfinished)
      tm == IF handler /\ unfinished # <<>>
            THEN PendingScheduled(timer, p, blocked, ActiveTargets, Coalesce)
            ELSE timer
  IN  /\ IsActive(t) /\ IsStale(t)
      /\ pending' = p
      /\ active' = [active EXCEPT ![t] = Idle]
      /\ timer' = IF HasPending(p)
                  THEN PendingScheduled(tm, p, blocked, ActiveTargets \ {t}, 0)
                  ELSE tm
      /\ settled' = IF done THEN settled \union Current(t).requests ELSE settled
      /\ UNCHANGED <<handler, generation, blocked, requested>>

-----------------------------------------------------------------------------

Less(n) == IF n > 0 THEN n - 1 ELSE 0

Pass ==
  /\ \/ timer.set /\ timer.due > 0
     \/ \E t \in All : \/ blocked[t] > 0
                       \/ \E w \in Wakes(pending[t]) : ~Due(w)
  /\ timer' = IF timer.set THEN [timer EXCEPT !.due = Less(@)] ELSE timer
  /\ blocked' = [t \in All |-> Less(blocked[t])]
  /\ pending' = [t \in All |-> [s \in Slots |->
       IF IsWake(pending[t][s])
       THEN [pending[t][s] EXCEPT !.ready = Less(@), !.notBefore = Less(@)]
       ELSE NoWake]]
  /\ UNCHANGED <<handler, generation, active, requested, settled>>

Init ==
  /\ handler = FALSE /\ generation = 0
  /\ pending = [t \in All |-> [s \in Slots |-> NoWake]]
  /\ blocked = [t \in All |-> 0]
  /\ active = [t \in All |-> Idle]
  /\ timer = NoTimer
  /\ requested = 0
  /\ settled = {}

Settles(t) ==
  \/ WakeDone(t)
  \/ \E d \in {Retry, Grace} : WakeDeferred(t, d) \/ WakeBlocked(t, d) \/ WakeGuarded(t, d)
  \/ \E done \in BOOLEAN : StaleTurnEnds(t, done)

Next ==
  \/ \E o \in Offers : RequestHeartbeat(o.target, o.intent, o.coalesce)
  \/ Register \/ Dispose \/ TimerFires \/ Pass
  \/ \E t \in All : Settles(t)

Spec == Init /\ [][Next]_vars

\* Timers fire, turns end, and a wake that keeps being refused is at last
\* accepted; a gateway registers its handler again after it disposed of one.
\* MaxGenerations makes the replacements finite: a gateway that restarts
\* forever need not get anything done.
Fairness ==
  /\ WF_vars(Pass) /\ WF_vars(TimerFires)
  /\ WF_vars(Register /\ ~handler)
  /\ \A t \in All : WF_vars(Settles(t)) /\ SF_vars(WakeDone(t))

FairSpec == Spec /\ Fairness

-----------------------------------------------------------------------------
(* Properties.                                                             *)

\* The unscoped turn runs alone, and never more than MaxActive targets run.
TurnsExclusive ==
  /\ Cardinality(ActiveTargets) <= MaxActive
  /\ IsActive(Global) => ActiveTargets = {Global}

InTurns ==
  (UNION {active[t].wakes[1].requests : t \in ActiveTargets})
  \union (UNION {active[t].wakes[2].requests : t \in {u \in All : Len(active[u].wakes) = 2}})
InGroups == UNION {UNION {w.requests : w \in Wakes(pending[t])} : t \in All}

\* No request is lost: whatever was coalesced, refused, put back or handed to
\* another handler, each one is pending, in a turn, or dealt with.
NoWakeLost == 1 .. requested = InTurns \union InGroups \union settled

\* Where a request waits and where it is worked on: the slots of the targets, and
\* the wakes of their turns.
InSlots(r) == {x \in All \X Slots : /\ IsWake(pending[x[1]][x[2]])
                                    /\ r \in pending[x[1]][x[2]].requests}
InParts(r) == {x \in All \X {1, 2} : /\ x[2] <= Len(active[x[1]].wakes)
                                     /\ r \in active[x[1]].wakes[x[2]].requests}

\* A request is lost nowhere and dealt with once: each one made is in one slot of
\* one target, in one wake of one turn, or dealt with, and never in two of them,
\* whatever was merged, taken, put back or handed over.
DealtWithOnce ==
  /\ NoWakeLost
  /\ \A r \in 1 .. requested :
       /\ \A x, y \in InSlots(r) : x = y
       /\ \A x, y \in InParts(r) : x = y
       /\ InSlots(r) = {} \/ InParts(r) = {}
       /\ r \in settled => InSlots(r) = {} /\ InParts(r) = {}

\* The one timer is never late for a wake that could run: with a handler and a
\* free slot, each pending wake that no turn and no barrier holds back is met
\* by a timer due when the wake is, or within the longest window asked for.
NoLateTimer ==
  handler /\ ~Deferred(pending, blocked, ActiveTargets) =>
    \A x \in Waiting(pending, ActiveTargets) :
      /\ timer.set
      /\ timer.due <= Max({TimeLeft(pending, blocked, x), Window})

\* What was requested for a target after an unscoped immediate wake never
\* starts before it.
BarrierRespected ==
  [][\A t \in Targets :
       ~IsActive(t) /\ IsActive(t)' /\ Cutoff(pending) # 0 =>
         \A i \in DOMAIN active'[t].wakes :
           active'[t].wakes[i].sequence < Cutoff(pending)]_vars

\* Every request is dealt with in the end (MaxRequests bounds how many come): no
\* busy retry, barrier, full set of turns or replaced handler strands one.
EventuallySettled == []<>(settled = 1 .. requested)
=============================================================================
