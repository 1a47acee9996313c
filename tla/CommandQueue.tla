---------------------------- MODULE CommandQueue ----------------------------
(***************************************************************************)
(* The in-process command queue of the gateway                             *)
(* (src/process/command-queue*.ts) with the lane configuration the gateway *)
(* publishes into it (src/gateway/server-lanes.ts).                        *)
(*                                                                         *)
(* A lane is a priority FIFO with a width (maxConcurrent).  The lanes      *)
(* cron-nested and hook-dispatch may form one capacity group that shares   *)
(* the cron budget and reserves slots for hooks.  Every exported function  *)
(* of the module is synchronous, so each is one action here, with the      *)
(* pumping, the sibling drains and the waiter notification it performs.    *)
(* `draining' is TRUE only inside such a call and is not a variable.       *)
(***************************************************************************)
EXTENDS Naturals, Integers, Sequences, FiniteSets

CONSTANTS
  Lanes,            \* lane names
  ScopedLanes,      \* the "session:", "nested:", "context-engine-..." lanes
  CronNested,       \* lane "cron-nested"
  HookDispatch,     \* lane "hook-dispatch"
  CronBudget,       \* resolveCronMaxConcurrentRuns()
  HookReservation,  \* HOOK_DISPATCH_LANE_RESERVATION
  Widths,           \* widths the configuration may give the other fixed lanes
  Priorities,       \* subset of {-1, 0, 1}: background, normal, foreground
  TimeoutChoices,   \* subset of BOOLEAN: does the caller pass taskTimeoutMs?
  Waiters,          \* calls of waitForActiveTasks
  MaxEntries,       \* bound: enqueues
  MaxResets         \* bound: lane resets

ASSUME LanesAssumption ==
  /\ CronNested \in Lanes
  /\ HookDispatch \in Lanes
  /\ CronNested # HookDispatch
  /\ ScopedLanes \subseteq Lanes \ {CronNested, HookDispatch}

ASSUME BudgetAssumption ==
  /\ CronBudget \in Nat
  /\ HookReservation \in Nat
  /\ HookReservation <= CronBudget
  /\ Widths \subseteq Nat

ASSUME BoundsAssumption ==
  /\ MaxEntries \in Nat
  /\ MaxResets \in Nat
  /\ Priorities \subseteq Int
  /\ TimeoutChoices \subseteq BOOLEAN

Entries == 1 .. MaxEntries      \* an entry is named by its queue sequence number
FixedLanes == Lanes \ (ScopedLanes \union {CronNested, HookDispatch})

VARIABLES
  queue,            \* [Lanes -> Seq(Entries)]: entries waiting for a slot
  active,           \* [Lanes -> SUBSET Entries]: activeTaskIds
  maxConcurrent,    \* [Lanes -> Nat]
  generation,       \* [Lanes -> Nat]: resets of the lane so far
  present,          \* lanes that exist in the queue state's lane map
  group,            \* the cron-hooks capacity group
  entry,            \* [Entries -> record]: what is known of each enqueue
  nextSequence,     \* nextQueueSequence
  waiter,           \* [Waiters -> record]: activeTaskWaiters
  restartDraining   \* gateway restart drain: new enqueues are rejected

vars == <<queue, active, maxConcurrent, generation, present, group, entry,
          nextSequence, waiter, restartDraining>>

EntryStates == {"new", "queued", "running", "settled", "cleared"}
Group == [installed : BOOLEAN, reserved : Nat]

NoEntry(e) == entry[e].state = "new"

\* Every variable has its type; in particular the reservation that a
\* publication installs never goes below zero.
TypeOK ==
  /\ queue \in [Lanes -> Seq(Entries)]
  /\ active \in [Lanes -> SUBSET Entries]
  /\ maxConcurrent \in [Lanes -> Nat]
  /\ generation \in [Lanes -> Nat]
  /\ present \subseteq Lanes
  /\ group \in Group
  /\ entry \in [Entries -> [lane : Lanes, priority : Int, timed : BOOLEAN,
                            state : EntryStates, generation : Nat]]
  /\ nextSequence \in 1 .. MaxEntries + 1
  /\ waiter \in [Waiters -> [state : {"idle", "pending", "drained", "expired"},
                             ids : SUBSET Entries]]
  /\ restartDraining \in BOOLEAN

-----------------------------------------------------------------------------
(* Admission: why a lane cannot start one more task.                       *)

Members == {CronNested, HookDispatch}
Sibling(l) == IF l = CronNested THEN HookDispatch ELSE CronNested
Reservation(g, l) == IF l = HookDispatch THEN g.reserved ELSE 0
BorrowableReservation(g, busy, l) == 0            \* mutant of Unused
Unused(g, busy, l) ==
  IF Reservation(g, l) > busy[l] THEN Reservation(g, l) - busy[l] ELSE 0

\* resolveLaneBlockReason; `busy' counts the active tasks of every lane.
BlockReason(width, g, busy, l) ==
  LET groupActive == busy[l] + busy[Sibling(l)] IN
  CASE busy[l] >= width[l] -> "lane"
    [] busy[l] < width[l] /\ ~(g.installed /\ l \in Members) -> "none"
    [] busy[l] < width[l] /\ g.installed /\ l \in Members ->
         IF groupActive >= CronBudget THEN "group-budget"
         ELSE IF \/ busy[l] < Reservation(g, l)
                 \/ groupActive + Unused(g, busy, Sibling(l)) < CronBudget
              THEN "none"
              ELSE "sibling-reservation"

Busy(act) == [l \in Lanes |-> Cardinality(act[l])]

-----------------------------------------------------------------------------
(* Pumping.  A lane table `s' carries what a pump reads and writes.        *)

Table == [queue |-> queue, active |-> active,
          width |-> maxConcurrent, group |-> group]

\* The pump's loop condition is false once it has started n entries.
StopsAt(s, l, n) ==
  \/ n = Len(s.queue[l])
  \/ BlockReason(s.width, s.group,
                 [Busy(s.active) EXCEPT ![l] = @ + n], l) # "none"

Admitted(s, l) ==
  CHOOSE n \in 0 .. Len(s.queue[l]) :
    /\ StopsAt(s, l, n)
    /\ \A k \in 0 .. n - 1 : ~StopsAt(s, l, k)

Drain(s, l) ==
  LET n == Admitted(s, l)
      q == s.queue[l] IN
  [s EXCEPT !.queue[l] = SubSeq(q, n + 1, Len(q)),
            !.active[l] = @ \union {q[i] : i \in 1 .. n}]

LaneLocalDrain(s, l) == s                         \* mutant of DrainSiblings
DrainSiblings(s, l) ==
  IF s.group.installed /\ l \in Members THEN Drain(s, Sibling(l)) ELSE s

\* Every pump ends by removing its lane's state if it is scoped and idle.
Retires(s, l) ==
  /\ l \in ScopedLanes
  /\ s.active[l] = {}
  /\ s.queue[l] = <<>>
  /\ s.width[l] = 1

\* Writes a lane table back; `ent' is the entry table before the pumps, `gen'
\* the generations under which they start tasks.
Install(s, ent, gen) ==
  LET started == {e \in Entries : /\ ent[e].state = "queued"
                                  /\ e \in s.active[ent[e].lane]} IN
  /\ queue' = s.queue
  /\ active' = s.active
  /\ maxConcurrent' = s.width
  /\ group' = s.group
  /\ entry' = [e \in Entries |->
       IF e \in started
       THEN [ent[e] EXCEPT !.state = "running", !.generation = gen[ent[e].lane]]
       ELSE ent[e]]

AllActive(act) == UNION {act[l] : l \in Lanes}

NotifiedNever(remaining) == waiter                \* mutant of Notified

\* notifyActiveTaskWaiters, given the active tasks left after a release.
Notified(remaining) ==
  [w \in Waiters |->
     IF waiter[w].state = "pending" /\ waiter[w].ids \intersect remaining = {}
     THEN [waiter[w] EXCEPT !.state = "drained"]
     ELSE waiter[w]]

-----------------------------------------------------------------------------
(* Operations.                                                             *)

\* `e' goes in front of the first queued entry it outranks.
Outranks(ent, e, f) ==
  \/ ent[f].priority < ent[e].priority
  \/ ent[f].priority = ent[e].priority /\ f > e

InsertEntry(ent, q, e) ==
  LET at == CHOOSE i \in 1 .. Len(q) + 1 :
              /\ i = Len(q) + 1 \/ Outranks(ent, e, q[i])
              /\ \A j \in 1 .. i - 1 : ~Outranks(ent, e, q[j]) IN
  [j \in 1 .. Len(q) + 1 |->
     IF j < at THEN q[j] ELSE IF j = at THEN e ELSE q[j - 1]]

EnqueueCommandInLane(l, p, t) ==
  /\ ~restartDraining
  /\ nextSequence <= MaxEntries
  /\ LET e == nextSequence
         ent == [entry EXCEPT ![e] = [lane |-> l, priority |-> p, timed |-> t,
                                      state |-> "queued", generation |-> 0]]
         s == [Table EXCEPT !.queue[l] = InsertEntry(ent, @, e)]
     IN Install(Drain(s, l), ent, generation)
  /\ nextSequence' = nextSequence + 1
  /\ present' = present \union {l}
  /\ UNCHANGED <<generation, waiter, restartDraining>>

\* The promise of a started entry settles: its task returned, threw or, with a
\* taskTimeoutMs, ran out of budget.  Only a completion of the lane's current
\* generation gives its slot back.
Settle(e) ==
  LET l == entry[e].lane
      ent == [entry EXCEPT ![e].state = "settled"]
      released == [Table EXCEPT !.active[l] = @ \ {e}]
      pumped == Drain(released, l) IN
  /\ entry[e].state = "running"
  /\ IF entry[e].generation = generation[l]
     THEN /\ Install(DrainSiblings(pumped, l), ent, generation)
          /\ waiter' = Notified(AllActive(released.active))
          /\ present' = IF Retires(pumped, l) THEN present \ {l} ELSE present
     ELSE /\ entry' = ent
          /\ UNCHANGED <<queue, active, maxConcurrent, group, waiter, present>>
  /\ UNCHANGED <<generation, nextSequence, restartDraining>>

ClearCommandLane(l) ==
  /\ l \in present
  /\ queue[l] # <<>>
  /\ queue' = [queue EXCEPT ![l] = <<>>]
  /\ entry' = [e \in Entries |->
       IF entry[e].state = "queued" /\ entry[e].lane = l
       THEN [entry[e] EXCEPT !.state = "cleared"] ELSE entry[e]]
  /\ UNCHANGED <<active, maxConcurrent, generation, present, group,
                 nextSequence, waiter, restartDraining>>

\* A reset makes the completions of the tasks it forgets stale.
SameGeneration(l) == generation                   \* mutant of NextGeneration
NextGeneration(l) == [generation EXCEPT ![l] = @ + 1]

ResetCommandLane(l) ==
  LET gen == NextGeneration(l)
      released == [Table EXCEPT !.active[l] = {}]
      s == DrainSiblings(Drain(released, l), l) IN
  /\ l \in present
  /\ generation[l] < MaxResets
  /\ generation' = gen
  /\ Install(s, entry, gen)
  /\ waiter' = Notified(AllActive(s.active))
  /\ UNCHANGED <<present, nextSequence, restartDraining>>

\* resetAllLanes drains in the lane map's insertion order; only the relative
\* order of the two group members matters.
ResetAllLanes(first) ==
  LET gen == [l \in Lanes |-> IF l \in present THEN generation[l] + 1
                                               ELSE generation[l]]
      released == [Table EXCEPT !.active = [l \in Lanes |-> {}]]
      grouped == Drain(Drain(released, first), Sibling(first))
      alone == [l \in Lanes |-> Drain(released, l)]
      s == [grouped EXCEPT
              !.queue = [l \in Lanes |-> IF l \in Members THEN grouped.queue[l]
                                         ELSE alone[l].queue[l]],
              !.active = [l \in Lanes |-> IF l \in Members THEN grouped.active[l]
                                          ELSE alone[l].active[l]]] IN
  /\ \A l \in present : generation[l] < MaxResets
  /\ generation' = gen
  /\ Install(s, entry, gen)
  /\ waiter' = Notified(AllActive(s.active))
  /\ restartDraining' = FALSE
  /\ UNCHANGED <<present, nextSequence>>

MarkGatewayDraining ==
  /\ ~restartDraining
  /\ restartDraining' = TRUE
  /\ UNCHANGED <<queue, active, maxConcurrent, generation, present, group,
                 entry, nextSequence, waiter>>

WaitForActiveTasks(w) ==
  /\ waiter[w].state = "idle"
  /\ waiter' = [waiter EXCEPT ![w] =
       [state |-> IF AllActive(active) = {} THEN "drained" ELSE "pending",
        ids |-> AllActive(active)]]
  /\ UNCHANGED <<queue, active, maxConcurrent, generation, present, group,
                 entry, nextSequence, restartDraining>>

WaiterTimeout(w) ==
  /\ waiter[w].state = "pending"
  /\ waiter' = [waiter EXCEPT ![w].state = "expired"]
  /\ UNCHANGED <<queue, active, maxConcurrent, generation, present, group,
                 entry, nextSequence, restartDraining>>

SetCommandLaneConcurrency(l, width) ==
  LET s == Drain([Table EXCEPT !.width[l] = width], l) IN
  /\ Install(s, entry, generation)
  /\ present' = present \union {l}
  /\ UNCHANGED <<generation, nextSequence, waiter, restartDraining>>

\* A publication that turns hooks off while a hook task runs keeps the group,
\* without its reservation.
ForgetfulGroup(hooks) ==                          \* mutant of PublishedGroup
  [installed |-> hooks, reserved |-> IF hooks THEN HookReservation ELSE 0]
PublishedGroup(hooks) ==
  [installed |-> hooks \/ active[HookDispatch] # {},
   reserved |-> IF hooks THEN HookReservation ELSE 0]

\* applyGatewayLaneConcurrency's publication of the two grouped lanes.
Published(hooks) ==
  [Table EXCEPT
     !.width[CronNested] = CronBudget,
     !.width[HookDispatch] = IF hooks THEN CronBudget ELSE 0,
     !.group = PublishedGroup(hooks)]

PublishLaneConfiguration(hooks) ==
  /\ Install(Drain(Drain(Published(hooks), CronNested), HookDispatch),
             entry, generation)
  /\ present' = present \union Members
  /\ UNCHANGED <<generation, nextSequence, waiter, restartDraining>>

-----------------------------------------------------------------------------
(* The specification.  It starts after the gateway's first publication.    *)

Init ==
  /\ queue = [l \in Lanes |-> <<>>]
  /\ active = [l \in Lanes |-> {}]
  /\ generation = [l \in Lanes |-> 0]
  /\ present = Members
  /\ \E hooks \in BOOLEAN :
       /\ maxConcurrent = [l \in Lanes |->
            IF l = CronNested \/ (l = HookDispatch /\ hooks) THEN CronBudget
            ELSE IF l = HookDispatch THEN 0 ELSE 1]
       /\ group = [installed |-> hooks,
                   reserved |-> IF hooks THEN HookReservation ELSE 0]
  /\ entry \in [Entries -> {[lane |-> CronNested, priority |-> 0,
                             timed |-> FALSE, state |-> "new",
                             generation |-> 0]}]
  /\ nextSequence = 1
  /\ waiter = [w \in Waiters |-> [state |-> "idle", ids |-> {}]]
  /\ restartDraining = FALSE

Next ==
  \/ \E l \in Lanes, p \in Priorities, t \in TimeoutChoices :
       EnqueueCommandInLane(l, p, t)
  \/ \E e \in Entries : Settle(e)
  \/ \E l \in Lanes : ClearCommandLane(l)
  \/ \E l \in Lanes : ResetCommandLane(l)
  \/ \E l \in Members : ResetAllLanes(l)
  \/ MarkGatewayDraining
  \/ \E w \in Waiters : WaitForActiveTasks(w)
  \/ \E w \in Waiters : WaiterTimeout(w)
  \/ \E l \in FixedLanes, width \in Widths : SetCommandLaneConcurrency(l, width)
  \/ \E hooks \in BOOLEAN : PublishLaneConfiguration(hooks)

Spec == Init /\ [][Next]_vars

\* A task with a taskTimeoutMs settles in bounded time whatever it does.  A task
\* runs once, so this is weak fairness of Settle(e) for a timed e.
FairSpec ==
  Spec /\ \A e \in Entries : []<>~(entry[e].state = "running" /\ entry[e].timed)

-----------------------------------------------------------------------------
(* Properties.                                                             *)

\* No call leaves work waiting that could start: after every completion,
\* timeout, reset, enqueue and publication a non-empty lane is blocked by its
\* width, the shared budget or a sibling's reservation.
NoStrandedWork ==
  \A l \in Lanes :
    queue[l] # <<>> =>
      BlockReason(maxConcurrent, group, Busy(active), l) # "none"

\* The slots of a lane are exactly the unsettled tasks it started in its
\* current generation: a reset forgets all of them, a stale task never owns
\* one, and no slot leaks when a task settles.
SlotOwnership ==
  \A l \in Lanes :
    active[l] = {e \in Entries : /\ entry[e].state = "running"
                                 /\ entry[e].lane = l
                                 /\ entry[e].generation = generation[l]}

\* Every accepted entry that has not started or been cleared is waiting in its
\* own lane exactly once: resets preserve queued work, and no pump, clear or
\* reset drops or duplicates it.
QueuedWorkPreserved ==
  \A e \in Entries : \A l \in Lanes :
    Cardinality({i \in DOMAIN queue[l] : queue[l][i] = e})
      = IF entry[e].state = "queued" /\ entry[e].lane = l THEN 1 ELSE 0

\* Every unsettled entry is where its state says and nowhere else, however
\* pumps, stale completions, clears and resets of its lane interleave.
EntriesAccounted == SlotOwnership /\ QueuedWorkPreserved

\* Cron inner work and hook work together never exceed the cron budget, also
\* across publications that turn hooks on and off while hook tasks run.
GroupWithinBudget ==
  Cardinality(active[CronNested]) + Cardinality(active[HookDispatch])
    <= CronBudget

\* A pending waitForActiveTasks call still has a captured task to wait for, so
\* none is left waiting for a notification that no step will send.
NoForgottenWaiter ==
  \A w \in Waiters :
    waiter[w].state = "pending" =>
      waiter[w].ids \intersect AllActive(active) # {}

\* A wait reports drained only when none of the tasks it captured is active.
DrainedMeansDrained ==
  \A w \in Waiters :
    waiter[w].state = "drained" =>
      waiter[w].ids \intersect AllActive(active) = {}

\* waitForActiveTasks returns in time: not before what it waits for has settled
\* or was reset, and never after the last notification has passed.
WaitersServed == NoForgottenWaiter /\ DrainedMeansDrained

\* Capacity left for hooks once the unused reservation is withheld.
ReservationFree ==
  Cardinality(active[CronNested]) <= CronBudget - group.reserved

\* While the published group stands, siblings cannot borrow the hook
\* reservation: once it is free it stays free.
ReservationKept ==
  [][group' = group /\ ReservationFree => ReservationFree']_vars

\* With every task bounded by a timeout, a queued entry leaves its queue or its
\* lane is closed (width 0: hooks are off).
EventuallyDispatched ==
  \A e \in Entries :
    (entry[e].state = "queued") ~>
      (entry[e].state # "queued" \/ maxConcurrent[entry[e].lane] = 0)
=============================================================================
