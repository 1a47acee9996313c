------------------------ MODULE HeartbeatWakeProofs -------------------------
(***************************************************************************)
(* TLAPS proofs about HeartbeatWake: the types, that no request is lost or *)
(* dealt with twice, that the unscoped turn runs alone, that its barrier   *)
(* holds, and that the one timer is never late.                            *)
(***************************************************************************)
EXTENDS HeartbeatWake, NaturalsInduction, SequenceTheorems, FiniteSetTheorems, TLAPS

\* The groups of pending wakes, and the timer.
PendingSet == [All -> [Slots -> Wake \union {NoWake}]]
Timer == [set : BOOLEAN, due : Delay, delay : Delay]

-----------------------------------------------------------------------------
(* Numbers and wakes.                                                      *)

\* The smaller of two numbers.
LEMMA MinOfTwo ==
  ASSUME NEW a \in Int, NEW b \in Int
  PROVE  Min({a, b}) = IF a <= b THEN a ELSE b
BY DEF Min

\* The larger of two numbers.
LEMMA MaxOfTwo ==
  ASSUME NEW a \in Int, NEW b \in Int
  PROVE  Max({a, b}) = IF a >= b THEN a ELSE b
BY DEF Max

\* Every delay the dispatcher sets is within the longest one.
LEMMA LongestIsLongest ==
  Longest \in Nat /\ Coalesce \in Delay /\ Window \in Delay /\ Retry \in Delay
    /\ Grace \in Delay /\ 0 \in Delay
<1>1. \E x \in {Window, Retry, Grace} : \A y \in {Window, Retry, Grace} : x >= y
  BY DelayAssumption
<1>2. Longest \in {Window, Retry, Grace} /\ \A y \in {Window, Retry, Grace} : Longest >= y
  BY <1>1 DEF Longest, Max
<1> QED
  BY <1>2, DelayAssumption DEF Delay

\* A merged wake stands for the requests of both, and is as old as one of them
\* (mergePendingWakeReasons).
LEMMA MergeTypes ==
  ASSUME NEW p \in Wake, NEW n \in Wake
  PROVE  /\ Merge(p, n) \in Wake
         /\ Merge(p, n).requests = p.requests \union n.requests
         /\ Merge(p, n).sequence \in {p.sequence, n.sequence}
<1>1. Preferred(p, n) \in {p, n}
  BY DEF Preferred
<1>2. p.sequence \in Int /\ n.sequence \in Int /\ p.at \in Int /\ n.at \in Int
        /\ p.barrier \in Int /\ n.barrier \in Int
      /\ p.ready \in Int /\ n.ready \in Int /\ p.notBefore \in Int /\ n.notBefore \in Int
  BY DelayAssumption, LongestIsLongest DEF Wake, Requests, Delay
<1>3. Min({p.sequence, n.sequence}) \in {p.sequence, n.sequence}
  BY <1>2, MinOfTwo
<1>4. Min({p.at, n.at}) \in Requests
  BY <1>2, MinOfTwo DEF Wake
<1>5. Min({p.ready, n.ready}) \in Delay /\ Max({p.notBefore, n.notBefore}) \in Delay
  BY <1>2, MinOfTwo, MaxOfTwo DEF Wake
<1>6. Barrier(p, n) \in 0 .. MaxRequests
  BY <1>2, MinOfTwo DEF Wake, Barrier
<1>7. Bypasses(Preferred(p, n), p, n) \in BOOLEAN
  BY DEF Bypasses
<1> QED
  BY <1>1, <1>3, <1>4, <1>5, <1>6, <1>7 DEF Merge, Wake

\* A slot holds a wake or nothing.
LEMMA WakeOrNone ==
  ASSUME NEW w \in Wake \union {NoWake}
  PROVE  IsWake(w) <=> w \in Wake
BY DEF IsWake, Wake, NoWake, Intents

\* Where a request is: pending, ...
InGroup(p, r) == \E t \in All, s \in Slots : IsWake(p[t][s]) /\ r \in p[t][s].requests

\* Queueing a wake adds its requests to those pending, and no others.
LEMMA QueuedTypes ==
  ASSUME NEW p \in PendingSet, NEW t \in All, NEW w \in Wake
  PROVE  /\ Queued(p, t, w) \in PendingSet
         /\ \A r : InGroup(Queued(p, t, w), r) <=> InGroup(p, r) \/ r \in w.requests
<1> DEFINE slot == Slot(w.intent)
           old == p[t][slot]
           new == IF IsWake(old) THEN Merge(old, w) ELSE w
<1>1. slot \in Slots
  BY DEF Slot, Slots
<1>2. old \in Wake \union {NoWake}
  BY <1>1 DEF PendingSet
<1>3. new \in Wake /\ IsWake(new)
  BY <1>2, WakeOrNone, MergeTypes
<1>4. \A r : r \in new.requests <=> (IsWake(old) /\ r \in old.requests) \/ r \in w.requests
  BY <1>2, WakeOrNone, MergeTypes
<1>5. Queued(p, t, w) = [p EXCEPT ![t][slot] = new]
  BY DEF Queued
<1> HIDE DEF slot, old, new
<1>6. Queued(p, t, w) \in PendingSet
  BY <1>1, <1>3, <1>5 DEF PendingSet
<1>7. ASSUME NEW u \in All, NEW s \in Slots
      PROVE  Queued(p, t, w)[u][s] = IF u = t /\ s = slot THEN new ELSE p[u][s]
  BY <1>1, <1>5 DEF PendingSet
<1>8. \A r : InGroup(Queued(p, t, w), r) <=> InGroup(p, r) \/ r \in w.requests
  BY <1>1, <1>3, <1>4, <1>7 DEF InGroup, old
<1> QED
  BY <1>6, <1>8

-----------------------------------------------------------------------------
(* The timer.                                                              *)

\* A set of natural numbers has a least one.
LEMMA LeastOf ==
  ASSUME NEW T, T \subseteq Nat, NEW m \in T
  PROVE  Min(T) \in T /\ Min(T) <= m
<1>1. PICK x \in T : \A y \in T : ~(<<y, x>> \in OpToRel(<, Nat))
  BY NatLessThanWellFounded, WFMin, Zenon
<1>2. \A y \in T : ~(y < x)
  BY <1>1 DEF OpToRel
<1>3. \E z \in T : \A y \in T : z <= y
  BY <1>2
<1> QED
  BY <1>3 DEF Min

\* Setting the timer leaves a timer.
LEMMA ScheduledTypes ==
  ASSUME NEW tm \in Timer, NEW d \in Delay
  PROVE  Scheduled(tm, d) \in Timer
BY DEF Timer, Scheduled

\* What is left of a waiting wake is one of the delays.
LEMMA TimeLeftTypes ==
  ASSUME NEW p \in PendingSet, NEW b \in [All -> Delay], NEW a, NEW x \in Waiting(p, a)
  PROVE  TimeLeft(p, b, x) \in Delay
<1>1. x[1] \in All /\ x[2] \in Slots /\ IsWake(p[x[1]][x[2]])
  BY DEF Waiting
<1>2. p[x[1]][x[2]] \in Wake
  BY <1>1, WakeOrNone DEF PendingSet
<1> DEFINE w == p[x[1]][x[2]]
<1>3. w.ready \in Delay /\ w.notBefore \in Delay /\ w.ready \in Int /\ w.notBefore \in Int
  BY <1>2, LongestIsLongest DEF Wake, Delay
<1>4. Max({w.ready, w.notBefore}) \in Delay
  BY <1>3, MaxOfTwo
<1> QED
  BY <1>1, <1>4 DEF TimeLeft

\* Scheduling the pending wakes leaves a timer.
LEMMA PendingScheduledTypes ==
  ASSUME NEW tm \in Timer, NEW p \in PendingSet, NEW b \in [All -> Delay],
         NEW a, NEW d \in Delay
  PROVE  PendingScheduled(tm, p, b, a, d) \in Timer
<1> DEFINE left == {TimeLeft(p, b, x) : x \in Waiting(p, a)}
<1>1. left \subseteq Delay /\ left \subseteq Nat
  BY TimeLeftTypes, LongestIsLongest DEF Delay
<1>2. left # {} => Min(left) \in Delay
  BY <1>1, LeastOf
<1> QED
  BY <1>2, ScheduledTypes DEF PendingScheduled

-----------------------------------------------------------------------------
(* Turns.                                                                  *)

\* ... or in a turn.
InWakes(q, r) == \E i \in 1 .. Len(q) : r \in q[i].requests
InTurn(a, r) == \E t \in All : InWakes(a[t].wakes, r)

\* A turn under way has one or two wakes.
Turns == {q \in Seq(Wake) : Len(q) \in {1, 2}}
ActiveSet == [All -> [wakes : {<<>>} \union Turns, generation : Nat]]

\* The type invariant, with the turns told from the idle targets.
TypeInv ==
  /\ handler \in BOOLEAN /\ generation \in 0 .. MaxGenerations
  /\ pending \in PendingSet
  /\ blocked \in [All -> Delay]
  /\ active \in ActiveSet
  /\ \A t \in All : active[t].generation <= generation
  /\ timer \in Timer
  /\ requested \in 0 .. MaxRequests
  /\ settled \in SUBSET (1 .. requested)

\* A turn of two wakes has the requests of both.
LEMMA PairTypes ==
  ASSUME NEW v \in Wake, NEW w \in Wake
  PROVE  /\ <<v, w>> \in Turns
         /\ \A r : InWakes(<<v, w>>, r) <=> r \in v.requests \/ r \in w.requests
<1>1. <<v, w>> \in Seq(Wake) /\ Len(<<v, w>>) = 2
  OBVIOUS
<1>2. 1 .. 2 = {1, 2}
  OBVIOUS
<1>3. <<v, w>>[1] = v /\ <<v, w>>[2] = w
  OBVIOUS
<1> QED
  BY <1>1, <1>2, <1>3 DEF Turns, InWakes

\* A turn of one wake has its requests.
LEMMA SingleTypes ==
  ASSUME NEW v \in Wake
  PROVE  /\ <<v>> \in Turns
         /\ \A r : InWakes(<<v>>, r) <=> r \in v.requests
         /\ \A i \in 1 .. Len(<<v>>) : <<v>>[i] = v
<1>1. <<v>> \in Seq(Wake) /\ Len(<<v>>) = 1
  OBVIOUS
<1>2. 1 .. 1 = {1}
  OBVIOUS
<1>3. <<v>>[1] = v
  OBVIOUS
<1> QED
  BY <1>1, <1>2, <1>3 DEF Turns, InWakes

\* A turn has the requests of the ready wakes of its target, and no others; the
\* sequence of each of its wakes is that of one it was taken from.
LEMMA TurnTypes ==
  ASSUME TypeInv, NEW t \in All, Ready(t) # {}
  PROVE  /\ Turn(t) \in Turns
         /\ \A r : InWakes(Turn(t), r) <=> \E s \in Ready(t) : r \in pending[t][s].requests
         /\ \A i \in 1 .. Len(Turn(t)) :
              \E s \in Ready(t) : Turn(t)[i].sequence = pending[t][s].sequence
<1> DEFINE task == pending[t]["task"]
           event == pending[t]["event"]
           scheduled == pending[t]["scheduled"]
           base(w) == IF "scheduled" \in Ready(t) THEN Merge(scheduled, w) ELSE w
<1>1. \A s \in Ready(t) : s \in Slots /\ pending[t][s] \in Wake
  BY WakeOrNone DEF Ready, TypeInv, PendingSet
<1>2. \A s \in Ready(t) : s \in {"task", "scheduled", "event"}
  BY <1>1 DEF Slots
<1>3. ASSUME NEW w \in Wake
      PROVE  /\ base(w) \in Wake
             /\ \A r : r \in base(w).requests <=>
                  r \in w.requests \/ ("scheduled" \in Ready(t) /\ r \in scheduled.requests)
             /\ base(w).sequence = w.sequence
                  \/ ("scheduled" \in Ready(t) /\ base(w).sequence = scheduled.sequence)
  BY <1>1, MergeTypes
<1> HIDE DEF base
<1>4. CASE "task" \in Ready(t) /\ "event" \in Ready(t)
  <2>1. task \in Wake /\ event \in Wake /\ base(task) \in Wake
    BY <1>1, <1>3, <1>4
  <2>2. Turn(t) = <<event, base(task)>> \/ Turn(t) = <<base(task), event>>
    BY <1>4 DEF Turn, base
  <2>3. Turn(t) \in Turns
    BY <2>1, <2>2, PairTypes
  <2>4. \A r : InWakes(Turn(t), r) <=> r \in event.requests \/ r \in base(task).requests
    BY <2>1, <2>2, PairTypes
  <2>5. \A r : InWakes(Turn(t), r) <=> \E s \in Ready(t) : r \in pending[t][s].requests
    BY <1>2, <1>3, <1>4, <2>1, <2>4
  <2>6. \A i \in 1 .. Len(Turn(t)) : Turn(t)[i] \in {event, base(task)}
    BY <2>2
  <2> QED
    BY <1>3, <1>4, <2>1, <2>3, <2>5, <2>6
<1>5. CASE "task" \in Ready(t) /\ "event" \notin Ready(t)
  <2>1. task \in Wake /\ base(task) \in Wake
    BY <1>1, <1>3, <1>5
  <2>2. Turn(t) = <<base(task)>>
    BY <1>5 DEF Turn, base
  <2>3. \A r : InWakes(Turn(t), r) <=> r \in base(task).requests
    BY <2>1, <2>2, SingleTypes
  <2>4. \A r : InWakes(Turn(t), r) <=> \E s \in Ready(t) : r \in pending[t][s].requests
    BY <1>2, <1>3, <1>5, <2>1, <2>3
  <2>5. Turn(t) \in Turns /\ \A i \in 1 .. Len(Turn(t)) : Turn(t)[i] = base(task)
    BY <2>1, <2>2, SingleTypes
  <2> QED
    BY <1>3, <1>5, <2>1, <2>4, <2>5
<1>6. CASE "task" \notin Ready(t) /\ "event" \in Ready(t)
  <2>1. event \in Wake /\ base(event) \in Wake
    BY <1>1, <1>3, <1>6
  <2>2. Turn(t) = <<base(event)>>
    BY <1>6 DEF Turn, base
  <2>3. \A r : InWakes(Turn(t), r) <=> r \in base(event).requests
    BY <2>1, <2>2, SingleTypes
  <2>4. \A r : InWakes(Turn(t), r) <=> \E s \in Ready(t) : r \in pending[t][s].requests
    BY <1>2, <1>3, <1>6, <2>1, <2>3
  <2>5. Turn(t) \in Turns /\ \A i \in 1 .. Len(Turn(t)) : Turn(t)[i] = base(event)
    BY <2>1, <2>2, SingleTypes
  <2> QED
    BY <1>3, <1>6, <2>1, <2>4, <2>5
<1>7. CASE "task" \notin Ready(t) /\ "event" \notin Ready(t)
  <2>1. Ready(t) = {"scheduled"}
    BY <1>2, <1>7
  <2>2. Turn(t) = <<scheduled>> /\ scheduled \in Wake
    BY <1>1, <1>7, <2>1 DEF Turn
  <2>3. \A r : InWakes(Turn(t), r) <=> r \in scheduled.requests
    BY <2>2, SingleTypes
  <2>4. Turn(t) \in Turns /\ \A i \in 1 .. Len(Turn(t)) : Turn(t)[i] = scheduled
    BY <2>2, SingleTypes
  <2> QED
    BY <2>1, <2>3, <2>4
<1> QED
  BY <1>4, <1>5, <1>6, <1>7

-----------------------------------------------------------------------------
(* The invariant and its steps.                                            *)

\* NoWakeLost request by request: made means pending, in a turn, or dealt with.
Counted == \A r : InGroup(pending, r) \/ InTurn(active, r) \/ r \in settled
                  <=> r \in 1 .. requested

\* The inductive invariant.
IInv == TypeInv /\ Counted /\ TurnsExclusive

\* The current wake and the rest of a turn have the requests of the turn.
LEMMA TailTypes ==
  ASSUME NEW q \in Turns
  PROVE  /\ Head(q) \in Wake /\ Tail(q) \in {<<>>} \union Turns
         /\ \A r : InWakes(q, r) <=> r \in Head(q).requests \/ InWakes(Tail(q), r)
<1> DEFINE tail == Tail(q)
<1>1. q \in Seq(Wake) /\ Len(q) \in {1, 2} /\ q # <<>>
  BY DEF Turns
<1>2. /\ Head(q) = q[1] /\ Head(q) \in Wake /\ tail \in Seq(Wake)
      /\ Len(tail) = Len(q) - 1 /\ \A i \in 1 .. Len(tail) : tail[i] = q[i + 1]
  BY <1>1, HeadTailProperties
<1> HIDE DEF tail
<1>3. CASE Len(q) = 1
  <2>1. tail = <<>>
    BY <1>2, <1>3, EmptySeq
  <2>2. 1 .. 1 = {1} /\ \A r : ~InWakes(<<>>, r)
    BY DEF InWakes
  <2> QED
    BY <1>2, <1>3, <2>1, <2>2 DEF InWakes, tail
<1>4. CASE Len(q) = 2
  <2>1. Len(tail) = 1
    BY <1>2, <1>4
  <2>2. tail \in Turns
    BY <1>2, <2>1 DEF Turns
  <2>3. 1 .. 2 = {1, 2} /\ 1 .. 1 = {1}
    OBVIOUS
  <2>4. tail[1] = q[2]
    <3>1. 1 \in 1 .. Len(tail)
      BY <2>1
    <3>2. tail[1] = q[1 + 1]
      BY <1>2, <3>1
    <3> QED
      BY <3>2
  <2> QED
    BY <1>2, <1>4, <2>1, <2>2, <2>3, <2>4 DEF InWakes, tail
<1> QED
  BY <1>1, <1>3, <1>4

\* A turn that goes on or ends with its requests put back or dealt with loses none.
LEMMA ContinueStep ==
  ASSUME IInv, NEW t \in All, IsActive(t),
         NEW p \in PendingSet, NEW b \in [All -> Delay], NEW tm \in Timer, NEW dealt,
         Continue(t, p, b, tm, dealt),
         \A r : InGroup(p, r) \/ r \in dealt
                  <=> InGroup(pending, r) \/ r \in Current(t).requests
  PROVE  TypeInv' /\ Counted' /\ ActiveTargets' \subseteq ActiveTargets
<1> DEFINE q == active[t].wakes
<1>1. q \in Turns /\ generation \in Nat
  BY DelayAssumption DEF IInv, TypeInv, ActiveSet, IsActive
<1>2. Head(q) \in Wake /\ Tail(q) \in {<<>>} \union Turns
      /\ \A r : InWakes(q, r) <=> r \in Head(q).requests \/ InWakes(Tail(q), r)
  BY <1>1, TailTypes
<1>3. active'[t].wakes = Tail(q)
  BY DEF Continue, Idle, IInv, TypeInv, ActiveSet
<1>4. \A u \in All \ {t} : active'[u] = active[u]
  BY DEF Continue, IInv, TypeInv, ActiveSet
<1>5. active' \in ActiveSet /\ \A u \in All : active'[u].generation <= generation
  <2>1. active[t].generation \in Nat /\ active \in ActiveSet
    BY DEF IInv, TypeInv, ActiveSet
  <2>2. [active[t] EXCEPT !.wakes = Tail(q)]
          \in [wakes : {<<>>} \union Turns, generation : Nat]
    BY <1>2, <2>1 DEF ActiveSet
  <2>3. Idle \in [wakes : {<<>>} \union Turns, generation : Nat] /\ Idle.generation = 0
    BY DEF Idle
  <2>4. active' = [active EXCEPT ![t] = active'[t]]
          /\ active'[t] \in {Idle, [active[t] EXCEPT !.wakes = Tail(q)]}
    BY <2>1 DEF Continue, ActiveSet
  <2>5. active' \in ActiveSet
    BY <2>1, <2>2, <2>3, <2>4 DEF ActiveSet
  <2>6. active'[t].generation <= generation
    <3>1. active[t].generation <= generation /\ 0 <= generation
      BY <1>1 DEF IInv, TypeInv
    <3>2. [active[t] EXCEPT !.wakes = Tail(q)].generation = active[t].generation
      BY <2>1 DEF ActiveSet
    <3> QED
      BY <2>3, <2>4, <3>1, <3>2
  <2> QED
    BY <1>4, <2>5, <2>6 DEF IInv, TypeInv
<1>6. \A r : InTurn(active, r) <=> r \in Current(t).requests \/ InTurn(active', r)
  BY <1>2, <1>3, <1>4 DEF InTurn, Current
<1>7. \A r : InWakes(<<>>, r) <=> FALSE
  BY DEF InWakes
<1>8. Counted'
  BY <1>6 DEF Continue, Counted, IInv
<1>9. settled' \subseteq 1 .. requested
  BY <1>8 DEF Counted, Continue
<1>10. timer' \in Timer
  BY PendingScheduledTypes, LongestIsLongest DEF Continue
<1>11. ActiveTargets' \subseteq ActiveTargets
  BY <1>4 DEF ActiveTargets, IsActive
<1> QED
  BY <1>5, <1>8, <1>9, <1>10, <1>11 DEF Continue, IInv, TypeInv

\* The ends of a current turn keep the invariant: the wake ran, waits, backs its
\* target off, or meets a spacing guard.
LEMMA SettleSteps ==
  ASSUME IInv, NEW t \in All, NEW d \in {Retry, Grace},
         WakeDone(t) \/ WakeDeferred(t, d) \/ WakeBlocked(t, d) \/ WakeGuarded(t, d)
  PROVE  TypeInv' /\ Counted' /\ ActiveTargets' \subseteq ActiveTargets
<1>1. IsActive(t) /\ d \in Delay
  BY LongestIsLongest DEF WakeDone, WakeDeferred, WakeBlocked, WakeGuarded, Running
<1>2. active[t].wakes \in Turns
  BY <1>1 DEF IInv, TypeInv, ActiveSet, IsActive
<1>3. Current(t) \in Wake
  BY <1>2, TailTypes DEF Current
<1>4. ASSUME NEW e \in Delay, NEW keep \in BOOLEAN
      PROVE  Again(Current(t), e, keep) \in Wake
               /\ Again(Current(t), e, keep).requests = Current(t).requests
  BY <1>3, LongestIsLongest DEF Again, Wake
<1>5. Current(t).retained \in BOOLEAN
  BY <1>3 DEF Wake
<1>6. ASSUME NEW e \in Delay, NEW keep \in BOOLEAN
      PROVE  /\ Queued(pending, t, Again(Current(t), e, keep)) \in PendingSet
             /\ \A r : InGroup(Queued(pending, t, Again(Current(t), e, keep)), r) \/ r \in {}
                         <=> InGroup(pending, r) \/ r \in Current(t).requests
  BY <1>4, QueuedTypes DEF IInv, TypeInv
<1>7. timer \in Timer /\ pending \in PendingSet /\ blocked \in [All -> Delay]
        /\ Scheduled(timer, d) \in Timer
  BY <1>1, ScheduledTypes DEF IInv, TypeInv
<1>8. CASE WakeDone(t)
  BY <1>1, <1>7, <1>8, ContinueStep DEF WakeDone
<1>9. CASE WakeDeferred(t, d)
  BY <1>1, <1>6, <1>7, <1>9, ContinueStep DEF WakeDeferred
<1>10. CASE WakeBlocked(t, d)
  <2>1. blocked[t] \in Delay /\ blocked[t] \in Int /\ d \in Int
    BY <1>1, <1>7, LongestIsLongest DEF Delay
  <2>2. Max({blocked[t], d}) \in Delay
    BY <1>1, <2>1, MaxOfTwo
  <2>3. [blocked EXCEPT ![t] = Max({@, d})] \in [All -> Delay]
    BY <1>7, <2>2
  <2> QED
    BY <1>1, <1>5, <1>6, <1>7, <1>10, <2>3, ContinueStep, LongestIsLongest DEF WakeBlocked
<1>11. CASE WakeGuarded(t, d)
  BY <1>1, <1>6, <1>7, <1>11, ContinueStep DEF WakeGuarded
<1> QED
  BY <1>8, <1>9, <1>10, <1>11

\* A replaced handler's turn hands over the wakes it did not finish.
LEMMA StaleSteps ==
  ASSUME IInv, NEW t \in All, NEW done \in BOOLEAN, StaleTurnEnds(t, done)
  PROVE  TypeInv' /\ Counted' /\ ActiveTargets' \subseteq ActiveTargets
<1> DEFINE q == active[t].wakes
           rest == Unfinished(t, done)
           p == HandedOff(pending, t, rest)
<1>1. q \in Turns /\ generation \in Nat
  BY DelayAssumption DEF IInv, TypeInv, ActiveSet, IsActive, StaleTurnEnds
<1>2. Head(q) \in Wake /\ Tail(q) \in {<<>>} \union Turns
      /\ \A r : InWakes(q, r) <=> r \in Head(q).requests \/ InWakes(Tail(q), r)
  BY <1>1, TailTypes
<1>3. rest \in {<<>>} \union Turns
  BY <1>1, <1>2 DEF Unfinished
<1>4. \A r : InWakes(q, r) <=> InWakes(rest, r) \/ (done /\ r \in Current(t).requests)
  BY <1>2 DEF Unfinished, Current
<1> HIDE DEF rest
<1>5. p \in PendingSet /\ \A r : InGroup(p, r) <=> InGroup(pending, r) \/ InWakes(rest, r)
  <2>1. pending \in PendingSet
    BY DEF IInv, TypeInv
  <2>2. CASE rest = <<>>
    BY <2>1, <2>2 DEF HandedOff, InWakes
  <2>3. CASE rest \in Turns /\ Len(rest) = 1
    <3>1. rest[1] \in Wake /\ 1 .. 1 = {1}
      BY <2>3 DEF Turns
    <3> QED
      BY <2>1, <2>3, <3>1, QueuedTypes DEF HandedOff, InWakes
  <2>4. CASE rest \in Turns /\ Len(rest) = 2
    <3>1. rest[1] \in Wake /\ rest[2] \in Wake /\ 1 .. 2 = {1, 2}
      BY <2>4 DEF Turns
    <3>2. Queued(pending, t, rest[1]) \in PendingSet
      BY <2>1, <3>1, QueuedTypes
    <3> QED
      BY <2>1, <2>4, <3>1, <3>2, QueuedTypes DEF HandedOff, InWakes
  <2> QED
    BY <1>3, <2>2, <2>3, <2>4 DEF Turns
<1>6. pending' = p /\ active' = [active EXCEPT ![t] = Idle]
      /\ settled' = (IF done THEN settled \union Current(t).requests ELSE settled)
      /\ requested' = requested
  BY DEF StaleTurnEnds, rest
<1> HIDE DEF p
<1>7. active'[t].wakes = <<>> /\ \A u \in All \ {t} : active'[u] = active[u]
  BY <1>6 DEF Idle, IInv, TypeInv, ActiveSet
<1>8. \A r : InWakes(<<>>, r) <=> FALSE
  BY DEF InWakes
<1>9. \A r : InTurn(active, r) <=> InWakes(q, r) \/ InTurn(active', r)
  BY <1>7, <1>8 DEF InTurn
<1>10. Counted'
  BY <1>4, <1>5, <1>6, <1>9 DEF Counted, IInv
<1>11. settled' \subseteq 1 .. requested
  BY <1>6, <1>10 DEF Counted
<1>12. active' \in ActiveSet /\ \A u \in All : active'[u].generation <= generation
  BY <1>1, <1>6 DEF Idle, IInv, TypeInv, ActiveSet
<1>13. timer' \in Timer
  <2>1. Coalesce \in Delay /\ 0 \in Delay
    BY LongestIsLongest
  <2>2. timer \in Timer /\ blocked \in [All -> Delay]
    BY DEF IInv, TypeInv
  <2>3. PendingScheduled(timer, p, blocked, ActiveTargets, Coalesce) \in Timer
    BY <1>5, <2>1, <2>2, PendingScheduledTypes
  <2> QED
    BY <1>5, <2>1, <2>2, <2>3, PendingScheduledTypes DEF StaleTurnEnds, p, rest
<1>14. ActiveTargets' \subseteq ActiveTargets
  BY <1>7 DEF ActiveTargets, IsActive
<1> QED
  BY <1>5, <1>6, <1>10, <1>11, <1>12, <1>13, <1>14 DEF StaleTurnEnds, IInv, TypeInv

\* A request is counted once, in the slot it is queued in.
LEMMA RequestStep ==
  ASSUME IInv, NEW o \in Offers, RequestHeartbeat(o.target, o.intent, o.coalesce)
  PROVE  TypeInv' /\ Counted' /\ ActiveTargets' \subseteq ActiveTargets
<1> DEFINE t == o.target
           id == requested + 1
           w == [intent |-> o.intent, requests |-> {id}, sequence |-> id, at |-> id,
                 barrier |-> IF t = Global /\ o.intent = "immediate" THEN id ELSE 0,
                 ready |-> o.coalesce, notBefore |-> 0, retained |-> FALSE]
<1>1. t \in All /\ o.intent \in Intents /\ o.coalesce \in Delay
  BY OffersAssumption, LongestIsLongest, DelayAssumption DEF Delay
<1>2. id \in Requests /\ id \in 0 .. MaxRequests /\ requested \in Nat
  BY DelayAssumption DEF RequestHeartbeat, Requests, IInv, TypeInv
<1>3. w \in Wake
  BY <1>1, <1>2, LongestIsLongest, DelayAssumption DEF Wake
<1>4. pending' = Queued(pending, t, w) /\ requested' = id
        /\ timer' = Scheduled(timer, o.coalesce)
      /\ UNCHANGED <<handler, generation, blocked, active, settled>>
  BY DEF RequestHeartbeat
<1>5. w.requests = {id}
  OBVIOUS
<1> HIDE DEF w
<1>6. /\ pending' \in PendingSet
      /\ \A r : InGroup(pending', r) <=> InGroup(pending, r) \/ r = id
  BY <1>1, <1>3, <1>4, <1>5, QueuedTypes DEF IInv, TypeInv
<1>7. timer' \in Timer
  BY <1>1, <1>4, ScheduledTypes DEF IInv, TypeInv
<1>8. 1 .. id = (1 .. requested) \union {id}
  BY <1>2
<1>9. Counted'
  BY <1>4, <1>6, <1>8 DEF Counted, IInv
<1>10. settled' \in SUBSET (1 .. requested')
  BY <1>4, <1>8 DEF IInv, TypeInv
<1>11. ActiveTargets' \subseteq ActiveTargets
  BY <1>4 DEF ActiveTargets, IsActive
<1> QED
  BY <1>2, <1>4, <1>6, <1>7, <1>9, <1>10, <1>11 DEF IInv, TypeInv

\* The content of a slot.
LEMMA SlotTypes ==
  ASSUME TypeInv, NEW t \in All, NEW s \in Slots
  PROVE  pending[t][s] \in Wake \union {NoWake}
BY DEF TypeInv, PendingSet

\* A new handler forgives retries and drops no request.
LEMMA RegisterStep ==
  ASSUME IInv, Register
  PROVE  TypeInv' /\ Counted' /\ ActiveTargets' \subseteq ActiveTargets
<1>1. ASSUME NEW t \in All, NEW s \in Slots
      PROVE  /\ Forgiven(pending[t][s]) \in Wake \union {NoWake}
             /\ IsWake(Forgiven(pending[t][s])) <=> IsWake(pending[t][s])
             /\ IsWake(pending[t][s]) =>
                  Forgiven(pending[t][s]).requests = pending[t][s].requests
  <2>1. pending[t][s] \in Wake \union {NoWake}
    BY <1>1, SlotTypes DEF IInv
  <2>2. CASE IsWake(pending[t][s])
    <3>1. pending[t][s] \in Wake
      BY <2>1, <2>2, WakeOrNone
    <3>2. Forgiven(pending[t][s]) \in Wake
            /\ Forgiven(pending[t][s]).requests = pending[t][s].requests
      BY <2>2, <3>1, LongestIsLongest DEF Forgiven, Wake
    <3> QED
      BY <2>2, <3>2, WakeOrNone
  <2>3. CASE ~IsWake(pending[t][s])
    BY <2>1, <2>3 DEF Forgiven
  <2> QED
    BY <2>2, <2>3
<1>2. pending' \in PendingSet
  BY <1>1 DEF Register, PendingSet
<1>3. \A r : InGroup(pending', r) <=> InGroup(pending, r)
  BY <1>1 DEF Register, InGroup
<1>4. Counted'
  BY <1>3 DEF Counted, IInv, Register
<1>5. blocked' \in [All -> Delay]
  BY LongestIsLongest DEF Register
<1>6. NoTimer \in Timer /\ Coalesce \in Delay
  BY LongestIsLongest DEF NoTimer, Timer
<1>7. timer' \in Timer
  BY <1>2, <1>5, <1>6, PendingScheduledTypes DEF Register
<1>8. generation' \in 0 .. MaxGenerations
        /\ \A t \in All : active'[t].generation <= generation'
  BY DelayAssumption DEF Register, IInv, TypeInv, ActiveSet
<1>9. ActiveTargets' \subseteq ActiveTargets
  BY DEF Register, ActiveTargets, IsActive
<1> QED
  BY <1>2, <1>4, <1>5, <1>7, <1>8, <1>9 DEF Register, IInv, TypeInv

\* Disposing of the handler drops no request.
LEMMA DisposeStep ==
  ASSUME IInv, Dispose
  PROVE  TypeInv' /\ Counted' /\ ActiveTargets' \subseteq ActiveTargets
<1>1. generation' \in 0 .. MaxGenerations
        /\ \A t \in All : active'[t].generation <= generation'
  BY DelayAssumption DEF Dispose, IInv, TypeInv, ActiveSet
<1> QED
  BY <1>1 DEF Dispose, IInv, TypeInv, Counted, ActiveTargets, IsActive

\* Time drops no request.
LEMMA PassStep ==
  ASSUME IInv, Pass
  PROVE  TypeInv' /\ Counted' /\ ActiveTargets' \subseteq ActiveTargets
<1>0. \A n \in Delay : Less(n) \in Delay
  BY LongestIsLongest DEF Less, Delay
<1> DEFINE Aged(w) == [w EXCEPT !.ready = Less(@), !.notBefore = Less(@)]
<1>1. ASSUME NEW t \in All, NEW s \in Slots
      PROVE  /\ pending'[t][s] \in Wake \union {NoWake}
             /\ IsWake(pending'[t][s]) <=> IsWake(pending[t][s])
             /\ IsWake(pending[t][s]) => pending'[t][s].requests = pending[t][s].requests
  <2>1. pending[t][s] \in Wake \union {NoWake}
    BY <1>1, SlotTypes DEF IInv
  <2>2. CASE IsWake(pending[t][s])
    <3>1. pending[t][s] \in Wake
      BY <2>1, <2>2, WakeOrNone
    <3>2. Aged(pending[t][s]) \in Wake
            /\ Aged(pending[t][s]).requests = pending[t][s].requests
      BY <1>0, <3>1 DEF Wake
    <3>3. pending'[t][s] = Aged(pending[t][s])
      BY <2>2 DEF Pass
    <3> QED
      BY <2>2, <3>2, <3>3, WakeOrNone
  <2>3. CASE ~IsWake(pending[t][s])
    <3>1. pending'[t][s] = NoWake
      BY <2>3 DEF Pass
    <3> QED
      BY <2>3, <3>1 DEF NoWake, IsWake
  <2> QED
    BY <2>2, <2>3
<1>2. pending' \in PendingSet
  <2>1. pending' = [t \in All |-> [s \in Slots |-> pending'[t][s]]]
    BY DEF Pass
  <2> QED
    BY <1>1, <2>1 DEF PendingSet
<1>3. \A r : InGroup(pending', r) <=> InGroup(pending, r)
  BY <1>1 DEF InGroup
<1>4. Counted'
  BY <1>3 DEF Counted, IInv, Pass
<1>5. blocked' \in [All -> Delay]
  BY <1>0 DEF Pass, IInv, TypeInv
<1>6. timer' \in Timer
  BY <1>0 DEF Pass, IInv, TypeInv, Timer
<1> QED
  BY <1>2, <1>4, <1>5, <1>6 DEF Pass, IInv, TypeInv, ActiveTargets, IsActive

\* A batch is drawn from idle targets with a ready wake, and the unscoped target is
\* looked at only alone.
LEMMA LookedAtProperties ==
  /\ LookedAt \subseteq {t \in All : ~IsActive(t) /\ Ready(t) # {}}
  /\ LookedAt # {} => ~IsActive(Global)
  /\ Global \in LookedAt => LookedAt = {Global} /\ ActiveTargets = {}
<1>1. Global \notin Targets
  BY TargetsAssumption
<1> QED
  BY <1>1 DEF LookedAt, ActiveTargets, All

\* What a firing timer takes: a batch of idle targets that fits the free slots.
LEMMA BatchTaken ==
  ASSUME IInv, TimerFires, handler
  PROVE  \E batch \in SUBSET LookedAt :
           /\ Cardinality(batch) = Min({Cardinality(LookedAt), FreeSlots})
           /\ active' = [t \in All |-> IF t \in batch
                                       THEN [wakes |-> Turn(t), generation |-> generation]
                                       ELSE active[t]]
           /\ pending' = [t \in All |-> [s \in Slots |->
                IF t \in batch /\ s \in Taken(t) THEN NoWake ELSE pending[t][s]]]
           /\ timer' = IF HasPending(pending')
                       THEN PendingScheduled(NoTimer, pending', blocked,
                                             ActiveTargets \union batch, timer.delay)
                       ELSE NoTimer
           /\ ActiveTargets' = ActiveTargets \union batch
           /\ ActiveTargets \intersect batch = {}
           /\ IsFiniteSet(ActiveTargets) /\ IsFiniteSet(LookedAt) /\ IsFiniteSet(batch)
           /\ Cardinality(ActiveTargets \union batch)
                = Cardinality(ActiveTargets) + Cardinality(batch)
<1>1. PICK batch \in SUBSET LookedAt :
        /\ Cardinality(batch) = Min({Cardinality(LookedAt), FreeSlots})
        /\ active' = [t \in All |-> IF t \in batch
                                    THEN [wakes |-> Turn(t), generation |-> generation]
                                    ELSE active[t]]
        /\ pending' = [t \in All |-> [s \in Slots |->
             IF t \in batch /\ s \in Taken(t) THEN NoWake ELSE pending[t][s]]]
        /\ timer' = IF HasPending(pending')
                    THEN PendingScheduled(NoTimer, pending', blocked,
                                          ActiveTargets \union batch, timer.delay)
                    ELSE NoTimer
  BY DEF TimerFires
<1>2. \A t \in batch : t \in All /\ ~IsActive(t) /\ Ready(t) # {}
  BY LookedAtProperties
<1>3. \A t \in batch : Turn(t) \in Turns
  BY <1>2, TurnTypes DEF IInv
<1>4. ActiveTargets' = ActiveTargets \union batch
  <2>1. <<>> \notin Turns
    BY EmptySeq DEF Turns
  <2>2. \A t \in All : active'[t].wakes = IF t \in batch THEN Turn(t) ELSE active[t].wakes
    BY <1>1
  <2>3. \A t \in All : IsActive(t)' <=> IsActive(t) \/ t \in batch
    BY <1>2, <1>3, <2>1, <2>2 DEF IsActive
  <2> QED
    BY <1>2, <2>3 DEF ActiveTargets
<1>5. ActiveTargets \intersect batch = {}
  BY <1>2 DEF ActiveTargets
<1>6. IsFiniteSet(ActiveTargets) /\ IsFiniteSet(LookedAt) /\ IsFiniteSet(batch)
  <2>1. IsFiniteSet(All)
    BY TargetsAssumption, FS_AddElement DEF All
  <2>2. IsFiniteSet(ActiveTargets) /\ IsFiniteSet(LookedAt)
    BY <2>1, FS_Subset, LookedAtProperties DEF ActiveTargets
  <2> QED
    BY <2>2, FS_Subset
<1>7. Cardinality(ActiveTargets \union batch)
        = Cardinality(ActiveTargets) + Cardinality(batch)
  <2>1. Cardinality(ActiveTargets \union batch)
          = Cardinality(ActiveTargets) + Cardinality(batch)
            - Cardinality(ActiveTargets \intersect batch)
    BY <1>6, FS_Union
  <2>2. Cardinality(ActiveTargets \intersect batch) = 0
    BY <1>5, FS_EmptySet
  <2> QED
    BY <1>6, <2>1, <2>2, FS_CardinalityType
<1> QED
  BY <1>1, <1>4, <1>5, <1>6, <1>7

\* The wakes of a batch move from the groups to the turns of its targets.
LEMMA FiringStep ==
  ASSUME IInv, TimerFires, handler
  PROVE  /\ TypeInv' /\ Counted' /\ TurnsExclusive'
         /\ \A t \in All : ~IsActive(t) /\ IsActive(t)'
              => active'[t].wakes = Turn(t) /\ Ready(t) # {}
<1>1. PICK batch \in SUBSET LookedAt :
        /\ Cardinality(batch) = Min({Cardinality(LookedAt), FreeSlots})
        /\ active' = [t \in All |-> IF t \in batch
                                    THEN [wakes |-> Turn(t), generation |-> generation]
                                    ELSE active[t]]
        /\ pending' = [t \in All |-> [s \in Slots |->
             IF t \in batch /\ s \in Taken(t) THEN NoWake ELSE pending[t][s]]]
        /\ timer' = IF HasPending(pending')
                    THEN PendingScheduled(NoTimer, pending', blocked,
                                          ActiveTargets \union batch, timer.delay)
                    ELSE NoTimer
        /\ ActiveTargets' = ActiveTargets \union batch
        /\ IsFiniteSet(ActiveTargets) /\ IsFiniteSet(LookedAt) /\ IsFiniteSet(batch)
        /\ Cardinality(ActiveTargets \union batch)
             = Cardinality(ActiveTargets) + Cardinality(batch)
  BY BatchTaken
<1>2. UNCHANGED <<handler, generation, blocked, requested, settled>>
  BY DEF TimerFires
<1>3. \A t \in batch : t \in All /\ ~IsActive(t) /\ Ready(t) # {}
  BY LookedAtProperties
<1>4. ASSUME NEW t \in batch
      PROVE  /\ Turn(t) \in Turns
             /\ \A r : InWakes(Turn(t), r) <=> \E s \in Ready(t) : r \in pending[t][s].requests
  BY <1>3, TurnTypes DEF IInv
<1>5. generation \in Nat
  BY DelayAssumption DEF IInv, TypeInv
<1>6. active' \in ActiveSet /\ \A t \in All : active'[t].generation <= generation
  <2>1. \A t \in batch : [wakes |-> Turn(t), generation |-> generation]
          \in [wakes : {<<>>} \union Turns, generation : Nat]
    BY <1>4, <1>5
  <2> QED
    BY <1>1, <1>5, <2>1 DEF IInv, TypeInv, ActiveSet
<1>7. pending' \in PendingSet
  BY <1>1 DEF IInv, TypeInv, PendingSet
<1>8. timer' \in Timer
  BY <1>1, <1>7, PendingScheduledTypes, LongestIsLongest DEF NoTimer, Timer, IInv, TypeInv
<1>9. \A s \in Slots : \A t \in All : s \in Ready(t) => IsWake(pending[t][s])
  BY DEF Ready
<1>10. \A r : InGroup(pending', r) \/ InTurn(active', r)
         <=> InGroup(pending, r) \/ InTurn(active, r)
  <2> TAKE r
  <2>1. ASSUME InGroup(pending, r) PROVE InGroup(pending', r) \/ InTurn(active', r)
    <3>1. PICK t \in All, s \in Slots :
             IsWake(pending[t][s]) /\ r \in pending[t][s].requests
      BY <2>1 DEF InGroup
    <3>2. CASE t \in batch /\ s \in Ready(t)
      BY <1>1, <1>4, <3>1, <3>2 DEF InTurn
    <3>3. CASE ~(t \in batch /\ s \in Ready(t))
      <4>1. pending'[t][s] = pending[t][s]
        BY <1>1, <3>3 DEF Taken
      <4> QED
        BY <3>1, <4>1 DEF InGroup
    <3> QED
      BY <3>2, <3>3
  <2>2. ASSUME InTurn(active, r) PROVE InTurn(active', r)
    <3>1. PICK t \in All : InWakes(active[t].wakes, r)
      BY <2>2 DEF InTurn
    <3>2. t \notin batch
      BY <1>3, <3>1 DEF IsActive, InWakes
    <3> QED
      BY <1>1, <3>1, <3>2 DEF InTurn
  <2>3. ASSUME InGroup(pending', r) PROVE InGroup(pending, r)
    <3>1. PICK t \in All, s \in Slots :
             IsWake(pending'[t][s]) /\ r \in pending'[t][s].requests
      BY <2>3 DEF InGroup
    <3>2. pending'[t][s] = pending[t][s]
      BY <1>1, <3>1 DEF NoWake, IsWake
    <3> QED
      BY <3>1, <3>2 DEF InGroup
  <2>4. ASSUME InTurn(active', r) PROVE InGroup(pending, r) \/ InTurn(active, r)
    <3>1. PICK t \in All : InWakes(active'[t].wakes, r)
      BY <2>4 DEF InTurn
    <3>2. CASE t \in batch
      <4>1. PICK s \in Ready(t) : r \in pending[t][s].requests
        BY <1>1, <1>4, <3>1, <3>2
      <4> QED
        BY <4>1 DEF InGroup, Ready
    <3>3. CASE t \notin batch
      BY <1>1, <3>1, <3>3 DEF InTurn
    <3> QED
      BY <3>2, <3>3
  <2> QED
    BY <2>1, <2>2, <2>3, <2>4
<1>11. Counted'
  BY <1>2, <1>10 DEF Counted, IInv
<1>12. ActiveTargets' = ActiveTargets \union batch
  BY <1>1
<1>13. TurnsExclusive'
  <2>1. Cardinality(ActiveTargets) \in Nat /\ Cardinality(LookedAt) \in Nat
        /\ Cardinality(batch) \in Nat
    BY <1>1, FS_CardinalityType
  <2>2. Cardinality(batch) <= MaxActive - Cardinality(ActiveTargets)
    <3>1. FreeSlots \in Int
      BY <2>1, DelayAssumption DEF FreeSlots
    <3> QED
      BY <1>1, <2>1, <3>1, MinOfTwo DEF FreeSlots
  <2>3. Cardinality(ActiveTargets \union batch) <= MaxActive
    BY <1>1, <2>1, <2>2, DelayAssumption
  <2>4. ASSUME IsActive(Global)' PROVE ActiveTargets' = {Global}
    <3>1. Global \in ActiveTargets \union batch
      BY <1>12, <2>4 DEF ActiveTargets, All
    <3>2. CASE Global \in batch
      BY <1>12, <3>2, LookedAtProperties
    <3>3. CASE Global \in ActiveTargets
      <4>1. batch = {}
        BY <3>3, LookedAtProperties DEF ActiveTargets
      <4> QED
        BY <1>12, <3>3, <4>1 DEF IInv, TurnsExclusive, ActiveTargets
    <3> QED
      BY <3>1, <3>2, <3>3
  <2> QED
    BY <1>12, <2>3, <2>4 DEF TurnsExclusive
<1>14. \A t \in All : ~IsActive(t) /\ IsActive(t)'
         => active'[t].wakes = Turn(t) /\ Ready(t) # {}
  BY <1>1, <1>3 DEF IsActive
<1> QED
  BY <1>2, <1>6, <1>7, <1>8, <1>11, <1>13, <1>14 DEF IInv, TypeInv

\* A step that starts no turn keeps the turns exclusive.
LEMMA ExclusiveStep ==
  ASSUME TurnsExclusive, ActiveTargets' \subseteq ActiveTargets
  PROVE  TurnsExclusive'
<1>1. IsFiniteSet(ActiveTargets)
  BY TargetsAssumption, FS_AddElement, FS_Subset DEF ActiveTargets, All
<1>2. Cardinality(ActiveTargets') <= Cardinality(ActiveTargets)
        /\ Cardinality(ActiveTargets) \in Nat
      /\ Cardinality(ActiveTargets') \in Nat
  BY <1>1, FS_Subset, FS_CardinalityType
<1>3. Cardinality(ActiveTargets') <= MaxActive
  BY <1>2, DelayAssumption DEF TurnsExclusive
<1>4. IsActive(Global)' => ActiveTargets' = {Global}
  <2> SUFFICES ASSUME IsActive(Global)' PROVE ActiveTargets' = {Global}
    OBVIOUS
  <2>1. Global \in ActiveTargets'
    BY DEF ActiveTargets, All
  <2>2. IsActive(Global)
    BY <2>1 DEF ActiveTargets
  <2> QED
    BY <2>1, <2>2 DEF TurnsExclusive
<1> QED
  BY <1>3, <1>4 DEF TurnsExclusive

\* Without a handler a firing timer only clears itself.
LEMMA IdleFire ==
  ASSUME IInv, TimerFires, ~handler
  PROVE  TypeInv' /\ Counted' /\ ActiveTargets' \subseteq ActiveTargets
<1>1. timer' \in Timer
  <2>1. NoTimer \in Timer
    BY LongestIsLongest DEF NoTimer, Timer
  <2> QED
    BY <2>1 DEF TimerFires
<1>2. UNCHANGED <<handler, generation, pending, blocked, active, requested, settled>>
  BY DEF TimerFires
<1> QED
  BY <1>1, <1>2 DEF IInv, TypeInv, Counted, ActiveTargets, IsActive

\* Every step keeps the invariant, and a turn starts with the ready wakes only.
LEMMA Step ==
  ASSUME IInv, Next
  PROVE  /\ IInv'
         /\ \A t \in All : ~IsActive(t) /\ IsActive(t)' =>
              Ready(t) # {} /\ active'[t].wakes = Turn(t)
<1> DEFINE Good == TypeInv' /\ Counted' /\ ActiveTargets' \subseteq ActiveTargets
<1>1. CASE TimerFires /\ handler
  BY <1>1, FiringStep DEF IInv
<1>2. Good \/ (TimerFires /\ handler)
  <2>1. ASSUME NEW o \in Offers, RequestHeartbeat(o.target, o.intent, o.coalesce) PROVE Good
    BY <2>1, RequestStep
  <2>2. ASSUME Register PROVE Good
    BY <2>2, RegisterStep
  <2>3. ASSUME Dispose PROVE Good
    BY <2>3, DisposeStep
  <2>4. ASSUME Pass PROVE Good
    BY <2>4, PassStep
  <2>5. ASSUME TimerFires, ~handler PROVE Good
    BY <2>5, IdleFire
  <2>6. ASSUME NEW t \in All, Settles(t) PROVE Good
    <3>1. ASSUME NEW done \in BOOLEAN, StaleTurnEnds(t, done) PROVE Good
      BY <3>1, StaleSteps
    <3>2. ASSUME NEW d \in {Retry, Grace},
                 WakeDone(t) \/ WakeDeferred(t, d) \/ WakeBlocked(t, d) \/ WakeGuarded(t, d)
          PROVE  Good
      BY <3>2, SettleSteps
    <3> QED
      BY <2>6, <3>1, <3>2 DEF Settles
  <2> QED
    BY <2>1, <2>2, <2>3, <2>4, <2>5, <2>6 DEF Next
<1>3. CASE Good
  <2>1. TurnsExclusive'
    BY <1>3, ExclusiveStep DEF IInv
  <2>2. \A t \in All : IsActive(t)' => IsActive(t)
    BY <1>3 DEF ActiveTargets
  <2> QED
    BY <1>3, <2>1, <2>2 DEF IInv
<1> QED
  BY <1>1, <1>2, <1>3

\* The invariant holds at first.
LEMMA Start == Init => IInv
<1> SUFFICES ASSUME Init PROVE IInv
  OBVIOUS
<1>1. TypeInv
  <2>1. pending \in PendingSet /\ timer \in Timer /\ blocked \in [All -> Delay]
    BY LongestIsLongest DEF Init, PendingSet, Timer, NoTimer
  <2>2. active \in ActiveSet /\ \A t \in All : active[t].generation = 0
    BY DEF Init, ActiveSet, Idle
  <2>3. handler \in BOOLEAN /\ generation = 0 /\ requested = 0 /\ settled = {}
    BY DEF Init
  <2> QED
    BY <2>1, <2>2, <2>3, DelayAssumption DEF TypeInv
<1>2. Counted
  <2>1. \A t \in All, s \in Slots : ~IsWake(pending[t][s])
    BY DEF Init, IsWake, NoWake
  <2>2. \A t \in All : \A r : ~InWakes(active[t].wakes, r)
    BY DEF Init, Idle, InWakes
  <2>3. settled = {} /\ 1 .. requested = {}
    BY DEF Init
  <2> QED
    BY <2>1, <2>2, <2>3 DEF Counted, InGroup, InTurn
<1>3. ActiveTargets = {}
  BY DEF Init, ActiveTargets, IsActive, Idle
<1>4. TurnsExclusive
  BY <1>3, FS_EmptySet, DelayAssumption DEF TurnsExclusive, ActiveTargets, All
<1> QED
  BY <1>1, <1>2, <1>4 DEF IInv

\* A stuttering step keeps the invariant.
LEMMA Stutter == ASSUME IInv, UNCHANGED vars PROVE IInv'
BY DEF vars, IInv, TypeInv, Counted, InGroup, InTurn, InWakes, TurnsExclusive,
       ActiveTargets, IsActive

\* The invariant holds forever.
LEMMA Invariance == Spec => []IInv
<1>1. IInv /\ [Next]_vars => IInv'
  BY Step, Stutter
<1> QED
  BY <1>1, Start, PTL DEF Spec

-----------------------------------------------------------------------------
(* The safety theorems.                                                    *)

\* A turn has at most two wakes.
LEMMA ShortTurns ==
  ASSUME NEW q, q \in {<<>>} \union Turns
  PROVE  q \in Seq(Wake) /\ Len(q) <= 2
<1> DEFINE n == Len(q)
<1>1. q \in Seq(Wake) /\ n \in 0 .. 2
  <2>1. CASE q = <<>>
    BY <2>1, EmptySeq
  <2>2. CASE q \in Turns
    BY <2>2 DEF Turns
  <2> QED
    BY <2>1, <2>2
<1> HIDE DEF n
<1>2. n <= 2
  BY <1>1
<1> QED
  BY <1>1, <1>2 DEF n

\* Every variable has its type, and a turn has one or two wakes.
THEOREM TypeCorrect == Spec => []TypeOK
<1>1. IInv => TypeOK
  <2> SUFFICES ASSUME IInv PROVE TypeOK
    OBVIOUS
  <2>1. ASSUME NEW t \in All
        PROVE  /\ active[t].generation \in 0 .. generation
               /\ active[t].wakes \in Seq(Wake) /\ Len(active[t].wakes) <= 2
    <3>1. active[t].generation \in Nat /\ active[t].wakes \in {<<>>} \union Turns
      BY <2>1 DEF IInv, TypeInv, ActiveSet
    <3>2. active[t].generation <= generation /\ generation \in Nat
      BY <2>1, DelayAssumption DEF IInv, TypeInv
    <3> QED
      BY <3>1, <3>2, ShortTurns
  <2>2. DOMAIN active = All
    BY DEF IInv, TypeInv, ActiveSet
  <2> QED
    BY <2>1, <2>2 DEF IInv, TypeInv, TypeOK, PendingSet, Timer
<1> QED
  BY <1>1, Invariance, PTL

\* The unscoped turn runs alone and the turns stay within their limit, for any number
\* of agents and slots (takePendingWakeBatch).
THEOREM TurnsAlone == Spec => []TurnsExclusive
<1>1. IInv => TurnsExclusive
  BY DEF IInv
<1> QED
  BY <1>1, Invariance, PTL

\* The barrier in force is the number of a request, or 0.
LEMMA BarrierIsNumber ==
  ASSUME TypeInv
  PROVE  Cutoff(pending) \in 0 .. MaxRequests
<1>1. pending[Global]["event"] \in Wake \union {NoWake}
  BY SlotTypes DEF All, Slots
<1>2. CASE pending[Global]["event"] \in Wake
  BY <1>2, DelayAssumption DEF Cutoff, Wake
<1>3. CASE pending[Global]["event"] = NoWake
  BY <1>3, DelayAssumption DEF Cutoff, NoWake
<1> QED
  BY <1>1, <1>2, <1>3

\* A turn that starts beside a barrier has only wakes older than it.
LEMMA BarrierStep ==
  ASSUME IInv, Next, NEW t \in Targets, ~IsActive(t), IsActive(t)', Cutoff(pending) # 0,
         NEW i \in DOMAIN active'[t].wakes
  PROVE  active'[t].wakes[i].sequence < Cutoff(pending)
<1>1. t \in All /\ t # Global
  BY TargetsAssumption DEF All
<1>2. Ready(t) # {} /\ active'[t].wakes = Turn(t)
  BY <1>1, Step
<1>3. Turn(t) \in Turns
  BY <1>1, <1>2, TurnTypes DEF IInv
<1>4. i \in 1 .. Len(Turn(t))
  BY <1>2, <1>3 DEF Turns
<1>5. PICK s \in Ready(t) : Turn(t)[i].sequence = pending[t][s].sequence
  BY <1>1, <1>2, <1>4, TurnTypes DEF IInv
<1>6. s \in Slots /\ IsWake(pending[t][s]) /\ ~AfterBarrier(pending, t, pending[t][s])
  BY DEF Ready, Takable
<1>7. pending[t][s].sequence \in Int
  BY <1>1, <1>6, SlotTypes, WakeOrNone DEF IInv, Wake, Requests
<1> QED
  BY <1>1, <1>2, <1>5, <1>6, <1>7, BarrierIsNumber DEF IInv, AfterBarrier

\* What was requested after an unscoped immediate wake never starts before it
\* (isHeartbeatWakeAfterGlobalBarrier).
THEOREM BarrierKept == Spec => BarrierRespected
<1> DEFINE Kept == \A t \in Targets :
       ~IsActive(t) /\ IsActive(t)' /\ Cutoff(pending) # 0 =>
         \A i \in DOMAIN active'[t].wakes :
           active'[t].wakes[i].sequence < Cutoff(pending)
<1>1. IInv /\ [Next]_vars => [Kept]_vars
  BY BarrierStep
<1> QED
  BY <1>1, Invariance, PTL DEF Spec, BarrierRespected

\* No request is lost, whatever was coalesced, refused, put back or handed over
\* (queuePendingWakeReason, handOffPendingWakeBatch).
THEOREM NothingLost == Spec => []NoWakeLost
<1>1. IInv => NoWakeLost
  <2> SUFFICES ASSUME IInv PROVE NoWakeLost
    OBVIOUS
  <2>1. \A r : r \in InGroups <=> InGroup(pending, r)
    <3>1. \A t \in All, s \in Slots : pending[t][s] \in Wake \union {NoWake}
            /\ (IsWake(pending[t][s]) <=> pending[t][s] # NoWake)
      BY SlotTypes, WakeOrNone DEF IInv, IsWake, NoWake
    <3> QED
      BY <3>1 DEF InGroups, Wakes, InGroup
  <2>2. ASSUME NEW t \in All, NEW r
        PROVE  InWakes(active[t].wakes, r) <=>
                 \/ t \in ActiveTargets /\ r \in active[t].wakes[1].requests
                 \/ Len(active[t].wakes) = 2 /\ r \in active[t].wakes[2].requests
    <3>1. active[t].wakes \in {<<>>} \union Turns
      BY DEF IInv, TypeInv, ActiveSet
    <3>2. CASE active[t].wakes = <<>>
      BY <3>2, EmptySeq DEF InWakes, ActiveTargets, IsActive
    <3>3. CASE active[t].wakes \in Turns
      <4>1. active[t].wakes # <<>> /\ Len(active[t].wakes) \in {1, 2}
        BY <3>3, EmptySeq DEF Turns
      <4>2. 1 .. 1 = {1} /\ 1 .. 2 = {1, 2}
        OBVIOUS
      <4>3. CASE Len(active[t].wakes) = 1
        BY <4>1, <4>2, <4>3 DEF InWakes, ActiveTargets, IsActive
      <4>4. CASE Len(active[t].wakes) = 2
        BY <4>1, <4>2, <4>4 DEF InWakes, ActiveTargets, IsActive
      <4> QED
        BY <4>1, <4>3, <4>4
    <3> QED
      BY <3>1, <3>2, <3>3
  <2>3. \A r : r \in InTurns <=> InTurn(active, r)
    <3> DEFINE first(t) == active[t].wakes[1].requests
               second(t) == active[t].wakes[2].requests
               firsts == {first(t) : t \in ActiveTargets}
               seconds == {second(t) : t \in {u \in All : Len(active[u].wakes) = 2}}
    <3>1. \A r : (r \in UNION firsts)
            <=> \E t \in All : t \in ActiveTargets /\ r \in first(t)
      BY DEF ActiveTargets
    <3>2. \A r : (r \in UNION seconds)
                  <=> \E t \in All : Len(active[t].wakes) = 2 /\ r \in second(t)
      OBVIOUS
    <3>3. InTurns = (UNION firsts) \union (UNION seconds)
      BY DEF InTurns
    <3> HIDE DEF firsts, seconds
    <3>4. \A r : r \in InTurns <=> \E t \in All : \/ t \in ActiveTargets /\ r \in first(t)
                                                  \/ Len(active[t].wakes) = 2 /\ r \in second(t)
      <4> TAKE r
      <4>1. r \in InTurns <=> ((r \in UNION firsts) \/ (r \in UNION seconds))
        BY <3>3
      <4>2. (r \in UNION firsts) <=> \E t \in All : t \in ActiveTargets /\ r \in first(t)
        BY <3>1
      <4>3. (r \in UNION seconds)
              <=> \E t \in All : Len(active[t].wakes) = 2 /\ r \in second(t)
        BY <3>2
      <4> HIDE DEF first, second
      <4> QED
        BY <4>1, <4>2, <4>3
    <3> QED
      BY <2>2, <3>4 DEF InTurn
  <2>4. Counted
    BY DEF IInv
  <2> QED
    BY <2>1, <2>3, <2>4 DEF Counted, NoWakeLost
<1> QED
  BY <1>1, Invariance, PTL

\* A timer that is set, for some time at most n.
Within(tm, n) == tm.set /\ tm.due <= n

\* schedulePendingWakes sets a timer for every wake it looks at: within what is left

-----------------------------------------------------------------------------
(* The timer is on time.                                                   *)

\* of the wake, or within the delay it was given if some wake is due.
LEMMA ScheduledWithin ==
  ASSUME NEW tm \in Timer, NEW p \in PendingSet, NEW b \in [All -> Delay],
         NEW a, NEW d \in Delay,
         ~Deferred(p, b, a), NEW x \in Waiting(p, a)
  PROVE  /\ TimeLeft(p, b, x) = 0 => Within(PendingScheduled(tm, p, b, a, d), d)
         /\ TimeLeft(p, b, x) # 0 =>
              Within(PendingScheduled(tm, p, b, a, d), TimeLeft(p, b, x))
                \/ Within(PendingScheduled(tm, p, b, a, d), d)
         /\ (\A y \in Waiting(p, a) : TimeLeft(p, b, y) # 0) =>
              Within(PendingScheduled(tm, p, b, a, d), TimeLeft(p, b, x))
<1> DEFINE left == {TimeLeft(p, b, y) : y \in Waiting(p, a)}
           next == PendingScheduled(tm, p, b, a, d)
<1>1. left \subseteq Delay /\ left \subseteq Nat /\ TimeLeft(p, b, x) \in left
  BY TimeLeftTypes, LongestIsLongest DEF Delay
<1>2. Min(left) \in left /\ Min(left) <= TimeLeft(p, b, x)
  BY <1>1, LeastOf
<1>3. next = Scheduled(tm, IF 0 \in left THEN d ELSE Min(left))
  BY <1>1 DEF PendingScheduled
<1>4. \A n \in Delay : Within(Scheduled(tm, n), n)
  BY LongestIsLongest DEF Within, Scheduled, Timer, Delay
<1>5. TimeLeft(p, b, x) = 0 => 0 \in left
  BY <1>1
<1>6. (\A y \in Waiting(p, a) : TimeLeft(p, b, y) # 0) => 0 \notin left
  OBVIOUS
<1> HIDE DEF left
<1>7. CASE 0 \in left
  BY <1>3, <1>4, <1>6, <1>7
<1>8. CASE 0 \notin left
  <2>1. Min(left) \in Delay /\ Min(left) \in Nat /\ TimeLeft(p, b, x) \in Nat
    <3>1. left \subseteq Delay /\ left \subseteq Nat
      BY <1>1
    <3> QED
      BY <1>1, <1>2, <3>1, Zenon
  <2>2. Within(next, Min(left))
    BY <1>3, <1>4, <1>8, <2>1
  <2>3. next.due \in Int
    BY ScheduledTypes, <1>3, <1>8, <2>1, LongestIsLongest DEF Timer, Delay
  <2>4. Within(next, TimeLeft(p, b, x))
    BY <1>2, <2>1, <2>2, <2>3 DEF Within
  <2> QED
    BY <1>5, <1>8, <2>4
<1> QED
  BY <1>7, <1>8

\* The larger of two numbers, written out.
Max2(m, n) == IF m >= n THEN m ELSE n

\* NoLateTimer of one waiting wake.
OnTime(tm, p, b, x) == Within(tm, Max2(TimeLeft(p, b, x), Window))

\* NoLateTimer in terms of OnTime.
LEMMA NoLateTimerAt ==
  TypeInv =>
    (NoLateTimer <=>
       (handler /\ ~Deferred(pending, blocked, ActiveTargets) =>
          \A x \in Waiting(pending, ActiveTargets) : OnTime(timer, pending, blocked, x)))
<1> SUFFICES ASSUME TypeInv
             PROVE  NoLateTimer <=>
                      (handler /\ ~Deferred(pending, blocked, ActiveTargets) =>
                         \A x \in Waiting(pending, ActiveTargets) :
                           OnTime(timer, pending, blocked, x))
  OBVIOUS
<1>1. ASSUME NEW x \in Waiting(pending, ActiveTargets)
      PROVE  Max({TimeLeft(pending, blocked, x), Window})
               = Max2(TimeLeft(pending, blocked, x), Window)
  <2>1. TimeLeft(pending, blocked, x) \in Int /\ Window \in Int
    BY TimeLeftTypes, LongestIsLongest, DelayAssumption DEF TypeInv, Delay
  <2> QED
    BY <2>1, MaxOfTwo DEF Max2
<1> QED
  BY <1>1 DEF NoLateTimer, OnTime, Within

\* What schedulePendingWakes arms is on time for every wake it looks at.
LEMMA ScheduledOnTime ==
  ASSUME NEW tm \in Timer, NEW p \in PendingSet, NEW b \in [All -> Delay], NEW a,
         NEW d \in Delay, ~Deferred(p, b, a), NEW x \in Waiting(p, a),
         d <= Window \/ \A y \in Waiting(p, a) : TimeLeft(p, b, y) # 0
  PROVE  OnTime(PendingScheduled(tm, p, b, a, d), p, b, x)
<1> DEFINE next == PendingScheduled(tm, p, b, a, d)
<1>1. TimeLeft(p, b, x) \in Int /\ Window \in Int /\ d \in Int
  BY TimeLeftTypes, LongestIsLongest, DelayAssumption DEF Delay
<1>2. next \in Timer
  BY PendingScheduledTypes
<1>3. next.due \in Int
  BY <1>2, LongestIsLongest DEF Timer, Delay
<1>4. Within(next, TimeLeft(p, b, x)) \/ (Within(next, d) /\ d <= Window)
  BY ScheduledWithin
<1> HIDE DEF next
<1> QED
  BY <1>1, <1>3, <1>4 DEF OnTime, Within, Max2, next

\* NoLateTimer of any state: handler, pending, blocked, active targets, timer.
OnTimeAll(h, p, b, a, tm) ==
  h /\ ~Deferred(p, b, a) => \A x \in Waiting(p, a) : OnTime(tm, p, b, x)

\* A request arms the timer within the longest window asked for.
LEMMA RequestOnTime ==
  ASSUME IInv, TypeInv', NEW o \in Offers, RequestHeartbeat(o.target, o.intent, o.coalesce)
  PROVE  OnTimeAll(handler', pending', blocked', ActiveTargets', timer')
<1>1. o.coalesce \in 0 .. Window
  BY OffersAssumption
<1>2. timer' = Scheduled(timer, o.coalesce) /\ timer \in Timer
  BY DEF RequestHeartbeat, IInv, TypeInv
<1>3. timer.due \in Int
  BY <1>2, LongestIsLongest DEF Timer, Delay
<1>4. Within(timer', Window) /\ timer'.due \in Int /\ Window \in Int
  BY <1>1, <1>2, <1>3, DelayAssumption DEF Within, Scheduled
<1>5. ASSUME NEW x \in Waiting(pending', ActiveTargets')
      PROVE  OnTime(timer', pending', blocked', x)
  <2>1. TimeLeft(pending', blocked', x) \in Delay
    BY TimeLeftTypes DEF TypeInv
  <2>2. TimeLeft(pending', blocked', x) \in Int
    BY <2>1, LongestIsLongest DEF Delay
  <2> QED
    BY <1>4, <2>2 DEF OnTime, Within, Max2
<1> QED
  BY <1>5 DEF OnTimeAll

\* With nothing pending nothing waits.
LEMMA EmptyWaitsForNothing ==
  ASSUME NEW p \in PendingSet, ~HasPending(p), NEW a
  PROVE  Waiting(p, a) = {}
<1>1. \A t \in All, s \in Slots : ~IsWake(p[t][s])
  <2> SUFFICES ASSUME NEW t \in All, NEW s \in Slots PROVE ~IsWake(p[t][s])
    OBVIOUS
  <2>1. p[t][s] = NoWake
    BY DEF HasPending, Wakes
  <2> QED
    BY <2>1 DEF NoWake, IsWake
<1> QED
  BY <1>1 DEF Waiting

\* A new handler schedules what it finds pending.
LEMMA RegisterOnTime ==
  ASSUME IInv, TypeInv', Register
  PROVE  OnTimeAll(handler', pending', blocked', ActiveTargets', timer')
<1>1. ActiveTargets' = ActiveTargets
  BY DEF Register, ActiveTargets, IsActive
<1>2. pending' \in PendingSet /\ blocked' \in [All -> Delay] /\ NoTimer \in Timer
      /\ Coalesce \in Delay /\ Coalesce <= Window
  BY LongestIsLongest, DelayAssumption DEF TypeInv, NoTimer, Timer
<1>3. CASE HasPending(pending)
  <2>1. timer' = PendingScheduled(NoTimer, pending', blocked', ActiveTargets, Coalesce)
    BY <1>3 DEF Register
  <2> QED
    BY <1>1, <1>2, <2>1, ScheduledOnTime DEF OnTimeAll
<1>4. CASE ~HasPending(pending)
  <2>1. \A t \in All, s \in Slots : pending[t][s] = NoWake
    BY <1>4 DEF HasPending, Wakes
  <2>2. \A t \in All, s \in Slots : ~IsWake(pending'[t][s])
    <3>1. \A t \in All, s \in Slots : pending'[t][s] = Forgiven(NoWake)
      BY <2>1 DEF Register
    <3>2. ~IsWake(NoWake) /\ Forgiven(NoWake) = NoWake
      BY DEF Forgiven, NoWake, IsWake
    <3> QED
      BY <3>1, <3>2
  <2>3. Waiting(pending', ActiveTargets') = {}
    BY <2>2 DEF Waiting
  <2> QED
    BY <2>3 DEF OnTimeAll
<1> QED
  BY <1>3, <1>4

\* Time brings the timer and the wakes nearer alike.
LEMMA PassOnTime ==
  ASSUME IInv, TypeInv', Pass, OnTimeAll(handler, pending, blocked, ActiveTargets, timer)
  PROVE  OnTimeAll(handler', pending', blocked', ActiveTargets', timer')
<1> DEFINE Same(w, v) == /\ IsWake(v) <=> IsWake(w)
                         /\ v.intent = w.intent
                         /\ IsWake(w) => /\ v.barrier = w.barrier /\ v.sequence = w.sequence
                                         /\ v.ready = Less(w.ready)
                                         /\ v.notBefore = Less(w.notBefore)
<1>1. ASSUME NEW t \in All, NEW s \in Slots PROVE Same(pending[t][s], pending'[t][s])
  <2>1. pending[t][s] \in Wake \union {NoWake}
    BY SlotTypes DEF IInv
  <2>2. CASE IsWake(pending[t][s])
    <3>1. pending[t][s] \in Wake
      BY <2>1, <2>2, WakeOrNone
    <3>2. pending'[t][s] = [pending[t][s] EXCEPT !.ready = Less(@), !.notBefore = Less(@)]
      BY <2>2 DEF Pass
    <3> QED
      BY <2>2, <3>1, <3>2 DEF Wake, IsWake
  <2>3. CASE ~IsWake(pending[t][s])
    <3>1. pending'[t][s] = NoWake /\ pending[t][s] = NoWake
      BY <2>1, <2>3, WakeOrNone DEF Pass
    <3> QED
      BY <2>3, <3>1
  <2> QED
    BY <2>2, <2>3
<1>2. ActiveTargets' = ActiveTargets /\ handler' = handler
  BY DEF Pass, ActiveTargets, IsActive
<1>3. \A t \in All : blocked'[t] = Less(blocked[t])
  BY DEF Pass
<1>4. \A t \in All, s \in Slots : IsWake(pending[t][s]) =>
        /\ pending[t][s].ready \in Nat /\ pending[t][s].notBefore \in Nat
  <2> SUFFICES ASSUME NEW t \in All, NEW s \in Slots, IsWake(pending[t][s])
               PROVE  pending[t][s].ready \in Nat /\ pending[t][s].notBefore \in Nat
    OBVIOUS
  <2>1. pending[t][s] \in Wake
    BY SlotTypes, WakeOrNone DEF IInv
  <2> QED
    BY <2>1, LongestIsLongest DEF Wake, Delay
<1>5. \A t \in All : blocked[t] \in Nat
  BY LongestIsLongest DEF IInv, TypeInv, Delay
<1>6. Cutoff(pending') = Cutoff(pending)
  <2>1. Global \in All /\ "event" \in Slots
    BY DEF All, Slots
  <2>2. pending'[Global]["event"].intent = "immediate" => IsWake(pending'[Global]["event"])
    BY DEF IsWake
  <2> QED
    BY <1>1, <2>1, <2>2 DEF Cutoff
<1>7. Waiting(pending', ActiveTargets') = Waiting(pending, ActiveTargets)
  BY <1>1, <1>2, <1>6 DEF Waiting, AfterBarrier
<1>8. GroupReady(pending, blocked, Global) => GroupReady(pending', blocked', Global)
  <2> SUFFICES ASSUME GroupReady(pending, blocked, Global)
               PROVE GroupReady(pending', blocked', Global)
    OBVIOUS
  <2>1. PICK s \in Slots : pending[Global][s] # NoWake /\ Due(pending[Global][s])
    BY DEF GroupReady, Wakes
  <2>2. Global \in All /\ IsWake(pending[Global][s])
    BY <2>1, SlotTypes, WakeOrNone DEF All, IInv
  <2>3. Due(pending'[Global][s]) /\ IsWake(pending'[Global][s])
    BY <1>1, <2>1, <2>2 DEF Due, Less
  <2>4. pending'[Global][s] # NoWake
    BY <2>3 DEF IsWake, NoWake
  <2>5. blocked'[Global] = 0
    BY <1>3, <2>2 DEF GroupReady, Less
  <2> QED
    BY <2>3, <2>4, <2>5 DEF GroupReady, Wakes
<1>9. ~Deferred(pending', blocked', ActiveTargets')
        => ~Deferred(pending, blocked, ActiveTargets)
  BY <1>2, <1>8 DEF Deferred
<1>10. ASSUME NEW x \in Waiting(pending, ActiveTargets), OnTime(timer, pending, blocked, x)
       PROVE  OnTime(timer', pending', blocked', x)
  <2>1. x[1] \in All /\ x[2] \in Slots /\ IsWake(pending[x[1]][x[2]])
    BY DEF Waiting
  <2> DEFINE r == pending[x[1]][x[2]].ready
             n == pending[x[1]][x[2]].notBefore
             k == blocked[x[1]]
  <2>2. r \in Nat /\ n \in Nat /\ k \in Nat /\ Window \in Nat
    BY <1>4, <1>5, <2>1, DelayAssumption
  <2>3. TimeLeft(pending, blocked, x) = IF k > 0 THEN k ELSE Max2(r, n)
    BY <2>2, MaxOfTwo DEF TimeLeft, Max2
  <2>4. Less(r) \in Nat /\ Less(n) \in Nat /\ Less(k) \in Nat
    BY <2>2 DEF Less
  <2>5. TimeLeft(pending', blocked', x)
          = IF Less(k) > 0 THEN Less(k) ELSE Max2(Less(r), Less(n))
    <3>1. /\ pending'[x[1]][x[2]].ready = Less(r)
          /\ pending'[x[1]][x[2]].notBefore = Less(n)
          /\ blocked'[x[1]] = Less(k)
      BY <1>1, <1>3, <2>1
    <3> QED
      BY <2>4, <3>1, MaxOfTwo DEF TimeLeft, Max2
  <2>6. timer.due \in Nat /\ timer.set /\ timer'.set /\ timer'.due = Less(timer.due)
    <3>1. timer.set /\ timer \in Timer
      BY <1>10 DEF OnTime, Within, IInv, TypeInv
    <3>2. timer.due \in Nat
      BY <3>1, LongestIsLongest DEF Timer, Delay
    <3>3. timer' = [timer EXCEPT !.due = Less(@)]
      BY <3>1 DEF Pass
    <3> QED
      BY <3>1, <3>2, <3>3 DEF Timer
  <2>7. timer.due <= Max2(TimeLeft(pending, blocked, x), Window)
    BY <1>10 DEF OnTime, Within
  <2> HIDE DEF r, n, k
  <2> QED
    BY <2>2, <2>3, <2>4, <2>5, <2>6, <2>7 DEF OnTime, Within, Max2, Less
<1> QED
  BY <1>2, <1>7, <1>9, <1>10 DEF OnTimeAll

\* Putting a wake back, or setting the back-off of its target, while the target has its
\* turn changes nothing for the other targets; the end of the turn schedules anew.
LEMMA ContinueOnTime ==
  ASSUME IInv, TypeInv', NEW t \in All, IsActive(t), NEW p \in PendingSet,
         NEW b \in [All -> Delay], NEW tm \in Timer, NEW dealt,
         Continue(t, p, b, tm, dealt),
         tm = timer \/ \E d \in Delay : tm = Scheduled(timer, d),
         \A u \in All \ {t} : p[u] = pending[u] /\ b[u] = blocked[u],
         OnTimeAll(handler, pending, blocked, ActiveTargets, timer)
  PROVE  OnTimeAll(handler', pending', blocked', ActiveTargets', timer')
<1> DEFINE rest == Tail(active[t].wakes)
<1>1. pending' = p /\ blocked' = b /\ handler' = handler
  BY DEF Continue
<1>2. active \in ActiveSet
  BY DEF IInv, TypeInv
<1>3. CASE rest = <<>>
  <2>1. ActiveTargets' = ActiveTargets \ {t}
    <3>1. \A u \in All : active'[u] = IF u = t THEN Idle ELSE active[u]
      BY <1>2, <1>3 DEF Continue, ActiveSet
    <3>2. \A u \in All : IsActive(u)' <=> (u # t /\ IsActive(u))
      BY <3>1 DEF IsActive, Idle
    <3> QED
      BY <3>2 DEF ActiveTargets
  <2>2. CASE HasPending(p)
    <3>1. timer' = PendingScheduled(tm, p, b, ActiveTargets \ {t}, 0)
      BY <1>3, <2>2 DEF Continue
    <3> QED
      BY <1>1, <2>1, <3>1, ScheduledOnTime, LongestIsLongest, DelayAssumption DEF OnTimeAll
  <2>3. CASE ~HasPending(p)
    BY <1>1, <2>3, EmptyWaitsForNothing DEF OnTimeAll
  <2> QED
    BY <2>2, <2>3
<1>4. CASE rest # <<>>
  <2>1. ActiveTargets' = ActiveTargets /\ t \in ActiveTargets
    <3>1. \A u \in All :
            active'[u] = IF u = t THEN [active[t] EXCEPT !.wakes = rest] ELSE active[u]
      BY <1>2, <1>4 DEF Continue, ActiveSet
    <3>2. [active[t] EXCEPT !.wakes = rest].wakes = rest
      BY <1>2 DEF ActiveSet
    <3>3. \A u \in All : IsActive(u)' <=> IsActive(u)
      BY <1>4, <3>1, <3>2 DEF IsActive
    <3> QED
      BY <3>3 DEF ActiveTargets
  <2>2. timer' = tm
    BY <1>4 DEF Continue
  <2>3. SUFFICES ASSUME handler, ~Deferred(p, b, ActiveTargets),
                        NEW x \in Waiting(p, ActiveTargets)
                 PROVE  OnTime(tm, p, b, x)
    BY <1>1, <2>1, <2>2 DEF OnTimeAll
  <2>4. t # Global /\ Global \in All
    BY <2>1, <2>3 DEF Deferred, All
  <2>5. p[Global] = pending[Global] /\ b[Global] = blocked[Global]
    BY <2>4
  <2>6. ~Deferred(pending, blocked, ActiveTargets)
    BY <2>3, <2>5 DEF Deferred, GroupReady
  <2>7. Cutoff(p) = Cutoff(pending)
    BY <2>5 DEF Cutoff
  <2>8. x \in (All \ ActiveTargets) \X Slots
    BY DEF Waiting
  <2>9. x[1] \in All \ {t}
    BY <2>1, <2>8
  <2>10. p[x[1]] = pending[x[1]] /\ b[x[1]] = blocked[x[1]]
    BY <2>9
  <2>11. x \in Waiting(pending, ActiveTargets)
    BY <2>7, <2>8, <2>10 DEF Waiting, AfterBarrier
  <2>12. OnTime(timer, pending, blocked, x)
    BY <2>3, <2>6, <2>11 DEF OnTimeAll
  <2>13. TimeLeft(p, b, x) = TimeLeft(pending, blocked, x)
    BY <2>10 DEF TimeLeft
  <2>14. tm.set /\ tm.due <= timer.due /\ timer.due \in Int /\ tm.due \in Int
    <3>1. timer \in Timer /\ timer.set
      BY <2>12 DEF IInv, TypeInv, OnTime, Within
    <3>2. timer.due \in Int
      BY <3>1, LongestIsLongest DEF Timer, Delay
    <3>3. ASSUME NEW d \in Delay
          PROVE Scheduled(timer, d).set /\ Scheduled(timer, d).due <= timer.due
      <4>1. d \in Int
        BY LongestIsLongest DEF Delay
      <4> QED
        BY <3>1, <3>2, <4>1 DEF Scheduled
    <3>4. tm.due \in Int
      BY LongestIsLongest DEF Timer, Delay
    <3> QED
      BY <3>1, <3>2, <3>3, <3>4
  <2>15. TimeLeft(pending, blocked, x) \in Int /\ Window \in Int
    BY <2>11, TimeLeftTypes, LongestIsLongest, DelayAssumption DEF IInv, TypeInv, Delay
  <2> QED
    BY <2>12, <2>13, <2>14, <2>15 DEF OnTime, Within, Max2
<1> QED
  BY <1>3, <1>4

\* The same of a wake that is put back with its timer.
LEMMA PutBackOnTime ==
  ASSUME IInv, TypeInv', NEW t \in All, IsActive(t), NEW w, NEW b, NEW d \in Delay,
         Continue(t, Queued(pending, t, w), b, Scheduled(timer, d), {}),
         \A u \in All \ {t} : b[u] = blocked[u],
         OnTimeAll(handler, pending, blocked, ActiveTargets, timer)
  PROVE  OnTimeAll(handler', pending', blocked', ActiveTargets', timer')
<1> DEFINE p == Queued(pending, t, w)
           tm == Scheduled(timer, d)
<1>1. pending' = p /\ blocked' = b
  BY DEF Continue
<1>2. p \in PendingSet /\ b \in [All -> Delay]
  BY <1>1 DEF TypeInv
<1>3. tm \in Timer /\ pending \in PendingSet
  BY ScheduledTypes DEF IInv, TypeInv
<1>4. \A u \in All \ {t} : p[u] = pending[u] /\ b[u] = blocked[u]
  BY <1>3 DEF Queued, PendingSet
<1>5. tm = timer \/ \E e \in Delay : tm = Scheduled(timer, e)
  OBVIOUS
<1>6. Continue(t, p, b, tm, {})
  OBVIOUS
<1> HIDE DEF p, tm
<1> QED
  BY <1>2, <1>3, <1>4, <1>5, <1>6, ContinueOnTime

\* The ends of a current turn keep the timer on time.
LEMMA SettleOnTime ==
  ASSUME IInv, TypeInv', NEW t \in All, NEW d \in {Retry, Grace},
         WakeDone(t) \/ WakeDeferred(t, d) \/ WakeBlocked(t, d) \/ WakeGuarded(t, d),
         OnTimeAll(handler, pending, blocked, ActiveTargets, timer)
  PROVE  OnTimeAll(handler', pending', blocked', ActiveTargets', timer')
<1>1. IsActive(t) /\ d \in Delay
  BY LongestIsLongest DEF WakeDone, WakeDeferred, WakeBlocked, WakeGuarded, Running
<1>2. timer \in Timer /\ pending \in PendingSet /\ blocked \in [All -> Delay]
  BY DEF IInv, TypeInv
<1>3. Continue(t, pending, blocked, timer, Current(t).requests)
        => OnTimeAll(handler', pending', blocked', ActiveTargets', timer')
  BY <1>1, <1>2, ContinueOnTime
<1>4. CASE WakeDone(t)
  BY <1>3, <1>4 DEF WakeDone
<1>5. CASE WakeDeferred(t, d)
  BY <1>1, <1>5, PutBackOnTime DEF WakeDeferred
<1>6. CASE WakeBlocked(t, d)
  <2> DEFINE b == [blocked EXCEPT ![t] = Max({@, d})]
  <2>1. \A u \in All \ {t} : b[u] = blocked[u]
    BY <1>2
  <2>2. Continue(t, Queued(pending, t, Again(Current(t), 0, Current(t).retained)), b,
                 Scheduled(timer, d), {})
    BY <1>6 DEF WakeBlocked
  <2> HIDE DEF b
  <2> QED
    BY <1>1, <2>1, <2>2, PutBackOnTime
<1>7. CASE WakeGuarded(t, d)
  BY <1>1, <1>3, <1>7, PutBackOnTime DEF WakeGuarded
<1> QED
  BY <1>4, <1>5, <1>6, <1>7

\* The end of a replaced handler's turn keeps the timer on time.
LEMMA StaleOnTime ==
  ASSUME IInv, TypeInv', NEW t \in All, NEW done \in BOOLEAN, StaleTurnEnds(t, done)
  PROVE  OnTimeAll(handler', pending', blocked', ActiveTargets', timer')
<1> DEFINE p == HandedOff(pending, t, Unfinished(t, done))
           tm == IF handler /\ Unfinished(t, done) # <<>>
                 THEN PendingScheduled(timer, p, blocked, ActiveTargets, Coalesce)
                 ELSE timer
<1>1. pending' = p /\ blocked' = blocked /\ handler' = handler
      /\ timer' = IF HasPending(p)
                  THEN PendingScheduled(tm, p, blocked, ActiveTargets \ {t}, 0) ELSE tm
  BY DEF StaleTurnEnds
<1>2. p \in PendingSet /\ blocked \in [All -> Delay] /\ timer \in Timer
  BY <1>1 DEF IInv, TypeInv
<1> HIDE DEF p
<1>3. tm \in Timer
  BY <1>2, PendingScheduledTypes, LongestIsLongest
<1> HIDE DEF tm
<1>4. ActiveTargets' = ActiveTargets \ {t}
  <2>1. \A u \in All : active'[u] = IF u = t THEN Idle ELSE active[u]
    BY DEF StaleTurnEnds, IInv, TypeInv, ActiveSet
  <2>2. \A u \in All : IsActive(u)' <=> (u # t /\ IsActive(u))
    BY <2>1 DEF IsActive, Idle
  <2> QED
    BY <2>2 DEF ActiveTargets
<1>5. CASE HasPending(p)
  BY <1>1, <1>2, <1>3, <1>4, <1>5, ScheduledOnTime, LongestIsLongest, DelayAssumption
     DEF OnTimeAll
<1>6. CASE ~HasPending(p)
  BY <1>1, <1>2, <1>6, EmptyWaitsForNothing DEF OnTimeAll
<1> QED
  BY <1>5, <1>6

\* A timer that fires takes every wake that is due, unless the slots run out: what is
\* left behind is not due or is met by the end of a turn.
LEMMA NothingDueLeft ==
  ASSUME IInv, TypeInv', TimerFires, handler,
         ~Deferred(pending', blocked, ActiveTargets'),
         NEW y \in Waiting(pending', ActiveTargets')
  PROVE  TimeLeft(pending', blocked, y) # 0
<1> SUFFICES ASSUME TimeLeft(pending', blocked, y) = 0 PROVE FALSE
  OBVIOUS
<1>1. PICK batch \in SUBSET LookedAt :
        /\ Cardinality(batch) = Min({Cardinality(LookedAt), FreeSlots})
        /\ pending' = [t \in All |-> [s \in Slots |->
             IF t \in batch /\ s \in Taken(t) THEN NoWake ELSE pending[t][s]]]
        /\ ActiveTargets' = ActiveTargets \union batch
        /\ IsFiniteSet(ActiveTargets) /\ IsFiniteSet(LookedAt) /\ IsFiniteSet(batch)
        /\ Cardinality(ActiveTargets \union batch)
             = Cardinality(ActiveTargets) + Cardinality(batch)
  BY BatchTaken
<1>2. /\ Cardinality(ActiveTargets') < MaxActive
      /\ Global \notin ActiveTargets'
      /\ ActiveTargets' = {} \/ ~GroupReady(pending', blocked, Global)
  <2>1. Cardinality(ActiveTargets') \in Nat
    BY <1>1, FS_CardinalityType
  <2> QED
    BY <2>1, DelayAssumption DEF Deferred
<1>3. batch = LookedAt
  <2>1. Cardinality(ActiveTargets) \in Nat /\ Cardinality(LookedAt) \in Nat
        /\ Cardinality(batch) \in Nat
    BY <1>1, FS_CardinalityType
  <2>2. Cardinality(batch) # FreeSlots
    BY <1>1, <1>2, <2>1, DelayAssumption DEF FreeSlots
  <2>3. FreeSlots \in Int
    BY <2>1, DelayAssumption DEF FreeSlots
  <2>4. Cardinality(batch) = Cardinality(LookedAt)
    BY <1>1, <2>1, <2>2, <2>3, MinOfTwo
  <2> QED
    BY <1>1, <2>4, FS_Subset
<1>4. \A u \in All \ batch : pending'[u] = pending[u]
  BY <1>1 DEF IInv, TypeInv, PendingSet
<1> DEFINE t == y[1]
           s == y[2]
           w == pending[t][s]
<1>5. t \in All /\ t \notin ActiveTargets /\ t \notin batch /\ s \in Slots
  BY <1>1 DEF Waiting
<1>6. pending'[t] = pending[t] /\ IsWake(w) /\ ~AfterBarrier(pending', t, w)
  BY <1>4, <1>5 DEF Waiting
<1>7. Global \in All /\ Global \notin batch /\ ~IsActive(Global)
  BY <1>1, <1>2 DEF ActiveTargets, All
<1>8. pending'[Global] = pending[Global]
  BY <1>4, <1>7
<1>9. ~AfterBarrier(pending, t, w)
  BY <1>6, <1>8 DEF AfterBarrier, Cutoff
<1>10. w \in Wake
  BY <1>5, <1>6, SlotTypes, WakeOrNone DEF IInv
<1>11. blocked[t] = 0 /\ Due(w)
  <2>1. w.ready \in Nat /\ w.notBefore \in Nat /\ blocked[t] \in Nat
    BY <1>5, <1>10, LongestIsLongest DEF Wake, Delay, IInv, TypeInv
  <2>2. blocked[t] = 0 /\ Max({w.ready, w.notBefore}) = 0
    BY <1>6, <2>1 DEF TimeLeft
  <2> QED
    BY <2>1, <2>2, MaxOfTwo DEF Due
<1>12. s \in Ready(t)
  BY <1>5, <1>6, <1>9, <1>11 DEF Ready, Takable, Due
<1>13. CASE GroupReady(pending, blocked, Global)
  <2>1. ActiveTargets = {} /\ LookedAt = {}
    BY <1>1, <1>2, <1>3, <1>8, <1>13 DEF GroupReady
  <2>2. blocked[Global] = 0 /\ Ready(Global) # {}
    <3>1. PICK r \in Slots : pending[Global][r] # NoWake /\ Due(pending[Global][r])
      BY <1>13 DEF GroupReady, Wakes
    <3>2. IsWake(pending[Global][r])
      BY <1>7, <3>1, SlotTypes, WakeOrNone DEF IInv
    <3>3. r \in Ready(Global)
      BY <3>1, <3>2 DEF Ready, Takable, AfterBarrier, Due
    <3> QED
      BY <1>13, <3>3 DEF GroupReady
  <2> QED
    BY <1>7, <2>1, <2>2 DEF LookedAt
<1>14. CASE ~GroupReady(pending, blocked, Global)
  <2>1. t # Global
    BY <1>5, <1>6, <1>11, <1>14 DEF GroupReady, Wakes, IsWake, NoWake
  <2>2. t \in Targets /\ ~IsActive(t)
    BY <1>5, <2>1 DEF All, ActiveTargets
  <2>3. t \in LookedAt
    BY <1>7, <1>11, <1>12, <1>14, <2>2 DEF LookedAt
  <2> QED
    BY <1>3, <1>5, <2>3
<1> QED
  BY <1>13, <1>14

\* So the timer it arms, for the delay it was set for, is on time.
LEMMA FiringOnTime ==
  ASSUME IInv, TypeInv', TimerFires, handler
  PROVE  OnTimeAll(handler', pending', blocked', ActiveTargets', timer')
<1>1. timer' = IF HasPending(pending')
               THEN PendingScheduled(NoTimer, pending', blocked, ActiveTargets', timer.delay)
               ELSE NoTimer
  BY BatchTaken
<1>2. blocked' = blocked
  BY DEF TimerFires
<1>3. /\ pending' \in PendingSet /\ blocked \in [All -> Delay]
      /\ NoTimer \in Timer /\ timer.delay \in Delay
  BY LongestIsLongest DEF IInv, TypeInv, NoTimer, Timer
<1>4. CASE HasPending(pending')
  BY <1>1, <1>2, <1>3, <1>4, NothingDueLeft, ScheduledOnTime DEF OnTimeAll
<1>5. CASE ~HasPending(pending')
  BY <1>3, <1>5, EmptyWaitsForNothing DEF OnTimeAll
<1> QED
  BY <1>4, <1>5

\* NoLateTimer of the present state.
OnTimeNow == OnTimeAll(handler, pending, blocked, ActiveTargets, timer)

\* Every step keeps the timer on time.
LEMMA OnTimeStep ==
  ASSUME IInv, TypeInv', OnTimeNow, Next
  PROVE  OnTimeNow'
<1>1. ASSUME NEW o \in Offers, RequestHeartbeat(o.target, o.intent, o.coalesce)
      PROVE OnTimeNow'
  BY <1>1, RequestOnTime DEF OnTimeNow
<1>2. CASE Register
  BY <1>2, RegisterOnTime DEF OnTimeNow
<1>3. CASE Dispose
  BY <1>3 DEF Dispose, OnTimeNow, OnTimeAll
<1>4. CASE TimerFires
  <2>1. CASE handler
    BY <1>4, <2>1, FiringOnTime DEF OnTimeNow
  <2>2. CASE ~handler
    BY <1>4, <2>2 DEF TimerFires, OnTimeNow, OnTimeAll
  <2> QED
    BY <2>1, <2>2
<1>5. CASE Pass
  BY <1>5, PassOnTime DEF OnTimeNow
<1>6. ASSUME NEW t \in All, Settles(t) PROVE OnTimeNow'
  <2>1. ASSUME NEW done \in BOOLEAN, StaleTurnEnds(t, done) PROVE OnTimeNow'
    BY <2>1, StaleOnTime DEF OnTimeNow
  <2>2. ASSUME NEW d \in {Retry, Grace},
               WakeDone(t) \/ WakeDeferred(t, d) \/ WakeBlocked(t, d) \/ WakeGuarded(t, d)
        PROVE  OnTimeNow'
    BY <2>2, SettleOnTime DEF OnTimeNow
  <2> QED
    BY <1>6, <2>1, <2>2 DEF Settles
<1> QED
  BY <1>1, <1>2, <1>3, <1>4, <1>5, <1>6 DEF Next

\* The one timer is never late for a wake that could run, whatever the delays asked for
\* (schedule, schedulePendingWakes).
THEOREM TimerOnTime == Spec => []NoLateTimer
<1>1. Init => OnTimeNow
  BY DEF Init, OnTimeNow, OnTimeAll
<1>2. IInv /\ TypeInv' /\ OnTimeNow /\ [Next]_vars => OnTimeNow'
  <2>1. OnTimeNow /\ UNCHANGED vars => OnTimeNow'
    BY DEF vars, OnTimeNow, OnTimeAll, ActiveTargets, IsActive
  <2> QED
    BY <2>1, OnTimeStep
<1>3. IInv => TypeInv
  BY DEF IInv
<1>4. TypeInv /\ OnTimeNow => NoLateTimer
  BY NoLateTimerAt DEF OnTimeNow, OnTimeAll
<1> QED
  BY <1>1, <1>2, <1>3, <1>4, Invariance, PTL DEF Spec

-----------------------------------------------------------------------------
(* Every request is in one place.                                          *)

\* A request is in the wake of a slot, or in the wake of a turn.
InSlot(p, t, s, r) == IsWake(p[t][s]) /\ r \in p[t][s].requests
HasPart(q, i, r) == i <= Len(q) /\ r \in q[i].requests
InPart(a, t, i, r) == HasPart(a[t].wakes, i, r)

\* A request is in one place at most, and in none once it is dealt with.
Single(p, a, d, r) ==
  /\ \A t, u \in All, s, v \in Slots :
       InSlot(p, t, s, r) /\ InSlot(p, u, v, r) => t = u /\ s = v
  /\ \A t, u \in All, i, j \in {1, 2} :
       InPart(a, t, i, r) /\ InPart(a, u, j, r) => t = u /\ i = j
  /\ \A t, u \in All, s \in Slots, i \in {1, 2} :
       ~(InSlot(p, t, s, r) /\ InPart(a, u, i, r))
  /\ r \in d => /\ \A t \in All, s \in Slots : ~InSlot(p, t, s, r)
                /\ \A t \in All, i \in {1, 2} : ~InPart(a, t, i, r)

\* No two wakes stand for the same request.
Apart == \A r : Single(pending, active, settled, r)

\* A step that puts a request nowhere new leaves it in one place.
LEMMA NothingNew ==
  ASSUME NEW p, NEW a, NEW d, NEW p2, NEW a2, NEW d2, NEW r, Single(p, a, d, r),
         \A t \in All, s \in Slots : InSlot(p2, t, s, r) => InSlot(p, t, s, r),
         \A t \in All, i \in {1, 2} : InPart(a2, t, i, r) => InPart(a, t, i, r),
         r \in d2 => r \in d
  PROVE  Single(p2, a2, d2, r)
BY DEF Single

\* The wakes of a turn are its first and its second.
LEMMA PartsOfTurn ==
  ASSUME NEW q \in {<<>>} \union Turns, NEW r
  PROVE  InWakes(q, r) <=> HasPart(q, 1, r) \/ HasPart(q, 2, r)
<1>1. CASE q = <<>>
  BY <1>1, EmptySeq DEF InWakes, HasPart
<1>2. CASE q \in Turns /\ Len(q) = 1
  <2>1. 1 .. 1 = {1}
    OBVIOUS
  <2> QED
    BY <1>2, <2>1 DEF InWakes, HasPart
<1>3. CASE q \in Turns /\ Len(q) = 2
  <2>1. 1 .. 2 = {1, 2}
    OBVIOUS
  <2> QED
    BY <1>3, <2>1 DEF InWakes, HasPart
<1> QED
  BY <1>1, <1>2, <1>3 DEF Turns

\* An idle target has no wakes in its turn.
LEMMA NoParts ==
  ASSUME NEW i \in {1, 2}, NEW r
  PROVE  ~HasPart(<<>>, i, r)
BY DEF HasPart

\* What is left of a turn without its current wake is its second wake.
LEMMA TailParts ==
  ASSUME NEW q \in Turns, NEW r
  PROVE  /\ HasPart(q, 1, r) <=> r \in Head(q).requests
         /\ HasPart(Tail(q), 1, r) => HasPart(q, 2, r)
         /\ ~HasPart(Tail(q), 2, r)
<1>1. q \in Seq(Wake) /\ Len(q) \in {1, 2} /\ q # <<>>
  BY DEF Turns
<1>2. PICK rest : rest = Tail(q)
  OBVIOUS
<1>3. /\ Tail(q) \in Seq(Wake) /\ Len(Tail(q)) = Len(q) - 1
      /\ \A i \in 1 .. Len(Tail(q)) : Tail(q)[i] = q[i + 1]
  BY <1>1, HeadTailProperties
<1>4. /\ rest \in Seq(Wake) /\ Len(rest) = Len(q) - 1
      /\ \A i \in 1 .. Len(rest) : rest[i] = q[i + 1]
  BY <1>2, <1>3, Zenon
<1>5. Head(q) = q[1]
  BY <1>1, HeadTailProperties
<1>6. HasPart(rest, 1, r) => HasPart(q, 2, r)
  <2> SUFFICES ASSUME HasPart(rest, 1, r) PROVE HasPart(q, 2, r)
    OBVIOUS
  <2>1. Len(q) = 2 /\ 1 \in 1 .. Len(rest)
    BY <1>1, <1>4 DEF HasPart
  <2>2. rest[1] = q[1 + 1]
    BY <1>4, <2>1
  <2> QED
    BY <2>1, <2>2 DEF HasPart
<1>7. ~HasPart(rest, 2, r)
  BY <1>1, <1>4 DEF HasPart
<1>8. HasPart(q, 1, r) <=> r \in Head(q).requests
  BY <1>1, <1>5 DEF HasPart
<1> QED
  BY <1>2, <1>6, <1>7, <1>8

\* A queued wake brings its requests to its own slot and to no other.
LEMMA QueuedAt ==
  ASSUME NEW p \in PendingSet, NEW t \in All, NEW w \in Wake,
         NEW u \in All, NEW v \in Slots, NEW r
  PROVE  InSlot(Queued(p, t, w), u, v, r)
           <=> \/ InSlot(p, u, v, r)
               \/ u = t /\ v = Slot(w.intent) /\ r \in w.requests
<1>1. PICK slot \in Slots : slot = Slot(w.intent)
  BY DEF Slot, Slots
<1>2. PICK old \in Wake \union {NoWake} : old = p[t][slot]
  BY DEF PendingSet
<1>3. PICK new : new = IF IsWake(old) THEN Merge(old, w) ELSE w
  OBVIOUS
<1>4. new \in Wake /\ IsWake(new)
  BY <1>3, WakeOrNone, MergeTypes
<1>5. r \in new.requests <=> (IsWake(old) /\ r \in old.requests) \/ r \in w.requests
  BY <1>3, WakeOrNone, MergeTypes
<1>6. Queued(p, t, w) = [p EXCEPT ![t][slot] = new]
  BY <1>1, <1>2, <1>3 DEF Queued
<1>7. Queued(p, t, w)[u][v] = IF u = t /\ v = slot THEN new ELSE p[u][v]
  BY <1>6 DEF PendingSet
<1> QED
  BY <1>1, <1>2, <1>4, <1>5, <1>7 DEF InSlot

\* Wakes that are handed off are queued for their target.
LEMMA HandedOffAt ==
  ASSUME NEW p \in PendingSet, NEW t \in All, NEW q \in {<<>>} \union Turns,
         NEW u \in All, NEW v \in Slots, NEW r
  PROVE  InSlot(HandedOff(p, t, q), u, v, r)
           <=> \/ InSlot(p, u, v, r)
               \/ u = t /\ \E i \in {1, 2} : HasPart(q, i, r) /\ v = Slot(q[i].intent)
<1>1. CASE q = <<>>
  BY <1>1, NoParts DEF HandedOff
<1>2. CASE q \in Turns /\ Len(q) = 1
  <2>1. q[1] \in Wake
    BY <1>2 DEF Turns
  <2>2. HandedOff(p, t, q) = Queued(p, t, q[1])
    BY <1>2 DEF HandedOff
  <2>3. \A i \in {1, 2} : HasPart(q, i, r) <=> i = 1 /\ r \in q[1].requests
    BY <1>2 DEF HasPart
  <2> QED
    BY <2>1, <2>2, <2>3, QueuedAt
<1>3. CASE q \in Turns /\ Len(q) = 2
  <2>1. q[1] \in Wake /\ q[2] \in Wake
    <3>1. Turns \subseteq Seq(Wake)
      BY DEF Turns
    <3>2. q \in Seq(Wake)
      BY <1>3, <3>1
    <3>3. 1 \in 1 .. Len(q) /\ 2 \in 1 .. Len(q)
      BY <1>3
    <3> QED
      BY <3>2, <3>3
  <2>2. PICK p1 \in PendingSet : p1 = Queued(p, t, q[1])
    BY <2>1, QueuedTypes
  <2>3. HandedOff(p, t, q) = Queued(p1, t, q[2])
    BY <1>3, <2>2 DEF HandedOff
  <2>4. /\ HasPart(q, 1, r) <=> r \in q[1].requests
        /\ HasPart(q, 2, r) <=> r \in q[2].requests
    BY <1>3 DEF HasPart
  <2>5. InSlot(p1, u, v, r)
          <=> InSlot(p, u, v, r) \/ (u = t /\ v = Slot(q[1].intent) /\ r \in q[1].requests)
    BY <2>1, <2>2, QueuedAt
  <2>6. InSlot(Queued(p1, t, q[2]), u, v, r)
          <=> InSlot(p1, u, v, r) \/ (u = t /\ v = Slot(q[2].intent) /\ r \in q[2].requests)
    BY <2>1, QueuedAt
  <2> QED
    BY <2>3, <2>4, <2>5, <2>6
<1> QED
  BY <1>1, <1>2, <1>3 DEF Turns

\* The end of a turn's current wake moves its requests to a slot of the target, or
\* to those dealt with.
LEMMA ContinueApart ==
  ASSUME IInv, NEW r, Single(pending, active, settled, r), NEW t \in All, IsActive(t),
         NEW p, NEW b, NEW tm, NEW dealt, Continue(t, p, b, tm, dealt), NEW slot \in Slots,
         \A u \in All, v \in Slots : InSlot(p, u, v, r) =>
           \/ InSlot(pending, u, v, r)
           \/ u = t /\ v = slot /\ r \in Current(t).requests /\ r \notin dealt,
         r \in dealt => r \in Current(t).requests
  PROVE  Single(pending', active', settled', r)
<1>1. active[t].wakes \in Turns
  BY DEF IInv, TypeInv, ActiveSet, IsActive
<1>2. /\ InPart(active, t, 1, r) <=> r \in Current(t).requests
      /\ InPart(active', t, 1, r) => InPart(active, t, 2, r)
      /\ ~InPart(active', t, 2, r)
  <2>1. active'[t].wakes = Tail(active[t].wakes)
    BY DEF Continue, Idle, IInv, TypeInv, ActiveSet
  <2> QED
    BY <1>1, <2>1, TailParts DEF InPart, Current
<1>3. \A u \in All : u # t => \A i \in {1, 2} : InPart(active', u, i, r) => InPart(active, u, i, r)
  <2>1. \A u \in All : u # t => active'[u] = active[u]
    BY DEF Continue, IInv, TypeInv, ActiveSet
  <2> QED
    BY <2>1 DEF InPart
<1>4. pending' = p /\ settled' = settled \union dealt
  BY DEF Continue
<1>5. CASE r \in Current(t).requests
  <2>1. /\ \A u \in All, v \in Slots : ~InSlot(pending, u, v, r)
        /\ \A u \in All, i \in {1, 2} : InPart(active, u, i, r) => u = t /\ i = 1
        /\ r \notin settled
    BY <1>2, <1>5 DEF Single
  <2>2. \A u \in All, i \in {1, 2} : ~InPart(active', u, i, r)
    BY <1>2, <1>3, <2>1
  <2>3. \A u \in All, v \in Slots : InSlot(pending', u, v, r) =>
          u = t /\ v = slot /\ r \notin settled'
    BY <1>4, <2>1
  <2> QED
    BY <2>2, <2>3 DEF Single
<1>6. CASE r \notin Current(t).requests
  <2>1. /\ \A u \in All, v \in Slots : InSlot(pending', u, v, r) => InSlot(pending, u, v, r)
        /\ r \in settled' => r \in settled
    BY <1>4, <1>6
  <2>2. \A u \in All, i \in {1, 2} : InPart(active', u, i, r) =>
          IF u = t THEN i = 1 /\ InPart(active, t, 2, r) ELSE InPart(active, u, i, r)
    BY <1>2, <1>3
  <2> QED
    BY <2>1, <2>2 DEF Single
<1> QED
  BY <1>5, <1>6

\* A wake that is done settles its requests; one that is put back takes them along.
LEMMA SettleApart ==
  ASSUME IInv, NEW r, Single(pending, active, settled, r), NEW t \in All,
         NEW d \in {Retry, Grace},
         WakeDone(t) \/ WakeDeferred(t, d) \/ WakeBlocked(t, d) \/ WakeGuarded(t, d)
  PROVE  Single(pending', active', settled', r)
<1>1. IsActive(t) /\ d \in Delay
  BY LongestIsLongest DEF WakeDone, WakeDeferred, WakeBlocked, WakeGuarded, Running
<1>2. active[t].wakes \in Turns
  BY <1>1 DEF IInv, TypeInv, ActiveSet, IsActive
<1>3. Current(t) \in Wake /\ Current(t).retained \in BOOLEAN
  <2>1. Current(t) \in Wake
    BY <1>2, TailTypes DEF Current
  <2> QED
    BY <2>1 DEF Wake
<1>4. PICK slot \in Slots : slot = Slot(Current(t).intent)
  BY DEF Slot, Slots
<1>5. ASSUME NEW e \in Delay, NEW keep \in BOOLEAN, NEW u \in All, NEW v \in Slots,
             InSlot(Queued(pending, t, Again(Current(t), e, keep)), u, v, r)
      PROVE  \/ InSlot(pending, u, v, r)
             \/ u = t /\ v = slot /\ r \in Current(t).requests
  <2>1. PICK w : w = Again(Current(t), e, keep)
    OBVIOUS
  <2>2. w \in Wake /\ w.requests = Current(t).requests /\ w.intent = Current(t).intent
    BY <1>3, <2>1, LongestIsLongest DEF Again, Wake
  <2>3. pending \in PendingSet
    BY DEF IInv, TypeInv
  <2> QED
    BY <1>4, <1>5, <2>1, <2>2, <2>3, QueuedAt
<1>6. CASE Continue(t, pending, blocked, timer, Current(t).requests)
  BY <1>1, <1>4, <1>6, ContinueApart
<1>7. ASSUME NEW e \in Delay, NEW keep \in BOOLEAN, NEW b, NEW tm,
             Continue(t, Queued(pending, t, Again(Current(t), e, keep)), b, tm, {})
      PROVE  Single(pending', active', settled', r)
  BY <1>1, <1>4, <1>5, <1>7, ContinueApart
<1> QED
  BY <1>1, <1>3, <1>6, <1>7, LongestIsLongest
     DEF WakeDone, WakeDeferred, WakeBlocked, WakeGuarded

\* A replaced handler's turn ends: what it did not finish goes to the slots of its
\* target, and what it did is dealt with.
LEMMA StaleApart ==
  ASSUME IInv, NEW r, Single(pending, active, settled, r), NEW t \in All,
         NEW done \in BOOLEAN, StaleTurnEnds(t, done)
  PROVE  Single(pending', active', settled', r)
<1>1. PICK q \in Turns : q = active[t].wakes
  BY DEF IInv, TypeInv, ActiveSet, IsActive, StaleTurnEnds
<1>2. PICK rest \in {<<>>} \union Turns : rest = Unfinished(t, done)
  BY <1>1, TailTypes DEF Unfinished
<1>3. /\ HasPart(q, 1, r) <=> r \in Current(t).requests
      /\ \A i \in {1, 2} : HasPart(rest, i, r) => HasPart(q, 1, r) \/ HasPart(q, 2, r)
      /\ done /\ HasPart(q, 1, r) => ~HasPart(q, 2, r)
      /\ HasPart(q, 2, r) => ~HasPart(q, 1, r)
  BY <1>1, <1>2, TailParts DEF Unfinished, Current, InPart, Single
<1>4. ASSUME done, HasPart(q, 1, r), NEW i \in {1, 2} PROVE ~HasPart(rest, i, r)
  BY <1>1, <1>2, <1>3, <1>4, TailParts DEF Unfinished
<1>5. ASSUME NEW i \in {1, 2}, NEW j \in {1, 2}, HasPart(rest, i, r), HasPart(rest, j, r)
      PROVE  i = j
  <2>1. CASE rest = q
    BY <1>1, <1>5, <2>1 DEF Single, InPart
  <2>2. CASE rest = Tail(q)
    BY <1>1, <1>5, <2>2, TailParts
  <2> QED
    BY <1>1, <1>2, <2>1, <2>2 DEF Unfinished
<1>6. \A u \in All, v \in Slots : InSlot(pending', u, v, r) =>
        \/ InSlot(pending, u, v, r)
        \/ u = t /\ \E i \in {1, 2} : HasPart(rest, i, r) /\ v = Slot(rest[i].intent)
  <2>1. pending \in PendingSet /\ pending' = HandedOff(pending, t, rest)
    BY <1>2 DEF StaleTurnEnds, IInv, TypeInv
  <2> QED
    BY <2>1, HandedOffAt
<1>7. /\ \A i \in {1, 2} : ~InPart(active', t, i, r)
      /\ \A u \in All : u # t =>
           \A i \in {1, 2} : InPart(active', u, i, r) => InPart(active, u, i, r)
  <2>1. active' = [active EXCEPT ![t] = Idle] /\ active \in ActiveSet
    BY DEF StaleTurnEnds, IInv, TypeInv
  <2>2. active'[t].wakes = <<>> /\ \A u \in All : u # t => active'[u] = active[u]
    BY <2>1 DEF Idle, ActiveSet
  <2> QED
    BY <2>2, NoParts DEF InPart
<1>8. r \in settled' => r \in settled \/ (done /\ HasPart(q, 1, r))
  BY <1>3 DEF StaleTurnEnds
<1>9. CASE HasPart(q, 1, r) \/ HasPart(q, 2, r)
  <2>1. /\ \A u \in All, v \in Slots : ~InSlot(pending, u, v, r)
        /\ \A u \in All, i \in {1, 2} : InPart(active, u, i, r) => u = t
        /\ r \notin settled
    BY <1>1, <1>9 DEF Single, InPart
  <2>2. \A u \in All, i \in {1, 2} : ~InPart(active', u, i, r)
    BY <1>7, <2>1
  <2>3. \A u, u2 \in All, v, v2 \in Slots :
          InSlot(pending', u, v, r) /\ InSlot(pending', u2, v2, r) => u = u2 /\ v = v2
    BY <1>5, <1>6, <2>1
  <2>4. r \in settled' => \A u \in All, v \in Slots : ~InSlot(pending', u, v, r)
    BY <1>4, <1>6, <1>8, <2>1
  <2> QED
    BY <2>2, <2>3, <2>4 DEF Single
<1>10. CASE ~HasPart(q, 1, r) /\ ~HasPart(q, 2, r)
  <2>1. \A u \in All, v \in Slots : InSlot(pending', u, v, r) => InSlot(pending, u, v, r)
    BY <1>3, <1>6, <1>10
  <2>2. \A u \in All, i \in {1, 2} : InPart(active', u, i, r) => InPart(active, u, i, r)
    BY <1>7
  <2>3. r \in settled' => r \in settled
    BY <1>8, <1>10
  <2> QED
    BY <2>1, <2>2, <2>3, NothingNew
<1> QED
  BY <1>9, <1>10

\* Steps that move no request: a replaced or disposed handler, and the time.
LEMMA QuietApart ==
  ASSUME IInv, NEW r, Single(pending, active, settled, r), Register \/ Dispose \/ Pass
  PROVE  Single(pending', active', settled', r)
<1>1. active' = active /\ settled' = settled
  BY DEF Register, Dispose, Pass
<1>2. ASSUME NEW t \in All, NEW s \in Slots, InSlot(pending', t, s, r)
      PROVE  InSlot(pending, t, s, r)
  <2>1. PICK w \in Wake \union {NoWake} : w = pending[t][s]
    BY SlotTypes DEF IInv
  <2>2. CASE Register
    <3>1. pending'[t][s] = Forgiven(w)
      BY <2>1, <2>2 DEF Register
    <3>2. IsWake(Forgiven(w)) => IsWake(w) /\ Forgiven(w).requests = w.requests
      BY WakeOrNone DEF Forgiven, Wake
    <3> QED
      BY <1>2, <2>1, <3>1, <3>2 DEF InSlot
  <2>3. CASE Dispose
    BY <1>2, <2>3 DEF Dispose
  <2>4. CASE Pass
    <3>1. CASE IsWake(w)
      <4>1. w \in Wake
        BY <3>1, WakeOrNone
      <4>2. pending'[t][s] = [w EXCEPT !.ready = Less(@), !.notBefore = Less(@)]
        BY <2>1, <2>4, <3>1 DEF Pass
      <4>3. pending'[t][s].requests = w.requests
        BY <4>1, <4>2 DEF Wake
      <4> QED
        BY <1>2, <2>1, <3>1, <4>3 DEF InSlot
    <3>2. CASE ~IsWake(w)
      BY <1>2, <2>1, <2>4, <3>2 DEF Pass, InSlot, IsWake, NoWake
    <3> QED
      BY <3>1, <3>2
  <2> QED
    BY <2>2, <2>3, <2>4
<1> QED
  BY <1>1, <1>2, NothingNew

\* What is not requested yet is nowhere.
LEMMA NowhereYet ==
  ASSUME IInv, NEW r, r \notin 1 .. requested
  PROVE  /\ \A t \in All, s \in Slots : ~InSlot(pending, t, s, r)
         /\ \A t \in All, i \in {1, 2} : ~InPart(active, t, i, r)
         /\ r \notin settled
<1>1. ~InGroup(pending, r) /\ ~InTurn(active, r) /\ r \notin settled
  BY DEF IInv, Counted
<1>2. \A t \in All : active[t].wakes \in {<<>>} \union Turns
  BY DEF IInv, TypeInv, ActiveSet
<1>3. \A t \in All, i \in {1, 2} : ~InPart(active, t, i, r)
  BY <1>1, <1>2, PartsOfTurn DEF InTurn, InPart
<1> QED
  BY <1>1, <1>3 DEF InGroup, InSlot

\* A request comes into one slot.
LEMMA RequestApart ==
  ASSUME IInv, NEW r, Single(pending, active, settled, r),
         NEW o \in Offers, RequestHeartbeat(o.target, o.intent, o.coalesce)
  PROVE  Single(pending', active', settled', r)
<1>1. PICK id : id = requested + 1
  OBVIOUS
<1>2. PICK w : w = [intent |-> o.intent, requests |-> {id}, sequence |-> id, at |-> id,
                    barrier |-> IF o.target = Global /\ o.intent = "immediate" THEN id ELSE 0,
                    ready |-> o.coalesce, notBefore |-> 0, retained |-> FALSE]
  OBVIOUS
<1>3. o.target \in All /\ o.intent \in Intents /\ o.coalesce \in Delay
  BY OffersAssumption, LongestIsLongest, DelayAssumption DEF Delay
<1>4. id \in Requests /\ id \in 0 .. MaxRequests /\ id \notin 1 .. requested
  BY <1>1, DelayAssumption DEF RequestHeartbeat, Requests, IInv, TypeInv
<1>5. w \in Wake /\ w.requests = {id}
  BY <1>2, <1>3, <1>4, LongestIsLongest, DelayAssumption DEF Wake
<1>6. /\ pending' = Queued(pending, o.target, w) /\ pending \in PendingSet
      /\ active' = active /\ settled' = settled
  BY <1>1, <1>2 DEF RequestHeartbeat, IInv, TypeInv
<1>7. PICK slot \in Slots : slot = Slot(w.intent)
  BY DEF Slot, Slots
<1>8. \A u \in All, v \in Slots : InSlot(pending', u, v, r) =>
        InSlot(pending, u, v, r) \/ (u = o.target /\ v = slot /\ r = id)
  BY <1>3, <1>5, <1>6, <1>7, QueuedAt
<1>9. CASE r = id
  <2>1. /\ \A t \in All, s \in Slots : ~InSlot(pending, t, s, r)
        /\ \A t \in All, i \in {1, 2} : ~InPart(active, t, i, r)
        /\ r \notin settled
    BY <1>4, <1>9, NowhereYet
  <2> QED
    BY <1>6, <1>8, <2>1 DEF Single
<1>10. CASE r # id
  BY <1>6, <1>8, <1>10, NothingNew
<1> QED
  BY <1>9, <1>10

\* Two wakes of a turn share a request only if two slots it was taken from did.
LEMMA TurnApart ==
  ASSUME TypeInv, NEW t \in All, Ready(t) # {}, NEW r,
         \A s, v \in Ready(t) : r \in pending[t][s].requests /\ r \in pending[t][v].requests
           => s = v
  PROVE  ~(HasPart(Turn(t), 1, r) /\ HasPart(Turn(t), 2, r))
<1>1. \A s \in Ready(t) : s \in Slots /\ pending[t][s] \in Wake
  BY WakeOrNone DEF Ready, TypeInv, PendingSet
<1>2. PICK task, event, scheduled :
        /\ task = pending[t]["task"] /\ event = pending[t]["event"]
        /\ scheduled = pending[t]["scheduled"]
  OBVIOUS
<1>3. CASE "task" \in Ready(t) /\ "event" \in Ready(t)
  <2>1. PICK w : w = IF "scheduled" \in Ready(t) THEN Merge(scheduled, task) ELSE task
    OBVIOUS
  <2>2. r \in w.requests =>
          r \in task.requests \/ ("scheduled" \in Ready(t) /\ r \in scheduled.requests)
    BY <1>1, <1>2, <1>3, <2>1, MergeTypes
  <2>3. r \in event.requests => r \notin w.requests
    BY <1>2, <1>3, <2>2
  <2>4. Turn(t) = <<event, w>> \/ Turn(t) = <<w, event>>
    BY <1>2, <1>3, <2>1 DEF Turn
  <2> QED
    BY <2>3, <2>4 DEF HasPart
<1>4. CASE ~("task" \in Ready(t) /\ "event" \in Ready(t))
  <2>1. \E w : Turn(t) = <<w>>
    BY <1>4 DEF Turn
  <2> QED
    BY <2>1 DEF HasPart
<1> QED
  BY <1>3, <1>4

\* The wakes of a batch leave their slots for the turns of their targets.
LEMMA FiringApart ==
  ASSUME IInv, NEW r, Single(pending, active, settled, r), TimerFires, handler
  PROVE  Single(pending', active', settled', r)
<1>1. PICK batch \in SUBSET LookedAt :
        /\ active' = [t \in All |-> IF t \in batch
                                    THEN [wakes |-> Turn(t), generation |-> generation]
                                    ELSE active[t]]
        /\ pending' = [t \in All |-> [s \in Slots |->
             IF t \in batch /\ s \in Taken(t) THEN NoWake ELSE pending[t][s]]]
  BY BatchTaken
<1>2. settled' = settled
  BY DEF TimerFires
<1>3. \A t \in batch : t \in All /\ ~IsActive(t) /\ Ready(t) # {}
  BY LookedAtProperties
<1>4. \A t \in All, s \in Slots : InSlot(pending', t, s, r) =>
        InSlot(pending, t, s, r) /\ ~(t \in batch /\ s \in Ready(t))
  BY <1>1 DEF InSlot, IsWake, NoWake, Taken
<1>5. ASSUME NEW t \in batch, NEW i \in {1, 2}, InPart(active', t, i, r)
      PROVE  \E s \in Ready(t) : InSlot(pending, t, s, r)
  <2>1. active'[t].wakes = Turn(t) /\ t \in All /\ Ready(t) # {}
    BY <1>1, <1>3
  <2>2. Turn(t) \in Turns
        /\ (InWakes(Turn(t), r) <=> \E s \in Ready(t) : r \in pending[t][s].requests)
    BY <2>1, TurnTypes DEF IInv
  <2>3. InWakes(Turn(t), r)
    BY <1>5, <2>1, <2>2, PartsOfTurn DEF InPart
  <2> QED
    BY <2>2, <2>3 DEF InSlot, Ready
<1>6. \A t \in All \ batch, i \in {1, 2} :
        InPart(active', t, i, r) => InPart(active, t, i, r)
  BY <1>1 DEF InPart
<1>7. \A t \in batch : Ready(t) \subseteq Slots
  BY DEF Ready
<1>8. CASE \E t \in batch : \E s \in Ready(t) : InSlot(pending, t, s, r)
  <2>1. PICK t \in batch : \E s \in Ready(t) : InSlot(pending, t, s, r)
    BY <1>8
  <2>2. PICK s \in Ready(t) : InSlot(pending, t, s, r)
    BY <2>1
  <2>3. t \in All /\ s \in Slots
    BY <1>3, <1>7
  <2>4. /\ \A u \in All, v \in Slots : InSlot(pending, u, v, r) => u = t /\ v = s
        /\ \A u \in All, i \in {1, 2} : ~InPart(active, u, i, r)
        /\ r \notin settled
    BY <2>2, <2>3 DEF Single
  <2>5. \A u \in All, v \in Slots : ~InSlot(pending', u, v, r)
    BY <1>4, <2>4
  <2>6. \A u \in All, i \in {1, 2} : InPart(active', u, i, r) => u = t
    BY <1>3, <1>5, <1>6, <1>7, <2>4
  <2>7. ~(InPart(active', t, 1, r) /\ InPart(active', t, 2, r))
    <3>1. \A v, x \in Ready(t) :
            r \in pending[t][v].requests /\ r \in pending[t][x].requests => v = x
      BY <1>7, <2>3, <2>4 DEF Ready, InSlot
    <3>2. ~(HasPart(Turn(t), 1, r) /\ HasPart(Turn(t), 2, r))
      BY <1>3, <3>1, TurnApart DEF IInv
    <3>3. active'[t].wakes = Turn(t)
      BY <1>1, <2>3
    <3> QED
      BY <3>2, <3>3 DEF InPart
  <2> QED
    BY <1>2, <2>4, <2>5, <2>6, <2>7 DEF Single
<1>9. CASE ~\E t \in batch : \E s \in Ready(t) : InSlot(pending, t, s, r)
  <2>1. \A t \in All, i \in {1, 2} : InPart(active', t, i, r) => InPart(active, t, i, r)
    BY <1>5, <1>6, <1>9
  <2> QED
    BY <1>2, <1>4, <2>1, NothingNew
<1> QED
  BY <1>8, <1>9

\* Every step leaves a request in one place.
LEMMA ApartStep ==
  ASSUME IInv, Apart, [Next]_vars
  PROVE  Apart'
<1> SUFFICES ASSUME NEW r PROVE Single(pending', active', settled', r)
  BY DEF Apart
<1>1. Single(pending, active, settled, r)
  BY DEF Apart
<1>2. CASE \E o \in Offers : RequestHeartbeat(o.target, o.intent, o.coalesce)
  BY <1>1, <1>2, RequestApart
<1>3. CASE Register \/ Dispose \/ Pass
  BY <1>1, <1>3, QuietApart
<1>4. CASE TimerFires
  <2>1. CASE handler
    BY <1>1, <1>4, <2>1, FiringApart
  <2>2. CASE ~handler
    BY <1>1, <1>4, <2>2 DEF TimerFires
  <2> QED
    BY <2>1, <2>2
<1>5. ASSUME NEW t \in All, Settles(t) PROVE Single(pending', active', settled', r)
  <2>1. ASSUME NEW done \in BOOLEAN, StaleTurnEnds(t, done)
        PROVE  Single(pending', active', settled', r)
    BY <1>1, <2>1, StaleApart
  <2>2. ASSUME NEW d \in {Retry, Grace},
               WakeDone(t) \/ WakeDeferred(t, d) \/ WakeBlocked(t, d) \/ WakeGuarded(t, d)
        PROVE  Single(pending', active', settled', r)
    BY <1>1, <2>2, SettleApart
  <2> QED
    BY <1>5, <2>1, <2>2 DEF Settles
<1>6. CASE UNCHANGED vars
  BY <1>1, <1>6 DEF vars
<1> QED
  BY <1>2, <1>3, <1>4, <1>5, <1>6 DEF Next

\* Each request is lost nowhere and dealt with once: it is in one slot, in one wake of
\* one turn, or dealt with, whatever is merged, taken together, put back by a refused
\* turn or handed over by a replaced handler (queuePendingWakeReason,
\* takePendingWakeBatch, handOffPendingWakeBatch).
THEOREM ServedOnce == Spec => []DealtWithOnce
<1>1. Init => Apart
  <2> SUFFICES ASSUME Init, NEW r PROVE Single(pending, active, settled, r)
    BY DEF Apart
  <2>1. \A t \in All, s \in Slots : ~InSlot(pending, t, s, r)
    BY DEF Init, InSlot, IsWake, NoWake
  <2>2. \A t \in All, i \in {1, 2} : ~InPart(active, t, i, r)
    BY NoParts DEF Init, Idle, InPart
  <2>3. r \notin settled
    BY DEF Init
  <2> QED
    BY <2>1, <2>2, <2>3 DEF Single
<1>2. IInv /\ Apart /\ [Next]_vars => Apart'
  BY ApartStep
<1>3. Apart /\ NoWakeLost => DealtWithOnce
  <2> SUFFICES ASSUME Apart, NEW r
               PROVE  /\ \A x, y \in InSlots(r) : x = y
                      /\ \A x, y \in InParts(r) : x = y
                      /\ InSlots(r) = {} \/ InParts(r) = {}
                      /\ r \in settled => InSlots(r) = {} /\ InParts(r) = {}
    BY DEF DealtWithOnce
  <2>1. Single(pending, active, settled, r)
    BY DEF Apart
  <2>2. \A x \in InSlots(r) : x \in All \X Slots /\ InSlot(pending, x[1], x[2], r)
    BY DEF InSlots, InSlot
  <2>3. \A x \in InParts(r) : x \in All \X {1, 2} /\ InPart(active, x[1], x[2], r)
    BY DEF InParts, InPart, HasPart
  <2>4. \A x, y \in InSlots(r) : x = y
    BY <2>1, <2>2 DEF Single
  <2>5. \A x, y \in InParts(r) : x = y
    BY <2>1, <2>3 DEF Single
  <2>6. InSlots(r) = {} \/ InParts(r) = {}
    <3> SUFFICES ASSUME NEW x \in InSlots(r), NEW y \in InParts(r) PROVE FALSE
      OBVIOUS
    <3>1. x[1] \in All /\ x[2] \in Slots /\ y[1] \in All /\ y[2] \in {1, 2}
      BY <2>2, <2>3
    <3> QED
      BY <2>1, <2>2, <2>3, <3>1 DEF Single
  <2>7. r \in settled => InSlots(r) = {} /\ InParts(r) = {}
    <3>1. r \in settled => \A x \in InSlots(r) : FALSE
      BY <2>1, <2>2 DEF Single
    <3>2. r \in settled => \A x \in InParts(r) : FALSE
      BY <2>1, <2>3 DEF Single
    <3> QED
      BY <3>1, <3>2
  <2> QED
    BY <2>4, <2>5, <2>6, <2>7
<1> QED
  BY <1>1, <1>2, <1>3, Invariance, NothingLost, PTL DEF Spec
=============================================================================
