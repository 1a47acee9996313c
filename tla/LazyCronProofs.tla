--------------------------- MODULE LazyCronProofs ---------------------------
(***************************************************************************)
(* TLAPS proofs about LazyCron: a held gateway does not tick, a started    *)
(* scheduler is alive, a stop sticks, nothing blocks a suspension but a    *)
(* start that is under way, and every caller awaits the one start there is.*)
(***************************************************************************)
EXTENDS LazyCron, TLAPS

LifecycleTypes ==
  /\ wrapper \in Wrapper /\ service \in Service /\ tick \in Tick /\ body \in Body
  /\ fence \in {"open", "held", "recovering"}

\* Nothing of the service moves before it is loaded.
UnloadedInv ==
  ~Loaded =>
    /\ body.stage = "none" /\ wrapper.phase = "idle"
    /\ ~service.timer /\ ~service.schedulingPaused /\ ~wrapper.servicePaused
    /\ ~wrapper.underlyingStarted /\ ~tick.waiting /\ ~tick.running

\* The wrapper knows whether the service is paused and whether it is starting.
ServiceInv ==
  /\ wrapper.servicePaused <=> service.schedulingPaused
  /\ service.stopped \/ service.schedulingPaused => ~service.timer
  /\ service.startInProgress <=> (body.stage \in {"loading", "arming"})
  /\ wrapper.underlyingStartInFlight <=>
       (body.stage \in {"loading", "arming", "reconciling"})
  /\ wrapper.stopped /\ Loaded => service.stopped
  /\ wrapper.stopped /\ wrapper.load = "loading" => wrapper.cleanup # "none"

\* The start body of the present lifecycle.
Alive == body.stage # "none" /\ body.generation = wrapper.generation
Running ==
  wrapper.phase = "started" \/ (Alive /\ body.stage \in {"reconciling", "watchers"})

\* What a start leaves whose resume of the service threw.
Refused == body.stage = "none" /\ service.schedulerStarted /\ service.schedulingPaused

\* What the phase says of the start body, and the body of the service.
BodyInv ==
  /\ body.stage # "none" => body.generation <= wrapper.generation
  /\ Alive => ~wrapper.stopped /\ wrapper.phase = "starting" /\ body.stage # "teardown"
  /\ Alive /\ service.startInProgress => ~service.overtaken /\ ~service.stopped
  /\ wrapper.phase = "starting" => body.stage \notin {"none", "teardown"} \/ Refused
  /\ wrapper.phase = "started" => body.stage = "none" /\ ~wrapper.stopped
  /\ Running => service.schedulerStarted /\ ~service.stopped
  /\ wrapper.underlyingStarted <=>
       wrapper.phase = "started" \/ (Alive /\ body.stage = "watchers")

\* A running scheduler that is not paused has a timer or a tick.
LiveInv ==
  Running /\ ~service.schedulingPaused => service.timer \/ tick.waiting \/ tick.running

\* The wrapper is paused while the fence is held, and then everything is; once it
\* is open, the service is paused only if no start of it is under way or has
\* succeeded.
FenceInv ==
  /\ wrapper.schedulingPaused <=> (fence = "held")
  /\ fence = "held" /\ Loaded => service.schedulingPaused
  /\ fence = "held" => ~service.startInProgress /\ ~tick.running
  /\ fence = "held" /\ Alive => body.stage = "parked"
  /\ fence = "open" /\ (wrapper.underlyingStarted \/ wrapper.underlyingStartInFlight)
       => ~service.schedulingPaused

\* A call belongs to a lifecycle that its start has begun, and waits for the body
\* that runs; once a body of its lifecycle is over, it knows the outcome.
CallInv(s) ==
  /\ call[s].pc # "idle" => /\ call[s].generation <= wrapper.generation
                            /\ call[s].generation = wrapper.generation => ~wrapper.stopped
  /\ call[s].pc = "run" => body.stage # "none" /\ call[s].generation = body.generation
  /\ call[s].pc = "join" => body.stage # "none" /\ call[s].pending = body.generation
  /\ call[s].pc = "joined" /\ ~call[s].rejected /\ call[s].pending = wrapper.generation
       /\ call[s].generation = wrapper.generation => wrapper.phase = "started"
  /\ call[s].pc = "done" /\ call[s].generation = wrapper.generation
       => wrapper.phase = "started"

\* The body that runs has one call that awaits it as its own.
OneRunner ==
  /\ \A s, t \in Calls : call[s].pc = "run" /\ call[t].pc = "run" => s = t
  /\ body.stage # "none" => \E s \in Calls : call[s].pc = "run"

Lifecycle == UnloadedInv /\ ServiceInv /\ BodyInv /\ LiveInv /\ FenceInv

IInv == TypeOK /\ Lifecycle /\ (\A s \in Calls : CallInv(s)) /\ OneRunner

-----------------------------------------------------------------------------
(* Types.                                                                  *)

\* Every operation on the service returns a service.
LEMMA ServiceTypes ==
  ASSUME NEW v \in Service
  PROVE  /\ Armed(v) \in Service /\ Halted(v) \in Service
         /\ ServiceStopped(v) \in Service /\ ServicePaused(v) \in Service
         /\ ServiceResumed(v) \in Service /\ ServiceBegun(v) \in Service
         /\ ServiceReturned(v) \in Service
<1>1. Armed(v) \in Service /\ Halted(v) \in Service
  BY DEF Armed, Halted, Service
<1>2. ServiceStopped(v) \in Service /\ ServicePaused(v) \in Service
  BY DEF ServiceStopped, Halted, ServicePaused, Service
<1>3. ServiceResumed(v) \in Service
  BY DEF ServiceResumed, Armed, Service
<1>4. ServiceBegun(v) \in Service /\ ServiceReturned(v) \in Service
  BY DEF ServiceBegun, ServiceReturned, Halted, Service
<1> QED
  BY <1>1, <1>2, <1>3, <1>4

\* A state of wrapper, service and start body, as the coordinator treats it.
Whole(x) == x \in [w : Wrapper, v : Service, b : Body]

\* Pausing and resuming keep its type.
LEMMA WholeTypes ==
  ASSUME NEW x, Whole(x)
  PROVE  Whole(Paused(x)) /\ Whole(Unpaused(x)) /\ Whole(Resumed(x))
<1>1. Woken(x.b) \in Body
  BY DEF Whole, Woken, Body
<1>2. /\ [x.w EXCEPT !.schedulingPaused = FALSE] \in Wrapper
      /\ [x.w EXCEPT !.schedulingPaused = TRUE] \in Wrapper
      /\ [x.w EXCEPT !.servicePaused = TRUE, !.schedulingPaused = TRUE] \in Wrapper
  BY DEF Whole, Wrapper
<1>3. Whole(Unpaused(x))
  BY <1>1, <1>2 DEF Whole, Unpaused
<1>4. Whole(Paused(x))
  BY <1>2, ServiceTypes DEF Whole, Paused
<1>5. Whole(Resumed(x))
  <2>1. [Unpaused(x).w EXCEPT !.servicePaused = FALSE] \in Wrapper
    BY <1>3 DEF Whole, Wrapper
  <2> QED
    BY <1>3, <2>1, ServiceTypes DEF Whole, Resumed
<1> QED
  BY <1>3, <1>4, <1>5

\* Every step of the lifecycle keeps the types of its state.
LEMMA LifecycleTyped ==
  ASSUME IInv, Next
  PROVE  LifecycleTypes'
<1> USE DEF IInv, TypeOK, LifecycleTypes
<1>0. ASSUME Whole([w |-> wrapper', v |-> service', b |-> body']),
             tick' = tick, fence' \in {"open", "held", "recovering"}
      PROVE  LifecycleTypes'
  BY <1>0 DEF Whole
<1>a. Whole(Now)
  BY DEF Whole, Now
<1>1. ASSUME PrepareHeld PROVE LifecycleTypes'
  BY <1>1, <1>0, <1>a, WholeTypes DEF PrepareHeld, Becomes, Whole
<1>2. ASSUME PrepareBusy PROVE LifecycleTypes'
  BY <1>2, <1>0, <1>a, WholeTypes DEF PrepareBusy, Becomes, Whole
<1>3. ASSUME PrepareBusyFails PROVE LifecycleTypes'
  BY <1>3, <1>0, <1>a, WholeTypes DEF PrepareBusyFails, Becomes, Whole
<1>4. ASSUME Resume PROVE LifecycleTypes'
  BY <1>4, <1>0, <1>a, WholeTypes DEF Resume, Becomes, Whole
<1>5. ASSUME ResumeFails PROVE LifecycleTypes'
  BY <1>5, <1>0, <1>a, WholeTypes DEF ResumeFails, Becomes, Whole
<1>6. ASSUME Touch PROVE LifecycleTypes'
  <2>1. wrapper' \in Wrapper
    BY <1>6 DEF Touch, Loading, Wrapper
  <2>2. service' \in Service
    BY <1>6, ServiceTypes DEF Touch
  <2> QED
    BY <1>6, <2>1, <2>2 DEF Touch
<1>61. ASSUME MonitorsConverge PROVE LifecycleTypes'
  BY <1>61, ServiceTypes DEF MonitorsConverge
<1>7. ASSUME ImportResolves PROVE LifecycleTypes'
  <2>1. wrapper' \in Wrapper
    BY <1>7 DEF ImportResolves, StopsAfterLoad, Wrapper
  <2>2. service' \in Service
    BY <1>7, ServiceTypes DEF ImportResolves, StopsAfterLoad
  <2> QED
    BY <1>7, <2>1, <2>2 DEF ImportResolves
<1>8. ASSUME ImportRejects PROVE LifecycleTypes'
  BY <1>8 DEF ImportRejects, Wrapper
<1>9. ASSUME NEW s \in Calls, Start(s)
      PROVE  LifecycleTypes'
  BY <1>9 DEF Start, Loading, Wrapper
<1>10. ASSUME NEW s \in Calls, StartRejected(s)
      PROVE  LifecycleTypes'
  BY <1>10 DEF StartRejected
<1>11. ASSUME NEW s \in Calls, StartNeedless(s)
      PROVE  LifecycleTypes'
  BY <1>11 DEF StartNeedless
<1>12. ASSUME NEW s \in Calls, StartJoins(s)
      PROVE  LifecycleTypes'
  BY <1>12 DEF StartJoins
<1>13. ASSUME NEW s \in Calls, StartBegins(s)
      PROVE  LifecycleTypes'
  <2>1. wrapper' \in Wrapper
    BY <1>13 DEF StartBegins, FirstStage, Wrapper
  <2>2. service' \in Service
    BY <1>13, ServiceTypes DEF StartBegins
  <2>3. call[s].generation \in 0 .. MaxStops
    BY <1>13 DEF Call
  <2>4. body' \in Body
    BY <1>13, <2>3 DEF StartBegins, FirstStage, Body
  <2> QED
    BY <1>13, <2>1, <2>2, <2>4 DEF StartBegins
<1>14. ASSUME NEW s \in Calls, JoinEnds(s)
      PROVE  LifecycleTypes'
  BY <1>14 DEF JoinEnds
<1>15. ASSUME NEW s \in Calls, JoinRestarts(s)
      PROVE  LifecycleTypes'
  BY <1>15 DEF JoinRestarts
<1>16. ASSUME BodyGivesUp PROVE LifecycleTypes'
  <2>1. wrapper' \in Wrapper
    BY <1>16 DEF BodyGivesUp, Wrapper
  <2>2. body' \in Body
    BY <1>16 DEF BodyGivesUp, BodyEnds, Body
  <2> QED
    BY <1>16, <2>1, <2>2 DEF BodyGivesUp
<1>17. ASSUME BodyStartsService PROVE LifecycleTypes'
  <2>1. wrapper' \in Wrapper
    BY <1>17 DEF BodyStartsService, Wrapper
  <2>2. service' \in Service
    BY <1>17, ServiceTypes DEF BodyStartsService
  <2>3. body' \in Body
    BY <1>17 DEF BodyStartsService, Body
  <2> QED
    BY <1>17, <2>1, <2>2, <2>3 DEF BodyStartsService
<1>171. ASSUME BodyResumeThrows PROVE LifecycleTypes'
  BY <1>171 DEF BodyResumeThrows, BodyEnds, Body
<1>18. ASSUME StoreLoaded PROVE LifecycleTypes'
  BY <1>18 DEF StoreLoaded, Body
<1>19. ASSUME ServiceStarted PROVE LifecycleTypes'
  <2>1. service' \in Service
    BY <1>19, ServiceTypes DEF ServiceStarted
  <2>2. body' \in Body
    BY <1>19 DEF ServiceStarted, Body
  <2> QED
    BY <1>19, <2>1, <2>2 DEF ServiceStarted
<1>191. ASSUME StartResolves PROVE LifecycleTypes'
  <2>1. wrapper' \in Wrapper
    BY <1>191 DEF StartResolves, Becomes, Stopping, Continuing, Wrapper
  <2>2. service' \in Service
    BY <1>191, ServiceTypes DEF StartResolves, Becomes, Stopping, Continuing
  <2>3. body' \in Body
    BY <1>191 DEF StartResolves, Becomes, Stopping, Continuing, Body
  <2> QED
    BY <1>191, <2>1, <2>2, <2>3 DEF StartResolves
<1>20. ASSUME ServiceStartThrows PROVE LifecycleTypes'
  <2>1. wrapper' \in Wrapper
    BY <1>20 DEF ServiceStartThrows, PhaseUnless, Wrapper
  <2>2. service' \in Service
    BY <1>20 DEF ServiceStartThrows, Service
  <2>3. body' \in Body
    BY <1>20 DEF ServiceStartThrows, BodyEnds, Body
  <2> QED
    BY <1>20, <2>1, <2>2, <2>3 DEF ServiceStartThrows
<1>21. ASSUME WatchersReconciled PROVE LifecycleTypes'
  <2>1. wrapper' \in Wrapper
    BY <1>21 DEF WatchersReconciled, Wrapper
  <2>2. body' \in Body
    BY <1>21 DEF WatchersReconciled, BodyEnds, Body
  <2> QED
    BY <1>21, <2>1, <2>2 DEF WatchersReconciled
<1>22. ASSUME WatchersTooLate PROVE LifecycleTypes'
  <2>1. wrapper' \in Wrapper
    BY <1>22 DEF WatchersTooLate, Becomes, Stopping, Wrapper
  <2>2. service' \in Service
    BY <1>22, ServiceTypes DEF WatchersTooLate, Becomes, Stopping
  <2>3. body' \in Body
    BY <1>22 DEF WatchersTooLate, Becomes, Stopping, Body
  <2> QED
    BY <1>22, <2>1, <2>2, <2>3 DEF WatchersTooLate
<1>23. ASSUME WatchersFail PROVE LifecycleTypes'
  <2>1. wrapper' \in Wrapper
    BY <1>23 DEF WatchersFail, PhaseAfterWatchers, PhaseUnless, Wrapper
  <2>2. body' \in Body
    BY <1>23 DEF WatchersFail, BodyEnds, Body
  <2> QED
    BY <1>23, <2>1, <2>2 DEF WatchersFail
<1>24. ASSUME NEW rejected \in BOOLEAN, TornDown(rejected)
      PROVE  LifecycleTypes'
  BY <1>24 DEF TornDown, BodyEnds, Body
<1>25. ASSUME NEW cleanup \in {"ifStopped", "always"}, Stop(cleanup)
      PROVE  LifecycleTypes'
  <2>0. wrapper.generation + 1 \in 0 .. MaxStops
    BY <1>25, MaxStopsIsNat DEF Stop, Wrapper
  <2>1. wrapper' \in Wrapper
    BY <1>25, <2>0 DEF Stop, Loaded, Woken, Wrapper
  <2>2. service' \in Service
    BY <1>25, ServiceTypes DEF Stop, Loaded
  <2>3. body' \in Body
    BY <1>25 DEF Stop, Loaded, Woken, Body
  <2> QED
    BY <1>25, <2>1, <2>2, <2>3 DEF Stop
<1>26. ASSUME TimerFires PROVE LifecycleTypes'
  <2>1. service' \in Service
    BY <1>26 DEF TimerFires, Service
  <2>2. tick' \in Tick
    BY <1>26 DEF TimerFires, Tick
  <2> QED
    BY <1>26, <2>1, <2>2 DEF TimerFires
<1>27. ASSUME TickSkipped PROVE LifecycleTypes'
  BY <1>27 DEF TickSkipped, Tick
<1>28. ASSUME TickAdmitted PROVE LifecycleTypes'
  <2>1. service' \in Service
    BY <1>28, ServiceTypes DEF TickAdmitted
  <2>2. tick' \in Tick
    BY <1>28 DEF TickAdmitted, Tick
  <2> QED
    BY <1>28, <2>1, <2>2 DEF TickAdmitted
<1>29. ASSUME TickEnds PROVE LifecycleTypes'
  <2>1. service' \in Service
    BY <1>29, ServiceTypes DEF TickEnds
  <2>2. tick' \in Tick
    BY <1>29 DEF TickEnds, Tick
  <2> QED
    BY <1>29, <2>1, <2>2 DEF TickEnds
<1> QED
  BY <1>1, <1>2, <1>3, <1>4, <1>5, <1>6, <1>61, <1>7, <1>8, <1>9, <1>10, <1>11,
     <1>12, <1>13, <1>14, <1>15, <1>16, <1>17, <1>171, <1>18, <1>19, <1>191, <1>20,
     <1>21, <1>22, <1>23, <1>24, <1>25, <1>26, <1>27, <1>28, <1>29
  DEF Next, Suspension, Import, StartSteps, BodySteps, StopNow, StopAndDrain,
      Ticks

-----------------------------------------------------------------------------
(* Pausing and resuming, field by field.                                   *)

\* The coordinator leaves everything else of wrapper, service and body alone.
SameLife(x, y) ==
  /\ y.w.load = x.w.load /\ y.w.cleanup = x.w.cleanup /\ y.w.stopped = x.w.stopped
  /\ y.w.generation = x.w.generation /\ y.w.phase = x.w.phase
  /\ y.w.underlyingStartInFlight = x.w.underlyingStartInFlight
  /\ y.w.underlyingStarted = x.w.underlyingStarted
  /\ y.v.stopped = x.v.stopped /\ y.v.schedulerStarted = x.v.schedulerStarted
  /\ y.v.startInProgress = x.v.startInProgress /\ y.v.overtaken = x.v.overtaken

SamePause(x, y) == y.w.servicePaused = x.w.servicePaused /\ y.v = x.v

\* A pause reaches the service once it is loaded.
LEMMA Pauses ==
  ASSUME NEW x, Whole(x)
  PROVE  /\ SameLife(x, Paused(x)) /\ Paused(x).w.schedulingPaused /\ Paused(x).b = x.b
         /\ IF x.w.load = "loaded"
            THEN /\ Paused(x).w.servicePaused /\ Paused(x).v.schedulingPaused
                 /\ ~Paused(x).v.timer
            ELSE SamePause(x, Paused(x))
<1>1. CASE x.w.load = "loaded"
  <2>1. /\ Paused(x).v = ServicePaused(x.v) /\ Paused(x).b = x.b
        /\ Paused(x).w = [x.w EXCEPT !.servicePaused = TRUE, !.schedulingPaused = TRUE]
    BY <1>1 DEF Paused, Whole
  <2>2. /\ SameLife(x, Paused(x)) /\ Paused(x).w.schedulingPaused
        /\ Paused(x).w.servicePaused /\ Paused(x).v.schedulingPaused /\ ~Paused(x).v.timer
    BY <2>1 DEF SameLife, ServicePaused, Whole, Wrapper, Service
  <2> QED
    BY <1>1, <2>1, <2>2
<1>2. CASE x.w.load # "loaded"
  <2>1. /\ Paused(x).v = x.v /\ Paused(x).b = x.b
        /\ Paused(x).w = [x.w EXCEPT !.schedulingPaused = TRUE]
    BY <1>2 DEF Paused, Whole
  <2>2. SameLife(x, Paused(x)) /\ Paused(x).w.schedulingPaused /\ SamePause(x, Paused(x))
    BY <2>1 DEF SameLife, SamePause, Whole, Wrapper, Service
  <2> QED
    BY <1>2, <2>1, <2>2
<1> QED
  BY <1>1, <1>2

\* A resume wakes the parked body; alone, it leaves the service paused.
LEMMA Unpauses ==
  ASSUME NEW x, Whole(x)
  PROVE  /\ SameLife(x, Unpaused(x)) /\ SamePause(x, Unpaused(x))
         /\ ~Unpaused(x).w.schedulingPaused /\ Unpaused(x).b = Woken(x.b)
<1>1. /\ Unpaused(x).v = x.v /\ Unpaused(x).b = Woken(x.b)
      /\ Unpaused(x).w = [x.w EXCEPT !.schedulingPaused = FALSE]
  BY DEF Unpaused, Whole
<1> QED
  BY <1>1 DEF SameLife, SamePause, Whole, Wrapper, Service

\* Forwarded, it resumes the service, and arms the timer of a started scheduler.
LEMMA Resumes ==
  ASSUME NEW x, Whole(x)
  PROVE  /\ SameLife(x, Resumed(x)) /\ ~Resumed(x).w.schedulingPaused
         /\ Resumed(x).b = Woken(x.b)
         /\ IF Forwards(x)
            THEN /\ ~Resumed(x).w.servicePaused /\ ~Resumed(x).v.schedulingPaused
                 /\ Resumed(x).v.timer = IF x.v.schedulingPaused /\ x.v.schedulerStarted
                                         THEN ~x.v.stopped ELSE x.v.timer
            ELSE SamePause(x, Resumed(x))
<1>1. CASE Forwards(x)
  <2> PICK u : u = Unpaused(x)
    OBVIOUS
  <2>1. /\ SameLife(x, u) /\ ~u.w.schedulingPaused /\ u.b = Woken(x.b) /\ Whole(u)
    BY Unpauses, WholeTypes
  <2>2. /\ Resumed(x).v = ServiceResumed(x.v) /\ Resumed(x).b = u.b
        /\ Resumed(x).w = [u.w EXCEPT !.servicePaused = FALSE]
    BY <1>1, <2>1 DEF Resumed, Whole
  <2>3. /\ ServiceResumed(x.v).stopped = x.v.stopped
        /\ ServiceResumed(x.v).schedulerStarted = x.v.schedulerStarted
        /\ ServiceResumed(x.v).startInProgress = x.v.startInProgress
        /\ ServiceResumed(x.v).overtaken = x.v.overtaken
        /\ ~ServiceResumed(x.v).schedulingPaused
        /\ ServiceResumed(x.v).timer = IF x.v.schedulingPaused /\ x.v.schedulerStarted
                                       THEN ~x.v.stopped ELSE x.v.timer
    BY DEF ServiceResumed, Armed, Whole, Service
  <2>4. /\ Resumed(x).w.load = u.w.load /\ Resumed(x).w.cleanup = u.w.cleanup
        /\ Resumed(x).w.stopped = u.w.stopped /\ Resumed(x).w.generation = u.w.generation
        /\ Resumed(x).w.phase = u.w.phase
        /\ Resumed(x).w.underlyingStartInFlight = u.w.underlyingStartInFlight
        /\ Resumed(x).w.underlyingStarted = u.w.underlyingStarted
        /\ Resumed(x).w.schedulingPaused = u.w.schedulingPaused
        /\ ~Resumed(x).w.servicePaused
    BY <2>1, <2>2 DEF Whole, Wrapper
  <2>5. SameLife(x, Resumed(x))
    BY <2>1, <2>2, <2>3, <2>4 DEF SameLife
  <2> QED
    BY <1>1, <2>1, <2>2, <2>3, <2>4, <2>5
<1>2. CASE ~Forwards(x)
  BY <1>2, Unpauses DEF Resumed
<1> QED
  BY <1>1, <1>2

\* Only a parked body is woken.
LEMMA Wakes ==
  ASSUME NEW b \in Body
  PROVE  /\ Woken(b).generation = b.generation
         /\ Woken(b).stage = IF b.stage = "parked" THEN "resumed" ELSE b.stage
BY DEF Woken, Body

\* So the coordinator keeps the lifecycle, if the wrapper and the service stay paused
\* together and a running scheduler that is not paused stays alive.
LEMMA CoordinatorStep ==
  ASSUME IInv, NEW z, SameLife(Now, z), Becomes(z), tick' = tick,
         z.b = body \/ z.b = Woken(body),
         z.w.servicePaused <=> z.v.schedulingPaused,
         ~Loaded => SamePause(Now, z),
         z.v.timer => ~service.stopped /\ ~z.v.schedulingPaused,
         wrapper.phase = "starting" /\ Refused => z.v.schedulingPaused,
         Running /\ ~z.v.schedulingPaused => z.v.timer \/ tick.waiting \/ tick.running,
         FenceInv'
  PROVE  Lifecycle'
<1>1. /\ UnloadedInv /\ ServiceInv /\ BodyInv /\ LiveInv /\ body \in Body
  BY DEF IInv, TypeOK, Lifecycle
<1>2. /\ wrapper'.load = wrapper.load /\ wrapper'.cleanup = wrapper.cleanup
      /\ wrapper'.stopped = wrapper.stopped /\ wrapper'.generation = wrapper.generation
      /\ wrapper'.phase = wrapper.phase
      /\ wrapper'.underlyingStartInFlight = wrapper.underlyingStartInFlight
      /\ wrapper'.underlyingStarted = wrapper.underlyingStarted
      /\ service'.stopped = service.stopped
      /\ service'.schedulerStarted = service.schedulerStarted
      /\ service'.startInProgress = service.startInProgress
      /\ service'.overtaken = service.overtaken
  BY DEF SameLife, Becomes, Now
<1>3. /\ body'.generation = body.generation
      /\ body'.stage = body.stage \/ (body.stage = "parked" /\ body'.stage = "resumed")
  BY <1>1, Wakes DEF Becomes
<1>4. /\ wrapper'.servicePaused <=> service'.schedulingPaused
      /\ ~Loaded => wrapper'.servicePaused = wrapper.servicePaused /\ service' = service
      /\ service'.timer => ~service.stopped /\ ~service'.schedulingPaused
      /\ wrapper.phase = "starting" /\ Refused => service'.schedulingPaused
      /\ Running /\ ~service'.schedulingPaused => service'.timer \/ tick.waiting \/ tick.running
  BY DEF Becomes, SamePause, Now
<1>5. (Alive' <=> Alive) /\ (Running' <=> Running) /\ (Loaded' <=> Loaded)
  BY <1>2, <1>3 DEF Alive, Running, Loaded
<1>6. UnloadedInv'
  BY <1>1, <1>2, <1>3, <1>4, <1>5 DEF UnloadedInv
<1>7. ServiceInv'
  BY <1>1, <1>2, <1>3, <1>4, <1>5 DEF ServiceInv
<1>8. BodyInv'
  BY <1>1, <1>2, <1>3, <1>4, <1>5 DEF BodyInv, Refused
<1>9. LiveInv'
  BY <1>4, <1>5 DEF LiveInv
<1> QED
  BY <1>6, <1>7, <1>8, <1>9 DEF Lifecycle

-----------------------------------------------------------------------------
(* The lifecycle.                                                          *)

\* Every step keeps what the parts of the lifecycle know of each other: what
\* was being started, paused or stopped when another of them moved.
LEMMA LifecycleStep ==
  ASSUME IInv, Next
  PROVE  Lifecycle'
<1>a. Whole(Now) /\ UnloadedInv /\ ServiceInv /\ BodyInv /\ LiveInv /\ FenceInv
  BY DEF IInv, TypeOK, Lifecycle, Whole, Now
<1>b. Now.w = wrapper /\ Now.v = service /\ Now.b = body
  BY DEF Now
<1>c. /\ Running => service.schedulerStarted /\ ~service.stopped /\ Loaded
      /\ Running => wrapper.underlyingStarted \/ wrapper.underlyingStartInFlight
      /\ wrapper.underlyingStartInFlight \/ wrapper.underlyingStarted => Loaded
      /\ Alive => wrapper.phase = "starting"
      /\ wrapper.phase = "starting" /\ Refused
           => ~wrapper.underlyingStarted /\ ~wrapper.underlyingStartInFlight
      /\ Refused => service.schedulingPaused
  BY <1>a DEF UnloadedInv, ServiceInv, BodyInv, Running, Alive, Refused
<1>1. ASSUME PrepareHeld PROVE Lifecycle'
  <2> PICK z : z = Paused(Now)
    OBVIOUS
  <2>1. /\ SameLife(Now, z) /\ z.w.schedulingPaused /\ z.b = body
        /\ IF Loaded THEN z.w.servicePaused /\ z.v.schedulingPaused /\ ~z.v.timer
                     ELSE SamePause(Now, z)
    BY <1>a, <1>b, Pauses DEF Loaded
  <2>2. /\ Becomes(z) /\ tick' = tick /\ fence' = "held" /\ wrapper.phase # "starting"
        /\ ~service.startInProgress /\ ~tick.running
    BY <1>1 DEF PrepareHeld, Blockers
  <2>3. FenceInv'
    BY <1>b, <1>c, <2>1, <2>2 DEF FenceInv, Becomes, SameLife, Alive, Loaded
  <2>4. /\ z.w.servicePaused <=> z.v.schedulingPaused
        /\ z.v.timer => ~service.stopped /\ ~z.v.schedulingPaused
        /\ Running => z.v.schedulingPaused
    BY <1>a, <1>b, <1>c, <2>1 DEF SamePause, ServiceInv
  <2> QED
    BY <2>1, <2>2, <2>3, <2>4, CoordinatorStep
<1>2. ASSUME PrepareBusy PROVE Lifecycle'
  <2> PICK y : y = Paused(Now)
    OBVIOUS
  <2> PICK z : z = Resumed(y)
    OBVIOUS
  <2>1. /\ SameLife(Now, y) /\ y.b = body /\ Whole(y)
        /\ IF Loaded THEN y.w.servicePaused /\ y.v.schedulingPaused /\ ~y.v.timer
                     ELSE SamePause(Now, y)
    BY <1>a, <1>b, Pauses, WholeTypes DEF Loaded
  <2>2. Forwards(y) <=>
          Loaded /\ (wrapper.underlyingStarted \/ wrapper.underlyingStartInFlight)
    BY <1>b, <2>1 DEF Forwards, SameLife, Loaded
  <2>3. /\ SameLife(y, z) /\ ~z.w.schedulingPaused /\ z.b = Woken(body)
        /\ IF Forwards(y)
           THEN /\ ~z.w.servicePaused /\ ~z.v.schedulingPaused
                /\ z.v.timer = IF y.v.schedulingPaused /\ y.v.schedulerStarted
                               THEN ~y.v.stopped ELSE y.v.timer
           ELSE SamePause(y, z)
    BY <2>1, Resumes
  <2>4. SameLife(Now, z) /\ (~Loaded => SamePause(Now, z))
    BY <2>1, <2>2, <2>3 DEF SameLife, SamePause
  <2>5. Becomes(z) /\ tick' = tick /\ fence' = "open"
    BY <1>2 DEF PrepareBusy
  <2>6. wrapper.underlyingStarted \/ wrapper.underlyingStartInFlight => Forwards(y)
    BY <1>a, <1>c, <2>2 DEF ServiceInv
  <2>7. FenceInv'
    BY <1>b, <2>3, <2>4, <2>5, <2>6 DEF FenceInv, Becomes, SameLife
  <2>8. /\ z.w.servicePaused <=> z.v.schedulingPaused
        /\ z.v.timer => ~service.stopped /\ ~z.v.schedulingPaused
    <3>1. CASE Forwards(y)
      <4>1. y.v.schedulingPaused /\ ~y.v.timer /\ y.v.stopped = service.stopped
        BY <1>b, <2>1, <2>2, <3>1 DEF SameLife
      <4> QED
        BY <2>3, <3>1, <4>1
    <3>2. CASE Loaded /\ ~Forwards(y)
      BY <2>1, <2>3, <3>2 DEF SamePause
    <3>3. CASE ~Loaded
      BY <1>a, <1>b, <2>4, <3>3 DEF SamePause, ServiceInv
    <3> QED
      BY <3>1, <3>2, <3>3
  <2>9. Running => z.v.timer
    BY <1>b, <1>c, <2>1, <2>3, <2>6 DEF SameLife
  <2>10. wrapper.phase = "starting" /\ Refused => z.v.schedulingPaused
    <3>1. CASE Loaded /\ ~Forwards(y)
      BY <2>1, <2>3, <3>1 DEF SamePause
    <3>2. CASE ~Loaded
      BY <1>b, <1>c, <2>4, <3>2 DEF SamePause
    <3> QED
      BY <1>c, <2>2, <3>1, <3>2
  <2> QED
    BY <2>3, <2>4, <2>5, <2>7, <2>8, <2>9, <2>10, CoordinatorStep
<1>3. ASSUME PrepareBusyFails PROVE Lifecycle'
  <2> PICK y : y = Paused(Now)
    OBVIOUS
  <2> PICK z : z = Unpaused(y)
    OBVIOUS
  <2>1. /\ Becomes(z) /\ tick' = tick /\ fence' = "recovering" /\ Forwards(y)
    BY <1>3 DEF PrepareBusyFails, MayThrow
  <2>2. /\ SameLife(Now, y) /\ y.b = body /\ Whole(y)
        /\ IF Loaded THEN y.w.servicePaused /\ y.v.schedulingPaused /\ ~y.v.timer
                     ELSE SamePause(Now, y)
    BY <1>a, <1>b, Pauses, WholeTypes DEF Loaded
  <2>3. Loaded
    BY <1>b, <2>1, <2>2 DEF Forwards, SameLife, Loaded
  <2>4. /\ SameLife(y, z) /\ SamePause(y, z) /\ ~z.w.schedulingPaused /\ z.b = Woken(body)
    BY <2>2, Unpauses
  <2>5. SameLife(Now, z) /\ z.w.servicePaused /\ z.v.schedulingPaused /\ ~z.v.timer
    BY <2>2, <2>3, <2>4 DEF SameLife, SamePause
  <2>6. FenceInv'
    BY <2>1, <2>4 DEF FenceInv, Becomes
  <2> QED
    BY <2>1, <2>3, <2>4, <2>5, <2>6, CoordinatorStep
<1>4. ASSUME Resume PROVE Lifecycle'
  <2> PICK z : z = Resumed(Now)
    OBVIOUS
  <2>1. Becomes(z) /\ tick' = tick /\ fence' = "open"
    BY <1>4 DEF Resume
  <2>2. Forwards(Now) <=>
          /\ Loaded /\ wrapper.servicePaused
          /\ wrapper.underlyingStarted \/ wrapper.underlyingStartInFlight
    BY <1>b DEF Forwards, Loaded
  <2>3. /\ SameLife(Now, z) /\ ~z.w.schedulingPaused /\ z.b = Woken(body)
        /\ IF Forwards(Now)
           THEN /\ ~z.w.servicePaused /\ ~z.v.schedulingPaused
                /\ z.v.timer = IF service.schedulingPaused /\ service.schedulerStarted
                               THEN ~service.stopped ELSE service.timer
           ELSE SamePause(Now, z)
    BY <1>a, <1>b, Resumes
  <2>4. FenceInv'
    BY <1>a, <1>b, <1>c, <2>1, <2>2, <2>3 DEF FenceInv, ServiceInv, Becomes, SameLife, SamePause
  <2>5. /\ z.w.servicePaused <=> z.v.schedulingPaused
        /\ z.v.timer => ~service.stopped /\ ~z.v.schedulingPaused
        /\ ~Loaded => SamePause(Now, z)
    BY <1>a, <1>b, <2>2, <2>3 DEF SamePause, ServiceInv
  <2>6. Running /\ ~z.v.schedulingPaused => z.v.timer \/ tick.waiting \/ tick.running
    BY <1>a, <1>b, <1>c, <2>2, <2>3 DEF SamePause, ServiceInv, LiveInv
  <2>7. wrapper.phase = "starting" /\ Refused => z.v.schedulingPaused
    BY <1>b, <1>c, <2>2, <2>3 DEF SamePause
  <2> QED
    BY <2>1, <2>3, <2>4, <2>5, <2>6, <2>7, CoordinatorStep
<1>5. ASSUME ResumeFails PROVE Lifecycle'
  <2> PICK z : z = Unpaused(Now)
    OBVIOUS
  <2>1. Becomes(z) /\ tick' = tick /\ fence' = "recovering"
    BY <1>5 DEF ResumeFails
  <2>2. /\ SameLife(Now, z) /\ SamePause(Now, z) /\ ~z.w.schedulingPaused
        /\ z.b = Woken(body)
    BY <1>a, <1>b, Unpauses
  <2>3. FenceInv'
    BY <2>1, <2>2 DEF FenceInv, Becomes
  <2>4. /\ z.w.servicePaused <=> z.v.schedulingPaused
        /\ z.v.timer => ~service.stopped /\ ~z.v.schedulingPaused
        /\ Running /\ ~z.v.schedulingPaused => z.v.timer \/ tick.waiting \/ tick.running
    BY <1>a, <1>b, <2>2 DEF SamePause, ServiceInv, LiveInv
  <2>5. wrapper.phase = "starting" /\ Refused => z.v.schedulingPaused
    BY <1>b, <1>c, <2>2 DEF SamePause
  <2> QED
    BY <2>1, <2>2, <2>3, <2>4, <2>5, CoordinatorStep
<1> USE DEF IInv, TypeOK, Wrapper, Service, Tick, Body, Loaded, Lifecycle,
            Alive, Running, Refused, UnloadedInv, ServiceInv, BodyInv, LiveInv, FenceInv
<1>6. ASSUME Touch PROVE Lifecycle'
  BY <1>6 DEF Touch, Loading, Armed
<1>61. ASSUME MonitorsConverge PROVE Lifecycle'
  BY <1>61 DEF MonitorsConverge, Armed
<1>7. ASSUME ImportResolves PROVE Lifecycle'
  BY <1>7 DEF ImportResolves, StopsAfterLoad, ServiceStopped, Halted,
     ServicePaused
<1>8. ASSUME ImportRejects PROVE Lifecycle'
  BY <1>8 DEF ImportRejects
<1>9. ASSUME NEW s \in Calls, Start(s)
      PROVE  Lifecycle'
  BY <1>9 DEF Start, Loading
<1>10. ASSUME NEW s \in Calls, StartRejected(s)
      PROVE  Lifecycle'
  BY <1>10 DEF StartRejected
<1>11. ASSUME NEW s \in Calls, StartNeedless(s)
      PROVE  Lifecycle'
  BY <1>11 DEF StartNeedless
<1>12. ASSUME NEW s \in Calls, StartJoins(s)
      PROVE  Lifecycle'
  BY <1>12 DEF StartJoins
<1>13. ASSUME NEW s \in Calls, StartBegins(s)
      PROVE  Lifecycle'
  BY <1>13 DEF StartBegins, FirstStage, Cancelled, Starting, CallInv, Call
<1>14. ASSUME NEW s \in Calls, JoinEnds(s)
      PROVE  Lifecycle'
  BY <1>14 DEF JoinEnds
<1>15. ASSUME NEW s \in Calls, JoinRestarts(s)
      PROVE  Lifecycle'
  BY <1>15 DEF JoinRestarts
<1>16. ASSUME BodyGivesUp PROVE Lifecycle'
  BY <1>16 DEF BodyGivesUp, BodyCancelled, Cancelled, BodyEnds
<1>17. ASSUME BodyStartsService PROVE Lifecycle'
  BY <1>17 DEF BodyStartsService, BodyCancelled, Cancelled, ServiceBegun,
     ServiceResumed, Armed
<1>171. ASSUME BodyResumeThrows PROVE Lifecycle'
  BY <1>171 DEF BodyResumeThrows, BodyCancelled, Cancelled, BodyEnds, ResumeThrows
<1>18. ASSUME StoreLoaded PROVE Lifecycle'
  BY <1>18 DEF StoreLoaded
<1>19. ASSUME ServiceStarted PROVE Lifecycle'
  BY <1>19 DEF ServiceStarted, ServiceReturned, Armed, Halted
<1>191. ASSUME StartResolves PROVE Lifecycle'
  BY <1>191 DEF StartResolves, BodyCancelled, Cancelled, Becomes, Stopping,
     Continuing, ServiceStopped, Halted, ServicePaused
<1>20. ASSUME ServiceStartThrows PROVE Lifecycle'
  BY <1>20 DEF ServiceStartThrows, BodyCancelled, Cancelled, PhaseUnless,
     BodyEnds
<1>21. ASSUME WatchersReconciled PROVE Lifecycle'
  BY <1>21 DEF WatchersReconciled, BodyCancelled, Cancelled, BodyEnds
<1>22. ASSUME WatchersTooLate PROVE Lifecycle'
  BY <1>22 DEF WatchersTooLate, BodyCancelled, Cancelled, Becomes, Stopping,
     ServiceStopped, Halted
<1>23. ASSUME WatchersFail PROVE Lifecycle'
  BY <1>23 DEF WatchersFail, BodyCancelled, Cancelled, PhaseAfterWatchers,
     PhaseUnless, BodyEnds
<1>24. ASSUME NEW rejected \in BOOLEAN, TornDown(rejected)
      PROVE  Lifecycle'
  BY <1>24 DEF TornDown, BodyEnds
<1>25. ASSUME NEW cleanup \in {"ifStopped", "always"}, Stop(cleanup)
      PROVE  Lifecycle'
  BY <1>25, MaxStopsIsNat DEF Stop, ServiceStopped, Halted, Woken
<1>26. ASSUME TimerFires PROVE Lifecycle'
  BY <1>26 DEF TimerFires
<1>27. ASSUME TickSkipped PROVE Lifecycle'
  BY <1>27 DEF TickSkipped
<1>28. ASSUME TickAdmitted PROVE Lifecycle'
  BY <1>28 DEF TickAdmitted, Armed
<1>29. ASSUME TickEnds PROVE Lifecycle'
  BY <1>29 DEF TickEnds, Armed
<1> QED
  BY <1>1, <1>2, <1>3, <1>4, <1>5, <1>6, <1>61, <1>7, <1>8, <1>9, <1>10, <1>11,
     <1>12, <1>13, <1>14, <1>15, <1>16, <1>17, <1>171, <1>18, <1>19, <1>191, <1>20,
     <1>21, <1>22, <1>23, <1>24, <1>25, <1>26, <1>27, <1>28, <1>29
  DEF Next, Suspension, Import, StartSteps, BodySteps, StopNow, StopAndDrain,
      Ticks

-----------------------------------------------------------------------------
(* The start calls.                                                        *)

GoodCalls == call \in [Calls -> Call] /\ (\A t \in Calls : CallInv(t)) /\ OneRunner

\* A step that moves no call keeps it true: it ends no start body, and the
\* lifecycle goes on, or a stop ends it.
LEMMA CallsRest ==
  ASSUME IInv, call' = call, wrapper.generation \in Nat, wrapper'.generation \in Nat,
         \/ /\ wrapper'.generation = wrapper.generation /\ wrapper'.stopped = wrapper.stopped
            /\ wrapper.phase = "started" => wrapper'.phase = "started"
         \/ wrapper'.generation = wrapper.generation + 1,
         body.stage # "none" => body'.stage # "none" /\ body'.generation = body.generation,
         body.stage = "none" => body'.stage = "none"
  PROVE  GoodCalls'
<1>1. call' \in [Calls -> Call] /\ \A t \in Calls : CallInv(t)
  BY DEF IInv, TypeOK
<1>2. ASSUME NEW t \in Calls PROVE CallInv(t)'
  <2>1. CallInv(t) /\ call'[t] = call[t] /\ call[t].generation \in Nat
    BY <1>1 DEF Call
  <2>2. CASE wrapper'.generation = wrapper.generation
    BY <2>1, <2>2 DEF CallInv
  <2>3. CASE wrapper'.generation = wrapper.generation + 1
    BY <2>1, <2>3 DEF CallInv
  <2> QED
    BY <2>2, <2>3
<1>3. OneRunner'
  BY DEF IInv, OneRunner
<1> QED
  BY <1>1, <1>2, <1>3 DEF GoodCalls

\* The end of a start body settles the calls that wait for it; the calls of the
\* present lifecycle find the scheduler started, unless the body was rejected.
LEMMA CallsSettle ==
  ASSUME IInv, NEW rejected \in BOOLEAN, body.stage # "none", BodyEnds(rejected),
         wrapper'.generation = wrapper.generation, wrapper'.stopped = wrapper.stopped,
         ~rejected /\ Alive => wrapper'.phase = "started"
  PROVE  GoodCalls'
<1>1. /\ call \in [Calls -> Call] /\ call' = Settled(rejected) /\ wrapper.phase # "started"
      /\ body' = [body EXCEPT !.stage = "none"] /\ body \in Body
      /\ \A t \in Calls : CallInv(t)
  BY DEF IInv, TypeOK, Lifecycle, BodyInv, BodyEnds
<1>2. ASSUME NEW t \in Calls
      PROVE  /\ call'[t] \in Call /\ call'[t].generation = call[t].generation
             /\ \/ call'[t].pc = call[t].pc /\ call[t].pc \notin {"run", "join"}
                \/ call[t].pc = "run" /\ call'[t].pc = IF rejected THEN "failed" ELSE "done"
                \/ /\ call[t].pc = "join" /\ call'[t].pc = "joined"
                   /\ call'[t].pending = call[t].pending /\ call'[t].rejected = rejected
             /\ call[t].pc \notin {"run", "join"} => call'[t] = call[t]
  <2>1. call[t] \in Call /\ call'[t] = Settled(rejected)[t]
    BY <1>1
  <2>2. CASE call[t].pc = "run"
    <3>1. call'[t] = [call[t] EXCEPT !.pc = IF rejected THEN "failed" ELSE "done"]
      BY <2>1, <2>2 DEF Settled
    <3> QED
      BY <2>1, <2>2, <3>1 DEF Call
  <2>3. CASE call[t].pc = "join"
    <3>1. call'[t] = [call[t] EXCEPT !.pc = "joined", !.rejected = rejected]
      BY <2>1, <2>3 DEF Settled
    <3> QED
      BY <2>1, <2>3, <3>1 DEF Call
  <2>4. CASE call[t].pc \notin {"run", "join"}
    <3>1. call'[t] = call[t]
      BY <2>1, <2>4 DEF Settled
    <3> QED
      BY <2>1, <2>4, <3>1
  <2> QED
    BY <2>2, <2>3, <2>4
<1>3. call' \in [Calls -> Call]
  <2>1. call' = [t \in Calls |-> call'[t]]
    BY <1>1 DEF Settled
  <2> QED
    BY <1>2, <2>1
<1>4. ASSUME NEW t \in Calls PROVE CallInv(t)'
  <2>1. CallInv(t)
    BY <1>1
  <2>2. CASE call[t].pc \notin {"run", "join"}
    <3>1. call'[t] = call[t]
      BY <1>2, <2>2
    <3> QED
      BY <1>1, <2>1, <2>2, <3>1 DEF CallInv
  <2>3. CASE call[t].pc = "run"
    BY <1>2, <2>1, <2>3 DEF CallInv, Alive
  <2>4. CASE call[t].pc = "join"
    <3>1. /\ call'[t].pc = "joined" /\ call'[t].pending = body.generation
          /\ call'[t].rejected = rejected /\ call'[t].generation = call[t].generation
      BY <1>2, <2>1, <2>4 DEF CallInv
    <3> QED
      BY <2>1, <2>4, <3>1 DEF CallInv, Alive
  <2> QED
    BY <2>2, <2>3, <2>4
<1>5. OneRunner'
  <2>1. body'.stage = "none"
    BY <1>1 DEF Body
  <2>2. \A t \in Calls : call'[t].pc # "run"
    BY <1>2
  <2> QED
    BY <2>1, <2>2 DEF OneRunner
<1> QED
  BY <1>3, <1>4, <1>5 DEF GoodCalls

Moved(s, c) == c \in Call /\ call' = [call EXCEPT ![s] = c]

\* The step leaves the lifecycle and the start body that runs in it as they are,
\* but for a scheduler that may become stopped no more, or started.
KeepsLifecycle ==
  /\ wrapper'.generation = wrapper.generation
  /\ wrapper'.stopped => wrapper.stopped
  /\ wrapper.phase = "started" => wrapper'.phase = "started"
  /\ body.stage # "none" => body'.stage # "none" /\ body'.generation = body.generation

\* A call that has moved to p.
LEMMA CallAt ==
  ASSUME NEW x \in Call, NEW p \in {"load", "run", "join", "done", "failed"}
  PROVE  /\ [x EXCEPT !.pc = p] \in Call
         /\ [x EXCEPT !.pc = p].pc = p /\ [x EXCEPT !.pc = p].generation = x.generation
BY DEF Call

\* A call that has joined the body of g.
LEMMA CallJoined ==
  ASSUME NEW x \in Call, NEW g \in 0 .. MaxStops
  PROVE  /\ [x EXCEPT !.pc = "join", !.pending = g] \in Call
         /\ [x EXCEPT !.pc = "join", !.pending = g].pc = "join"
         /\ [x EXCEPT !.pc = "join", !.pending = g].generation = x.generation
         /\ [x EXCEPT !.pc = "join", !.pending = g].pending = g
BY DEF Call

\* A call that has entered lifecycle g.
LEMMA CallEntered ==
  ASSUME NEW x \in Call, NEW g \in 0 .. MaxStops
  PROVE  /\ Entered(x, g) \in Call
         /\ Entered(x, g).pc = "load" /\ Entered(x, g).generation = g
BY DEF Call, Entered

\* One call moves, in its own lifecycle or into the present one.
LEMMA CallMoves ==
  ASSUME IInv, NEW s \in Calls, NEW c, Moved(s, c), KeepsLifecycle,
         wrapper.generation \in Nat,
         \/ call[s].pc # "idle" /\ c.generation = call[s].generation
         \/ c.generation = wrapper.generation /\ ~wrapper'.stopped,
         c.pc = "run" => body'.stage # "none" /\ c.generation = body'.generation,
         c.pc = "join" => body'.stage # "none" /\ c.pending = body'.generation,
         c.pc # "joined",
         IF c.pc = "run" THEN body.stage = "none"
                         ELSE body' = body /\ call[s].pc # "run",
         c.pc = "done" /\ c.generation = wrapper.generation => wrapper'.phase = "started"
  PROVE  GoodCalls'
<1>1. call \in [Calls -> Call] /\ \A t \in Calls : CallInv(t)
  BY DEF IInv, TypeOK
<1>2. call' \in [Calls -> Call] /\ call'[s] = c /\ \A t \in Calls \ {s} : call'[t] = call[t]
  BY <1>1 DEF Moved
<1>3. CallInv(s)'
  <2>1. CallInv(s)
    BY <1>1
  <2>2. c.generation <= wrapper.generation
    BY <2>1 DEF CallInv
  <2> QED
    BY <1>2, <2>1, <2>2 DEF CallInv, KeepsLifecycle
<1>4. ASSUME NEW t \in Calls \ {s} PROVE CallInv(t)'
  <2>1. CallInv(t) /\ call'[t] = call[t]
    BY <1>1, <1>2
  <2> QED
    BY <2>1 DEF CallInv, KeepsLifecycle
<1>5. OneRunner'
  <2>1. OneRunner /\ CallInv(s) /\ \A t \in Calls : call[t].pc = "run" => body.stage # "none"
    BY <1>1 DEF IInv, CallInv
  <2>2. CASE c.pc = "run"
    BY <1>2, <2>1, <2>2 DEF OneRunner
  <2>3. CASE c.pc # "run"
    BY <1>2, <2>1, <2>3 DEF OneRunner
  <2> QED
    BY <2>2, <2>3
<1> QED
  BY <1>2, <1>3, <1>4, <1>5 DEF GoodCalls

\* Every call stays one of a lifecycle that its start has begun, and one that
\* has returned in the present lifecycle finds the scheduler started.
LEMMA CallsStep ==
  ASSUME IInv, Next
  PROVE  GoodCalls'
<1>a. /\ wrapper \in Wrapper /\ wrapper.generation \in Nat /\ body \in Body
      /\ UnloadedInv /\ BodyInv /\ Whole(Now)
      /\ Now.w = wrapper /\ Now.v = service /\ Now.b = body
  BY MaxStopsIsNat DEF IInv, TypeOK, Lifecycle, Wrapper, Whole, Now
<1>b. /\ Woken(body).generation = body.generation
      /\ body.stage = "none" <=> Woken(body).stage = "none"
  BY <1>a, Wakes
<1>c. ASSUME NEW z, SameLife(Now, z), z.b = body \/ z.b = Woken(body), Becomes(z), call' = call
      PROVE  GoodCalls'
  <2>1. /\ wrapper'.generation = wrapper.generation /\ wrapper'.stopped = wrapper.stopped
        /\ wrapper'.phase = wrapper.phase
    BY <1>a, <1>c DEF SameLife, Becomes
  <2> QED
    BY <1>a, <1>b, <1>c, <2>1, CallsRest DEF Becomes
<1>e. ASSUME NEW s \in Calls PROVE call[s] \in Call /\ CallInv(s)
  BY DEF IInv, TypeOK
<1>f. wrapper' = wrapper /\ body' = body => KeepsLifecycle
  BY DEF KeepsLifecycle
<1>g. wrapper.generation \in 0 .. MaxStops /\ body.generation \in 0 .. MaxStops
  BY <1>a DEF Wrapper, Body
<1>d. ASSUME NEW y, SameLife(Now, y), NEW z, SameLife(y, z) PROVE SameLife(Now, z)
  BY <1>d DEF SameLife
<1>1. ASSUME PrepareHeld PROVE GoodCalls'
  <2>1. SameLife(Now, Paused(Now)) /\ Paused(Now).b = body
    BY <1>a, Pauses
  <2> QED
    BY <1>1, <1>c, <2>1 DEF PrepareHeld
<1>2. ASSUME PrepareBusy PROVE GoodCalls'
  <2>1. SameLife(Now, Paused(Now)) /\ Paused(Now).b = body /\ Whole(Paused(Now))
    BY <1>a, Pauses, WholeTypes
  <2>2. SameLife(Paused(Now), Resumed(Paused(Now))) /\ Resumed(Paused(Now)).b = Woken(body)
    BY <2>1, Resumes
  <2> QED
    BY <1>2, <1>c, <1>d, <2>1, <2>2 DEF PrepareBusy
<1>3. ASSUME PrepareBusyFails PROVE GoodCalls'
  <2>1. SameLife(Now, Paused(Now)) /\ Paused(Now).b = body /\ Whole(Paused(Now))
    BY <1>a, Pauses, WholeTypes
  <2>2. SameLife(Paused(Now), Unpaused(Paused(Now))) /\ Unpaused(Paused(Now)).b = Woken(body)
    BY <2>1, Unpauses
  <2> QED
    BY <1>3, <1>c, <1>d, <2>1, <2>2 DEF PrepareBusyFails
<1>4. ASSUME Resume PROVE GoodCalls'
  <2>1. SameLife(Now, Resumed(Now)) /\ Resumed(Now).b = Woken(body)
    BY <1>a, Resumes
  <2> QED
    BY <1>4, <1>c, <2>1 DEF Resume
<1>5. ASSUME ResumeFails PROVE GoodCalls'
  <2>1. SameLife(Now, Unpaused(Now)) /\ Unpaused(Now).b = Woken(body)
    BY <1>a, Unpauses
  <2> QED
    BY <1>5, <1>c, <2>1 DEF ResumeFails
<1>6. ASSUME Touch PROVE GoodCalls'
  <2>1. /\ wrapper'.generation = wrapper.generation /\ wrapper'.stopped = wrapper.stopped
        /\ wrapper'.phase = wrapper.phase
    BY <1>6, <1>a DEF Touch, Loading, Wrapper
  <2> QED
    BY <1>6, <1>a, <2>1, CallsRest DEF Touch
<1>61. ASSUME MonitorsConverge PROVE GoodCalls'
  BY <1>61, <1>a, CallsRest DEF MonitorsConverge
<1>7. ASSUME ImportResolves PROVE GoodCalls'
  <2>1. /\ wrapper'.generation = wrapper.generation /\ wrapper'.stopped = wrapper.stopped
        /\ wrapper.phase = "idle"
    BY <1>7, <1>a DEF ImportResolves, Wrapper, UnloadedInv, Loaded
  <2> QED
    BY <1>7, <1>a, <2>1, CallsRest DEF ImportResolves
<1>8. ASSUME ImportRejects PROVE GoodCalls'
  <2>1. /\ wrapper'.generation = wrapper.generation /\ wrapper'.stopped = wrapper.stopped
        /\ wrapper'.phase = wrapper.phase
    BY <1>8, <1>a DEF ImportRejects, Wrapper
  <2> QED
    BY <1>8, <1>a, <2>1, CallsRest DEF ImportRejects
<1>9. ASSUME NEW s \in Calls, Start(s)
      PROVE  GoodCalls'
  <2> PICK c : c = Entered(call[s], wrapper.generation)
    OBVIOUS
  <2>1. c \in Call /\ c.pc = "load" /\ c.generation = wrapper.generation
    BY <1>e, <1>g, CallEntered
  <2>2. call' = [call EXCEPT ![s] = c]
    BY <1>9, <1>e DEF Start
  <2>3. /\ wrapper'.generation = wrapper.generation /\ ~wrapper'.stopped
        /\ wrapper'.phase = wrapper.phase /\ body' = body /\ call[s].pc = "idle"
    BY <1>9, <1>a DEF Start, Loading, Wrapper
  <2>4. KeepsLifecycle
    BY <2>3 DEF KeepsLifecycle
  <2>5. Moved(s, c)
    BY <2>1, <2>2 DEF Moved
  <2> QED
    BY <1>a, <2>1, <2>3, <2>4, <2>5, CallMoves
<1>10. ASSUME NEW s \in Calls, StartRejected(s)
      PROVE  GoodCalls'
  <2> PICK c : c = [call[s] EXCEPT !.pc = "failed"]
    OBVIOUS
  <2>1. c \in Call /\ c.pc = "failed" /\ c.generation = call[s].generation
    BY <1>e, CallAt
  <2>2. call' = [call EXCEPT ![s] = c]
    BY <1>10, <1>e DEF StartRejected
  <2>3. /\ KeepsLifecycle /\ wrapper' = wrapper /\ body' = body
        /\ call[s].pc \notin {"idle", "run"}
    BY <1>10, <1>f DEF StartRejected
  <2>4. Moved(s, c)
    BY <2>1, <2>2 DEF Moved
  <2> QED
    BY <1>a, <2>1, <2>3, <2>4, CallMoves
<1>11. ASSUME NEW s \in Calls, StartNeedless(s)
      PROVE  GoodCalls'
  <2> PICK c : c = [call[s] EXCEPT !.pc = "done"]
    OBVIOUS
  <2>1. c \in Call /\ c.pc = "done" /\ c.generation = call[s].generation
    BY <1>e, CallAt
  <2>2. call' = [call EXCEPT ![s] = c]
    BY <1>11, <1>e DEF StartNeedless
  <2>3. /\ KeepsLifecycle /\ wrapper' = wrapper /\ body' = body
        /\ call[s].pc \notin {"idle", "run"}
    BY <1>11, <1>f DEF StartNeedless
  <2>4. call[s].generation = wrapper.generation => wrapper.phase = "started"
    BY <1>11, <1>e DEF StartNeedless, Cancelled, CallInv
  <2>5. Moved(s, c)
    BY <2>1, <2>2 DEF Moved
  <2> QED
    BY <1>a, <2>1, <2>3, <2>4, <2>5, CallMoves
<1>12. ASSUME NEW s \in Calls, StartJoins(s)
      PROVE  GoodCalls'
  <2> PICK c : c = [call[s] EXCEPT !.pc = "join", !.pending = body.generation]
    OBVIOUS
  <2>1. /\ c \in Call /\ c.pc = "join" /\ c.generation = call[s].generation
        /\ c.pending = body.generation
    BY <1>e, <1>g, CallJoined
  <2>2. call' = [call EXCEPT ![s] = c]
    BY <1>12, <1>e DEF StartJoins
  <2>3. /\ KeepsLifecycle /\ wrapper' = wrapper /\ body' = body
        /\ call[s].pc \notin {"idle", "run"} /\ body.stage # "none"
    BY <1>12, <1>f DEF StartJoins, Starting
  <2>4. Moved(s, c)
    BY <2>1, <2>2 DEF Moved
  <2> QED
    BY <1>a, <2>1, <2>3, <2>4, CallMoves
<1>13. ASSUME NEW s \in Calls, StartBegins(s)
      PROVE  GoodCalls'
  <2> PICK c : c = [call[s] EXCEPT !.pc = "run"]
    OBVIOUS
  <2>1. c \in Call /\ c.pc = "run" /\ c.generation = call[s].generation
    BY <1>e, CallAt
  <2>2. call' = [call EXCEPT ![s] = c]
    BY <1>13, <1>e DEF StartBegins
  <2>3. /\ call[s].pc # "idle" /\ wrapper.phase # "started" /\ body.stage = "none"
        /\ body'.stage # "none" /\ body'.generation = call[s].generation
    BY <1>13 DEF StartBegins, FirstStage, Starting
  <2>4. wrapper'.generation = wrapper.generation /\ wrapper'.stopped = wrapper.stopped
    BY <1>13, <1>a DEF StartBegins, Wrapper
  <2>5. KeepsLifecycle
    BY <2>3, <2>4 DEF KeepsLifecycle
  <2>6. Moved(s, c)
    BY <2>1, <2>2 DEF Moved
  <2> QED
    BY <1>a, <2>1, <2>3, <2>5, <2>6, CallMoves
<1>14. ASSUME NEW s \in Calls, JoinEnds(s)
      PROVE  GoodCalls'
  <2> PICK p \in {"done", "failed"} : p = IF OwnRejection(s) THEN "failed" ELSE "done"
    OBVIOUS
  <2> PICK c : c = [call[s] EXCEPT !.pc = p]
    OBVIOUS
  <2>1. c \in Call /\ c.pc = p /\ c.generation = call[s].generation
    BY <1>e DEF Call
  <2>2. call' = [call EXCEPT ![s] = c]
    BY <1>14, <1>e DEF JoinEnds
  <2>3. /\ KeepsLifecycle /\ wrapper' = wrapper /\ body' = body
        /\ call[s].pc \notin {"idle", "run"}
    BY <1>14, <1>f DEF JoinEnds
  <2>4. c.pc = "done" /\ call[s].generation = wrapper.generation => wrapper.phase = "started"
    BY <1>14, <1>e, <2>1 DEF JoinEnds, JoinDecided, Cancelled, CallInv
  <2>5. c.pc # "run"
    BY <2>1
  <2>6. Moved(s, c)
    BY <2>1, <2>2 DEF Moved
  <2> QED
    BY <1>a, <2>1, <2>3, <2>4, <2>5, <2>6, CallMoves
<1>15. ASSUME NEW s \in Calls, JoinRestarts(s)
      PROVE  GoodCalls'
  <2> PICK c : c = Entered(call[s], wrapper.generation)
    OBVIOUS
  <2>1. c \in Call /\ c.pc = "load" /\ c.generation = wrapper.generation
    BY <1>e, <1>g, CallEntered
  <2>2. call' = [call EXCEPT ![s] = c]
    BY <1>15, <1>e DEF JoinRestarts
  <2>3. /\ KeepsLifecycle /\ wrapper' = wrapper /\ body' = body
        /\ call[s].pc \notin {"idle", "run"}
    BY <1>15, <1>f DEF JoinRestarts
  <2>4. ~wrapper.stopped
    BY <1>15 DEF JoinRestarts, JoinDecided, Cancelled
  <2>5. Moved(s, c)
    BY <2>1, <2>2 DEF Moved
  <2> QED
    BY <1>a, <2>1, <2>3, <2>4, <2>5, CallMoves
<1>16. ASSUME BodyGivesUp PROVE GoodCalls'
  <2>1. wrapper'.generation = wrapper.generation /\ wrapper'.stopped = wrapper.stopped /\ ~Alive
    BY <1>16, <1>a DEF BodyGivesUp, BodyCancelled, Cancelled, Wrapper, Alive, BodyInv
  <2> QED
    BY <1>16, <2>1, CallsSettle DEF BodyGivesUp
<1>17. ASSUME BodyStartsService PROVE GoodCalls'
  <2>1. /\ wrapper'.generation = wrapper.generation /\ wrapper'.stopped = wrapper.stopped
        /\ wrapper'.phase = wrapper.phase
        /\ body'.stage # "none" /\ body'.generation = body.generation
    BY <1>17, <1>a DEF BodyStartsService, Wrapper, Body
  <2> QED
    BY <1>17, <1>a, <2>1, CallsRest DEF BodyStartsService
<1>171. ASSUME BodyResumeThrows PROVE GoodCalls'
  BY <1>171, CallsSettle DEF BodyResumeThrows
<1>18. ASSUME StoreLoaded PROVE GoodCalls'
  <2>1. body'.stage # "none" /\ body'.generation = body.generation
    BY <1>18, <1>a DEF StoreLoaded, Body
  <2> QED
    BY <1>18, <1>a, <2>1, CallsRest DEF StoreLoaded
<1>19. ASSUME ServiceStarted PROVE GoodCalls'
  <2>1. body'.stage # "none" /\ body'.generation = body.generation
    BY <1>19, <1>a DEF ServiceStarted, Body
  <2> QED
    BY <1>19, <1>a, <2>1, CallsRest DEF ServiceStarted
<1>191. ASSUME StartResolves PROVE GoodCalls'
  <2>1. /\ wrapper'.generation = wrapper.generation /\ wrapper'.stopped = wrapper.stopped
        /\ wrapper.phase # "started"
    BY <1>191, <1>a DEF StartResolves, Becomes, Stopping, Continuing, Wrapper, BodyInv
  <2>2. body'.stage # "none" /\ body'.generation = body.generation
    BY <1>191, <1>a DEF StartResolves, Becomes, Stopping, Continuing, Body
  <2> QED
    BY <1>191, <1>a, <2>1, <2>2, CallsRest DEF StartResolves
<1>20. ASSUME ServiceStartThrows PROVE GoodCalls'
  <2>1. wrapper'.generation = wrapper.generation /\ wrapper'.stopped = wrapper.stopped
    BY <1>20, <1>a DEF ServiceStartThrows, Wrapper
  <2> QED
    BY <1>20, <2>1, CallsSettle DEF ServiceStartThrows
<1>21. ASSUME WatchersReconciled PROVE GoodCalls'
  <2>1. /\ wrapper'.generation = wrapper.generation /\ wrapper'.stopped = wrapper.stopped
        /\ wrapper'.phase = "started"
    BY <1>21, <1>a DEF WatchersReconciled, Wrapper
  <2> QED
    BY <1>21, <2>1, CallsSettle DEF WatchersReconciled
<1>22. ASSUME WatchersTooLate PROVE GoodCalls'
  <2>1. /\ wrapper'.generation = wrapper.generation /\ wrapper'.stopped = wrapper.stopped
        /\ wrapper.phase # "started"
    BY <1>22, <1>a DEF WatchersTooLate, Becomes, Stopping, Wrapper, BodyInv
  <2>2. body'.stage # "none" /\ body'.generation = body.generation
    BY <1>22, <1>a DEF WatchersTooLate, Becomes, Stopping, Body
  <2> QED
    BY <1>22, <1>a, <2>1, <2>2, CallsRest DEF WatchersTooLate
<1>23. ASSUME WatchersFail PROVE GoodCalls'
  <2>1. wrapper'.generation = wrapper.generation /\ wrapper'.stopped = wrapper.stopped
    BY <1>23, <1>a DEF WatchersFail, Wrapper
  <2> QED
    BY <1>23, <2>1, CallsSettle DEF WatchersFail
<1>24. ASSUME NEW rejected \in BOOLEAN, TornDown(rejected)
      PROVE  GoodCalls'
  <2>1. ~Alive
    BY <1>24, <1>a DEF TornDown, BodyInv
  <2> QED
    BY <1>24, <2>1, CallsSettle DEF TornDown
<1>25. ASSUME NEW cleanup \in {"ifStopped", "always"}, Stop(cleanup)
      PROVE  GoodCalls'
  <2>1. wrapper'.generation = wrapper.generation + 1
    BY <1>25, <1>a DEF Stop, Wrapper
  <2> QED
    BY <1>25, <1>a, <1>b, <2>1, CallsRest DEF Stop
<1>26. ASSUME TimerFires PROVE GoodCalls'
  BY <1>26, <1>a, CallsRest DEF TimerFires
<1>27. ASSUME TickSkipped PROVE GoodCalls'
  BY <1>27, <1>a, CallsRest DEF TickSkipped
<1>28. ASSUME TickAdmitted PROVE GoodCalls'
  BY <1>28, <1>a, CallsRest DEF TickAdmitted
<1>29. ASSUME TickEnds PROVE GoodCalls'
  BY <1>29, <1>a, CallsRest DEF TickEnds
<1> QED
  BY <1>1, <1>2, <1>3, <1>4, <1>5, <1>6, <1>61, <1>7, <1>8, <1>9, <1>10, <1>11,
     <1>12, <1>13, <1>14, <1>15, <1>16, <1>17, <1>171, <1>18, <1>19, <1>191, <1>20,
     <1>21, <1>22, <1>23, <1>24, <1>25, <1>26, <1>27, <1>28, <1>29
  DEF Next, Suspension, Import, StartSteps, BodySteps, StopNow, StopAndDrain,
      Ticks

-----------------------------------------------------------------------------
(* The theorems.                                                           *)

\* The inductive invariant holds of every behaviour.
LEMMA Invariance == Spec => []IInv
<1>1. Init => IInv
  <2> SUFFICES ASSUME Init PROVE IInv
    OBVIOUS
  <2>1. 0 \in 0 .. MaxStops
    BY MaxStopsIsNat
  <2>2. TypeOK
    BY <2>1 DEF Init, TypeOK, Wrapper, Service, Tick, Body, Call
  <2>3. Lifecycle
    BY <2>1 DEF Init, Lifecycle, UnloadedInv, ServiceInv, BodyInv, LiveInv,
       FenceInv, Loaded, Alive, Running, Refused
  <2>4. (\A s \in Calls : CallInv(s)) /\ OneRunner
    BY DEF Init, CallInv, OneRunner
  <2> QED
    BY <2>2, <2>3, <2>4 DEF IInv
<1>2. IInv /\ [Next]_vars => IInv'
  <2>1. ASSUME IInv, Next PROVE IInv'
    BY <2>1, LifecycleTyped, LifecycleStep, CallsStep
    DEF IInv, TypeOK, LifecycleTypes, GoodCalls
  <2>2. ASSUME IInv, UNCHANGED vars PROVE IInv'
    BY <2>2 DEF vars, IInv, TypeOK, Lifecycle, UnloadedInv, ServiceInv, BodyInv,
       LiveInv, FenceInv, CallInv, OneRunner, Loaded, Alive, Running, Refused
  <2> QED
    BY <2>1, <2>2
<1> QED
  BY <1>1, <1>2, PTL DEF Spec

\* Every variable has its type in every reachable state.
THEOREM TypeCorrect == Spec => []TypeOK
<1>1. IInv => TypeOK
  BY DEF IInv
<1> QED
  BY <1>1, Invariance, PTL

\* While the host holds the fence, prepareGatewaySuspend has silenced the
\* scheduler for good: nothing that was loading, starting or parked can arm it.
THEOREM HeldQuiet == Spec => []HeldDoesNotTick
<1>1. IInv => HeldDoesNotTick
  BY DEF IInv, Lifecycle, UnloadedInv, ServiceInv, FenceInv, HeldDoesNotTick
<1> QED
  BY <1>1, Invariance, PTL

\* A scheduler that startService has reported started stays alive, through
\* every pause, rollback, failed resume, touch and tick.
THEOREM SchedulerAlive == Spec => []NoSilentDeath
<1>1. IInv => NoSilentDeath
  BY DEF IInv, Lifecycle, BodyInv, LiveInv, FenceInv, Running, NoSilentDeath
<1> QED
  BY <1>1, Invariance, PTL

\* A stop of the wrapper stops the service behind it, whenever it comes.
THEOREM StopsStick == Spec => []StopSticks
<1>1. IInv => StopSticks
  BY DEF IInv, Lifecycle, ServiceInv, StopSticks
<1> QED
  BY <1>1, Invariance, PTL

\* A start() that returned normally, and that no stop has overtaken, has
\* started the scheduler, also when it joined the start of another caller.
THEOREM StartsDelivered == Spec => []ReturnedMeansStarted
<1>1. IInv => ReturnedMeansStarted
  BY DEF IInv, Lifecycle, BodyInv, Running, CallInv, Cancelled,
     ReturnedMeansStarted
<1> QED
  BY <1>1, Invariance, PTL

\* The phase "starting", which blocks every suspension, belongs to a start body
\* that is still there to leave it, unless the resume in such a body threw.
THEOREM BlockerBounded == Spec => []NoStuckBlocker
<1>1. IInv => NoStuckBlocker
  BY DEF IInv, Lifecycle, BodyInv, Refused, Starting, NoStuckBlocker
<1> QED
  BY <1>1, Invariance, PTL

\* The start in flight is one, and whoever awaits it awaits that one: clearing
\* resolved.startPromise leaves no caller of start() behind on an older promise.
THEOREM OneStartInFlight == Spec => []SingleFlight
<1>1. IInv => SingleFlight
  BY DEF IInv, CallInv, OneRunner, Starting, SingleFlight
<1> QED
  BY <1>1, Invariance, PTL

\* After a joined start of its own generation, start() returns or throws; the code
\* below it, which would begin a second start, is never reached.
THEOREM JoinersDecided == Spec => []OwnStartDecides
<1>1. IInv => OwnStartDecides
  BY DEF IInv, CallInv, OwnRejection, Cancelled, JoinDecided, OwnStartDecides
<1> QED
  BY <1>1, Invariance, PTL
=============================================================================
