------------------------------ MODULE LazyCron ------------------------------
(***************************************************************************)
(* The lifecycle of the cron scheduler: the lazily loaded wrapper the      *)
(* gateway holds (src/gateway/server-cron-lazy.ts), the service behind it  *)
(* (src/cron/service.ts, src/cron/service/ops-lifecycle.ts), what the      *)
(* gateway adds to its start (src/gateway/server-cron.ts) and its timer    *)
(* (src/cron/service/timer-scheduler.ts), under start, stop, stop and      *)
(* drain, and the pause and resume of a host suspension.                   *)
(*                                                                         *)
(* Start calls are asynchronous: the code after each await is an action.   *)
(* Stop, pause and resume are synchronous and may fall between any two of  *)
(* them.  The scheduler is enabled and has jobs, so it has something to    *)
(* arm a timer for.                                                        *)
(***************************************************************************)
EXTENDS Naturals

CONSTANTS
  Calls,            \* calls of start()
  MaxStops          \* bound: calls of stop() and stopAndDrain()

ASSUME MaxStopsIsNat == MaxStops \in Nat

VARIABLES
  wrapper,          \* the closure of createLazyGatewayCronState, and `loaded'
  service,          \* the CronServiceState of the loaded service
  tick,             \* what the timer's callback is doing
  body,             \* the start body behind resolved.startPromise
  call,             \* the start calls
  fence             \* what the suspension coordinator holds

vars == <<wrapper, service, tick, body, call, fence>>

\* `cleanup' is what a stop during the import left to be done after it.
Wrapper == [load : {"unloaded", "loading", "loaded", "failed"},
            cleanup : {"none", "ifStopped", "always"},
            stopped : BOOLEAN, generation : 0 .. MaxStops,
            schedulingPaused : BOOLEAN,
            phase : {"idle", "starting", "started", "stopped"},
            servicePaused : BOOLEAN,         \* loaded.schedulingPaused
            underlyingStartInFlight : BOOLEAN, underlyingStarted : BOOLEAN]

\* `overtaken': stop() was called since the start in progress began, that is,
\* the service's lifecycleGeneration is no longer the start's.
Service == [stopped : BOOLEAN, schedulingPaused : BOOLEAN,
            schedulerStarted : BOOLEAN, startInProgress : BOOLEAN,
            overtaken : BOOLEAN, timer : BOOLEAN]

Tick == [waiting : BOOLEAN, running : BOOLEAN]

Body == [stage : {"none", "parked", "resumed", "loading", "arming",
                  "reconciling", "watchers", "teardown"},
         generation : 0 .. MaxStops]

\* `pending' is the generation of the start body a call waits for, and
\* `rejected' says how that body ended.
Call == [pc : {"idle", "load", "run", "join", "joined", "done", "failed"},
         generation : 0 .. MaxStops, pending : 0 .. MaxStops,
         rejected : BOOLEAN]

\* Every variable has its type.
TypeOK ==
  /\ wrapper \in Wrapper
  /\ service \in Service
  /\ tick \in Tick
  /\ body \in Body
  /\ call \in [Calls -> Call]
  /\ fence \in {"open", "held", "recovering"}

Loaded == wrapper.load = "loaded"
Starting == body.stage # "none"              \* resolved.startPromise is set
Cancelled(g) == wrapper.stopped \/ g # wrapper.generation

-----------------------------------------------------------------------------
(* The service.                                                            *)

ArmedUnlessStopped(v) == [v EXCEPT !.timer = ~v.stopped]    \* mutant of Armed
Armed(v) == [v EXCEPT !.timer = ~v.stopped /\ ~v.schedulingPaused]

Halted(v) == [v EXCEPT !.stopped = TRUE, !.schedulerStarted = FALSE,
                       !.timer = FALSE]
ServiceStopped(v) == [Halted(v) EXCEPT !.overtaken = TRUE]

ServicePaused(v) == [v EXCEPT !.schedulingPaused = TRUE, !.timer = FALSE]

\* resumeScheduling throws only when arming the timer does, and the service is
\* paused again then.
ResumeThrows(v) == v.schedulingPaused /\ v.schedulerStarted
ServiceResumed(v) ==
  LET on == [v EXCEPT !.schedulingPaused = FALSE]
  IN  IF v.schedulingPaused /\ v.schedulerStarted THEN Armed(on) ELSE on

ServiceBegun(v) ==
  [v EXCEPT !.stopped = FALSE, !.schedulerStarted = FALSE,
            !.startInProgress = TRUE, !.overtaken = FALSE]

\* lifecycleOps.start has returned to startOnce.
ServiceReturned(v) ==
  [(IF v.overtaken THEN Halted(v) ELSE [v EXCEPT !.schedulerStarted = ~v.stopped])
     EXCEPT !.startInProgress = FALSE]

-----------------------------------------------------------------------------
(* The wrapper as the coordinator uses it: what pausing and resuming make  *)
(* of a state [w, v, b] of wrapper, service and start body.                *)

Now == [w |-> wrapper, v |-> service, b |-> body]

Woken(b) == [b EXCEPT !.stage = IF @ = "parked" THEN "resumed" ELSE @]

Paused(x) ==
  IF x.w.load = "loaded"
  THEN [x EXCEPT !.v = ServicePaused(x.v), !.w.servicePaused = TRUE,
                 !.w.schedulingPaused = TRUE]
  ELSE [x EXCEPT !.w.schedulingPaused = TRUE]

ForwardsStarted(x) ==                             \* mutant of Forwards
  x.w.load = "loaded" /\ x.w.servicePaused /\ x.w.underlyingStarted
Forwards(x) ==
  /\ x.w.load = "loaded" /\ x.w.servicePaused
  /\ x.w.underlyingStarted \/ x.w.underlyingStartInFlight

UnpausedOnly(x) == [x EXCEPT !.w.schedulingPaused = FALSE]  \* mutant of Unpaused
Unpaused(x) == [x EXCEPT !.w.schedulingPaused = FALSE, !.b = Woken(x.b)]

Resumed(x) ==
  IF Forwards(x)
  THEN [Unpaused(x) EXCEPT !.v = ServiceResumed(x.v), !.w.servicePaused = FALSE]
  ELSE Unpaused(x)

MayThrow(x) == Forwards(x) /\ ResumeThrows(x.v)

\* What a suspension counts: a start in progress, and a tick, which holds a
\* root of the admission.
Blockers == wrapper.phase = "starting" \/ service.startInProgress \/ tick.running

Becomes(x) == wrapper' = x.w /\ service' = x.v /\ body' = x.b

\* prepareGatewaySuspend is synchronous: it pauses, counts, and keeps the
\* fence or resumes at once.  Other work of the gateway may refuse it too.
PrepareHeld ==
  /\ fence = "open" /\ ~Blockers
  /\ Becomes(Paused(Now))
  /\ fence' = "held"
  /\ UNCHANGED <<tick, call>>

PrepareBusy ==
  /\ fence = "open"
  /\ Becomes(Resumed(Paused(Now)))
  /\ UNCHANGED <<fence, tick, call>>

PrepareBusyFails ==
  /\ fence = "open"
  /\ MayThrow(Paused(Now))
  /\ Becomes(Unpaused(Paused(Now)))
  /\ fence' = "recovering"
  /\ UNCHANGED <<tick, call>>

\* The host's resume, the expiry timer or a recovery retry.
Resume ==
  /\ fence # "open"
  /\ Becomes(Resumed(Now))
  /\ fence' = "open"
  /\ UNCHANGED <<tick, call>>

ResumeFails ==
  /\ fence # "open"
  /\ MayThrow(Now)
  /\ Becomes(Unpaused(Now))
  /\ fence' = "recovering"
  /\ UNCHANGED <<tick, call>>

-----------------------------------------------------------------------------
(* Loading.                                                                *)

Loading(w) == [w EXCEPT !.load = IF @ = "unloaded" THEN "loading" ELSE @]

\* Any other request of the running gateway: it loads the service, and a
\* change of the jobs re-arms the timer.
Touch ==
  /\ fence = "open" /\ ~wrapper.stopped
  /\ wrapper' = Loading(wrapper)
  /\ service' = IF Loaded THEN Armed(service) ELSE service
  /\ UNCHANGED <<tick, body, call, fence>>

\* The monitor jobs of the heartbeats are added and removed while a start
\* reconciles them, by the retry of a pass that failed and by a config reload,
\* whether the fence is open or not; each change re-arms the timer.
MonitorsConverge ==
  /\ Loaded
  /\ service' = Armed(service)
  /\ UNCHANGED <<wrapper, tick, body, call, fence>>

StopsAfterDrainOnly == wrapper.cleanup = "always"   \* mutant of StopsAfterLoad
StopsAfterLoad == \/ wrapper.cleanup = "always"
                  \/ wrapper.cleanup = "ifStopped" /\ wrapper.stopped

\* The import resolves: the service is built, paused with the wrapper, and the
\* cleanup of a stop that came meanwhile runs before any start continues.
ImportResolves ==
  /\ wrapper.load = "loading"
  /\ wrapper' = [wrapper EXCEPT !.load = "loaded", !.cleanup = "none",
                   !.servicePaused = wrapper.schedulingPaused,
                   !.phase = IF StopsAfterLoad THEN "stopped" ELSE "idle"]
  /\ LET built == IF wrapper.schedulingPaused THEN ServicePaused(service)
                                              ELSE service
     IN  service' = IF StopsAfterLoad THEN ServiceStopped(built) ELSE built
  /\ UNCHANGED <<tick, body, call, fence>>

\* A failed import is cached: every later start fails too.
ImportRejects ==
  /\ wrapper.load = "loading"
  /\ wrapper' = [wrapper EXCEPT !.load = "failed", !.cleanup = "none"]
  /\ UNCHANGED <<service, tick, body, call, fence>>

-----------------------------------------------------------------------------
(* Starting.                                                               *)

Entered(c, g) == [c EXCEPT !.pc = "load", !.generation = g]

Start(s) ==
  /\ call[s].pc = "idle"
  /\ wrapper' = [Loading(wrapper) EXCEPT !.stopped = FALSE]
  /\ call' = [call EXCEPT ![s] = Entered(@, wrapper.generation)]
  /\ UNCHANGED <<service, tick, body, fence>>

StartRejected(s) ==
  /\ call[s].pc = "load" /\ wrapper.load = "failed"
  /\ call' = [call EXCEPT ![s].pc = "failed"]
  /\ UNCHANGED <<wrapper, service, tick, body, fence>>

\* The code after `await load()': nothing left to do, join the start in
\* progress, or become it.
StartNeedless(s) ==
  /\ call[s].pc = "load" /\ Loaded
  /\ Cancelled(call[s].generation) \/ wrapper.phase = "started"
  /\ call' = [call EXCEPT ![s].pc = "done"]
  /\ UNCHANGED <<wrapper, service, tick, body, fence>>

StartJoins(s) ==
  /\ call[s].pc = "load" /\ Loaded
  /\ ~Cancelled(call[s].generation) /\ wrapper.phase # "started"
  /\ Starting
  /\ call' = [call EXCEPT ![s].pc = "join", ![s].pending = body.generation]
  /\ UNCHANGED <<wrapper, service, tick, body, fence>>

\* waitForSchedulingResume parks the body while scheduling is paused.
FirstStage == IF wrapper.schedulingPaused THEN "parked" ELSE "resumed"

StartBegins(s) ==
  /\ call[s].pc = "load" /\ Loaded
  /\ ~Cancelled(call[s].generation) /\ wrapper.phase # "started"
  /\ ~Starting
  /\ wrapper' = [wrapper EXCEPT !.phase = "starting"]
  /\ body' = [stage |-> FirstStage, generation |-> call[s].generation]
  /\ call' = [call EXCEPT ![s].pc = "run"]
  /\ UNCHANGED <<service, tick, fence>>

\* The continuation of a joined start, once that start has settled.
OwnRejection(s) == call[s].rejected /\ call[s].pending = call[s].generation
AlwaysDecided(s) == TRUE                          \* mutant of JoinDecided
JoinDecided(s) ==
  \/ OwnRejection(s)
  \/ Cancelled(call[s].generation)
  \/ wrapper.phase = "started"

JoinEnds(s) ==
  /\ call[s].pc = "joined" /\ JoinDecided(s)
  /\ call' = [call EXCEPT ![s].pc = IF OwnRejection(s) THEN "failed" ELSE "done"]
  /\ UNCHANGED <<wrapper, service, tick, body, fence>>

\* The joined start belonged to a lifecycle that a stop has ended: start anew.
\* (A start of the caller's own lifecycle leaves nothing undecided: it ends
\* started, rejected, or cancelled together with the caller, `OwnStartDecides'.)
JoinRestarts(s) ==
  /\ call[s].pc = "joined" /\ ~JoinDecided(s)
  /\ call' = [call EXCEPT ![s] = Entered(@, wrapper.generation)]
  /\ UNCHANGED <<wrapper, service, tick, body, fence>>

-----------------------------------------------------------------------------
(* The start body.                                                         *)

\* resolved.startPromise settles; its creator clears it before anyone who
\* joined it continues.
Settled(rejected) ==
  [s \in Calls |->
     CASE call[s].pc = "run" ->
            [call[s] EXCEPT !.pc = IF rejected THEN "failed" ELSE "done"]
       [] call[s].pc = "join" ->
            [call[s] EXCEPT !.pc = "joined", !.rejected = rejected]
       [] OTHER -> call[s]]
BodyEnds(rejected) ==
  /\ body' = [body EXCEPT !.stage = "none"]
  /\ call' = Settled(rejected)

BodyCancelled == Cancelled(body.generation)
PhaseUnless(phase) == IF BodyCancelled THEN "stopped" ELSE phase

\* After waitForSchedulingResume.
BodyGivesUp ==
  /\ body.stage = "resumed" /\ BodyCancelled
  /\ wrapper' = [wrapper EXCEPT !.phase = "stopped"]
  /\ BodyEnds(FALSE)
  /\ UNCHANGED <<service, tick, fence>>

BodyStartsService ==
  /\ body.stage = "resumed" /\ ~BodyCancelled
  /\ wrapper' = [wrapper EXCEPT !.servicePaused = FALSE,
                                !.underlyingStartInFlight = TRUE]
  /\ service' = ServiceBegun(IF wrapper.servicePaused THEN ServiceResumed(service)
                                                      ELSE service)
  /\ body' = [body EXCEPT !.stage = "loading"]
  /\ UNCHANGED <<tick, call, fence>>

\* The resume lies outside the wrapper's try.  It can throw only if an earlier
\* start was rejected after it had started the scheduler (ServiceStartThrows).
BodyResumeThrows ==
  /\ body.stage = "resumed" /\ ~BodyCancelled
  /\ wrapper.servicePaused /\ ResumeThrows(service)
  /\ BodyEnds(TRUE)
  /\ UNCHANGED <<wrapper, service, tick, fence>>

\* The service's start under its lock: the store is loaded and repaired, missed
\* jobs run; a stop in between ends it early.
StoreLoaded ==
  /\ body.stage = "loading"
  /\ body' = [body EXCEPT !.stage = "arming"]
  /\ UNCHANGED <<wrapper, service, tick, call, fence>>

\* The last section of the service's start arms the timer and startOnce marks
\* the scheduler as started, with only microtasks between.  The gateway's start
\* goes on to reconcile stream watchers and monitor jobs with the store.
ServiceStarted ==
  /\ body.stage = "arming"
  /\ service' = ServiceReturned(IF service.stopped THEN service ELSE Armed(service))
  /\ body' = [body EXCEPT !.stage = "reconciling"]
  /\ UNCHANGED <<wrapper, tick, call, fence>>

Stopping(w, v, b) ==
  [w |-> [w EXCEPT !.phase = "stopped", !.underlyingStarted = FALSE],
   v |-> ServiceStopped(v),
   b |-> [b EXCEPT !.stage = "teardown"]]
Continuing(w, v, b) ==
  [w |-> [w EXCEPT !.servicePaused = @ \/ w.schedulingPaused],
   v |-> IF w.schedulingPaused THEN ServicePaused(v) ELSE v,
   b |-> [b EXCEPT !.stage = "watchers"]]

\* The gateway's start has resolved, and the wrapper continues.  A stop in the
\* meantime ends it early, or not at all when it joined an earlier teardown.
StartResolves ==
  /\ body.stage = "reconciling"
  /\ LET w == [wrapper EXCEPT !.underlyingStartInFlight = FALSE,
                              !.underlyingStarted = TRUE]
     IN  Becomes(IF BodyCancelled THEN Stopping(w, service, body)
                                  ELSE Continuing(w, service, body))
  /\ UNCHANGED <<tick, call, fence>>

\* The start is rejected: by the service, or after the service has started, and
\* then the scheduler goes on ticking behind a wrapper that takes it for idle.
ServiceStartThrows ==
  /\ body.stage \in {"loading", "arming", "reconciling"}
  /\ wrapper' = [wrapper EXCEPT !.underlyingStartInFlight = FALSE,
                                !.underlyingStarted = FALSE,
                                !.phase = PhaseUnless("idle")]
  /\ service' = [service EXCEPT !.startInProgress = FALSE]
  /\ BodyEnds(TRUE)
  /\ UNCHANGED <<tick, fence>>

\* After the watchers of persisted jobs were reconciled.
WatchersReconciled ==
  /\ body.stage = "watchers" /\ ~BodyCancelled
  /\ wrapper' = [wrapper EXCEPT !.phase = "started"]
  /\ BodyEnds(FALSE)
  /\ UNCHANGED <<service, tick, fence>>

WatchersTooLate ==
  /\ body.stage = "watchers" /\ BodyCancelled
  /\ Becomes(Stopping(wrapper, service, body))
  /\ UNCHANGED <<tick, call, fence>>

PhaseLeft == wrapper.phase                  \* mutant of PhaseAfterWatchers
PhaseAfterWatchers == PhaseUnless("started")

WatchersFail ==
  /\ body.stage = "watchers"
  /\ wrapper' = [wrapper EXCEPT !.phase = PhaseAfterWatchers]
  /\ BodyEnds(TRUE)
  /\ UNCHANGED <<service, tick, fence>>

\* stopStreamWatchers has settled.
TornDown(rejected) ==
  /\ body.stage = "teardown"
  /\ BodyEnds(rejected)
  /\ UNCHANGED <<wrapper, service, tick, fence>>

-----------------------------------------------------------------------------
(* Stopping.                                                               *)

Stop(cleanup) ==
  /\ wrapper.generation < MaxStops
  /\ wrapper' = [wrapper EXCEPT
       !.stopped = TRUE, !.generation = @ + 1,
       !.phase = IF Loaded THEN "stopped" ELSE @,
       !.underlyingStarted = IF Loaded THEN FALSE ELSE @,
       !.cleanup = IF wrapper.load # "loading" \/ @ = "always" THEN @ ELSE cleanup]
  /\ service' = IF Loaded THEN ServiceStopped(service) ELSE service
  /\ body' = Woken(body)
  /\ UNCHANGED <<tick, call, fence>>

StopNow == Stop("ifStopped")
StopAndDrain == Stop("always")

-----------------------------------------------------------------------------
(* Ticking.                                                                *)

\* The timer's callback waits for admission, so that a closed fence does not
\* lose the tick.
TimerFires ==
  /\ service.timer /\ ~tick.waiting
  /\ service' = [service EXCEPT !.timer = FALSE]
  /\ tick' = [tick EXCEPT !.waiting = TRUE]
  /\ UNCHANGED <<wrapper, body, call, fence>>

TickSkipped ==
  /\ tick.waiting /\ fence = "open"
  /\ service.stopped \/ service.schedulingPaused
  /\ tick' = [tick EXCEPT !.waiting = FALSE]
  /\ UNCHANGED <<wrapper, service, body, call, fence>>

\* A tick that finds another one running only re-arms the timer; a tick that
\* runs keeps it armed as a watchdog.
TickAdmitted ==
  /\ tick.waiting /\ fence = "open"
  /\ ~service.stopped /\ ~service.schedulingPaused
  /\ tick' = [waiting |-> FALSE, running |-> TRUE]
  /\ service' = Armed(service)
  /\ UNCHANGED <<wrapper, body, call, fence>>

TickEnds ==
  /\ tick.running
  /\ tick' = [tick EXCEPT !.running = FALSE]
  /\ service' = Armed(service)
  /\ UNCHANGED <<wrapper, body, call, fence>>

-----------------------------------------------------------------------------

Init ==
  /\ wrapper = [load |-> "unloaded", cleanup |-> "none", stopped |-> FALSE,
                generation |-> 0, schedulingPaused |-> FALSE, phase |-> "idle",
                servicePaused |-> FALSE, underlyingStartInFlight |-> FALSE,
                underlyingStarted |-> FALSE]
  /\ service = [stopped |-> FALSE, schedulingPaused |-> FALSE,
                schedulerStarted |-> FALSE, startInProgress |-> FALSE,
                overtaken |-> FALSE, timer |-> FALSE]
  /\ tick = [waiting |-> FALSE, running |-> FALSE]
  /\ body = [stage |-> "none", generation |-> 0]
  /\ call = [s \in Calls |-> [pc |-> "idle", generation |-> 0, pending |-> 0,
                              rejected |-> FALSE]]
  /\ fence = "open"

Suspension == PrepareHeld \/ PrepareBusy \/ PrepareBusyFails \/ Resume \/ ResumeFails
Import == ImportResolves \/ ImportRejects
StartSteps(s) ==
  \/ StartRejected(s) \/ StartNeedless(s) \/ StartJoins(s) \/ StartBegins(s)
  \/ JoinEnds(s) \/ JoinRestarts(s)
BodySteps ==
  \/ BodyGivesUp \/ BodyStartsService \/ BodyResumeThrows \/ StoreLoaded
  \/ ServiceStarted \/ StartResolves \/ ServiceStartThrows
  \/ WatchersReconciled \/ WatchersTooLate \/ WatchersFail
  \/ \E rejected \in BOOLEAN : TornDown(rejected)
Ticks == TimerFires \/ TickSkipped \/ TickAdmitted \/ TickEnds

Next ==
  \/ Suspension \/ Touch \/ MonitorsConverge \/ Import
  \/ \E s \in Calls : Start(s) \/ StartSteps(s)
  \/ BodySteps \/ StopNow \/ StopAndDrain \/ Ticks

Spec == Init /\ [][Next]_vars

\* Promises settle, and a suspension ends: it expires, and a failed resume is
\* retried.
Fairness ==
  /\ WF_vars(Import) /\ WF_vars(BodySteps) /\ WF_vars(Resume \/ ResumeFails)
  /\ \A s \in Calls : WF_vars(StartSteps(s))

FairSpec == Spec /\ Fairness

-----------------------------------------------------------------------------
(* Properties.                                                             *)

\* While the coordinator holds the fence for the host, no timer is armed and
\* no start of the service is under way, whatever was being loaded, started or
\* stopped when it was prepared: a start that a stop has overtaken may still be
\* reconciling then, and monitor jobs may still be changed.
HeldDoesNotTick ==
  fence = "held" => ~service.timer /\ ~service.startInProgress /\ ~tick.running

\* A started scheduler never dies silently: with the fence open, its timer is
\* armed or a tick is under way that re-arms it.  A pause that was rolled back
\* during the start must not leave the service paused.
NoSilentDeath ==
  wrapper.phase = "started" /\ fence = "open" =>
    service.timer \/ tick.waiting \/ tick.running

\* Once stop() or stopAndDrain() has been called on a lifecycle that had begun
\* to load, the loaded service is stopped, also when the stop came during the
\* import or inside a start.
StopSticks == wrapper.stopped /\ Loaded => service.stopped /\ ~service.timer

\* A start() that returned normally in the present lifecycle has started the
\* scheduler.
ReturnedMeansStarted ==
  \A s \in Calls :
    call[s].pc = "done" /\ ~Cancelled(call[s].generation)
      => wrapper.phase = "started" /\ service.schedulerStarted

\* The phase that makes the scheduler a suspension blocker never outlives the
\* start it belongs to; otherwise no host could suspend the gateway until the
\* next start or stop.  The one exception is BodyResumeThrows, which leaves a
\* paused scheduler behind that an earlier, rejected start had started.
NoStuckBlocker ==
  wrapper.phase = "starting" =>
    Starting \/ (service.schedulerStarted /\ service.schedulingPaused)

\* One start body runs at a time, of the call that awaits it; whoever joined it
\* awaits that very body, so that no call waits for a start that is over.
SingleFlight ==
  /\ \A s, t \in Calls : call[s].pc = "run" /\ call[t].pc = "run" => s = t
  /\ \A s \in Calls :
       /\ call[s].pc = "run" => Starting /\ call[s].generation = body.generation
       /\ call[s].pc = "join" => Starting /\ call[s].pending = body.generation
  /\ Starting => \E s \in Calls : call[s].pc = "run"

\* A call that joined the start of its own lifecycle has nothing left to do once
\* that start is over: it never begins a second one.
OwnStartDecides ==
  \A s \in Calls :
    call[s].pc = "joined" /\ call[s].pending = call[s].generation => JoinDecided(s)

\* Every start() call returns: no resume, stop or failure leaves one parked.
StartsReturn ==
  \A s \in Calls : call[s].pc = "load" ~> call[s].pc \in {"done", "failed"}
=============================================================================
