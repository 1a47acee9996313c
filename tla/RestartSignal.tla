---------------------------- MODULE RestartSignal ----------------------------
(***************************************************************************)
(* How a gateway gets from a restart request to the drain of its run loop  *)
(* (src/infra/restart.ts, src/cli/gateway-cli/run-loop.ts).                *)
(*                                                                         *)
(* A request arms one timer; the timer starts an emission attempt, or a    *)
(* deferral that polls for idleness and then attempts.  An attempt enters  *)
(* as a root of its own through the work admission, closes the restart     *)
(* fence under a lease, prepares the continuation hooks (they write the    *)
(* restart sentinel), and emits the signal.  The handler of the signal     *)
(* drains the process or refuses, and reopens the fence.                   *)
(*                                                                         *)
(* Promise continuations run before any timer, signal or request: `Quiet'  *)
(* says that none is left to run.                                          *)
(***************************************************************************)
EXTENDS Integers

CONSTANTS
  Timers,           \* deferrals a due restart timer starts
  Reloads,          \* deferrals a config reload starts, with hooks of its own
  Forced,           \* attempts without deferral
  Hooks,            \* continuation hooks: <<session, n>>
  External,         \* whether other processes send SIGUSR1 and leave restart intents
  MaxAuthorized,    \* bound: authorizations outstanding
  None, Direct      \* no one; an emission inside an admitted root

Deferrals == Timers \union Reloads
Attempts == Deferrals \union Forced

ASSUME RestartAssumption ==
  /\ None \notin Attempts \union Hooks \union {Direct} /\ Direct \notin Attempts
  /\ Timers \intersect Reloads = {} /\ Deferrals \intersect Forced = {}
  /\ External \in BOOLEAN /\ MaxAuthorized \in Nat \ {0}

VARIABLES
  s,                \* module state of restart.ts, and the admission it closes
  att,              \* the emission attempt of each deferral and forced request
  late,             \* deferrals that are past their maxWaitMs, or gave up over it
  work,             \* whether another admitted root is active
  used,             \* hooks that were offered
  written,          \* hooks whose beforeEmit took effect and was not rolled back
  carried           \* hooks a delivered signal took along

vars == <<s, att, late, work, used, written, carried>>

Session(h) == IF h = None THEN None ELSE h[1]

\* `fence' is whoever closed restartSignalPending, `lease' the holder of
\* pendingRestartSignalAdmission; `timer', `skip', `preparing', `slot' and
\* `session' are the pendingRestart* variables, `polls' activeDeferralPolls.
State == [fence : Attempts \union {Direct, None}, lease : Attempts \union {Direct, None},
          drain : BOOLEAN, suspended : BOOLEAN,
          unconsumed : BOOLEAN, authorized : 0 .. MaxAuthorized, handlers : 0 .. 2,
          timer : BOOLEAN, skip : BOOLEAN, preparing : BOOLEAN,
          slot : Hooks \union {None}, session : {Session(h) : h \in Hooks} \union {None},
          polls : SUBSET Deferrals]

\* emitPreparedGatewayRestart: `owns' is ownsFenceLease, `current' isCurrent: its
\* fence is active and its transient generation the present one, `held' the hook
\* whose beforeEmit took effect, `caller' callerPrepared, `result' what it returns.
Attempt == [pc : {"none", "asked", "parked", "caller", "hook", "leaving"}, forced : BOOLEAN,
            root : BOOLEAN, owns : BOOLEAN, current : BOOLEAN,
            held : Hooks \union {None}, caller : BOOLEAN, result : BOOLEAN]

NoAttempt == [pc |-> "none", forced |-> FALSE, root |-> FALSE, owns |-> FALSE,
              current |-> TRUE, held |-> None, caller |-> FALSE, result |-> FALSE]

\* Every variable has its type.
TypeOK ==
  /\ s \in State /\ att \in [Attempts -> Attempt]
  /\ late \subseteq Deferrals /\ work \in BOOLEAN
  /\ used \subseteq Hooks /\ written \subseteq used /\ carried \subseteq used

Open(t) == ~t.drain /\ t.fence = None /\ ~t.suspended
Inside(x) == att[x].pc \in {"caller", "hook"}
Free(x) == att[x].pc = "none"

\* Parked attempts that a change of the admission has woken.
Waits(x) == att[x].pc \in {"asked", "parked"}
Wakeable(x) == Waits(x) /\ (Open(s) \/ s.drain)
Quiet == \A x \in Attempts : ~Wakeable(x) /\ att[x].pc # "leaving"

\* The pending count of the gateway: all its roots, here the other ones.
PendingBeside(x) == work \/ \E y \in Attempts \ {x} : att[y].root
PendingCount == work \/ \E y \in Attempts : att[y].root

-----------------------------------------------------------------------------
(* Emission.                                                               *)

\* clearPendingScheduledRestart
Unscheduled(t) == [t EXCEPT !.timer = FALSE, !.skip = FALSE, !.preparing = FALSE,
                            !.slot = None, !.session = None]
\* clearPendingRestartSignalAdmission
Reopened(t) == [t EXCEPT !.lease = None, !.fence = None]

\* emitGatewayRestartWithSignalAdmission takes the live lease, or a new one; a
\* fence without lease and without signal is reopened first.
Acquires(t) == t.lease # None \/ (~t.drain /\ (t.fence = None \/ ~t.unconsumed))
Acquired(t, x) == IF t.lease # None THEN t ELSE [t EXCEPT !.fence = x, !.lease = x]

Less(n) == IF n = 0 THEN 0 ELSE n - 1
More(n) == IF n = MaxAuthorized THEN n ELSE n + 1

\* requestGatewayRestartWithSignalAdmission: what it may return.  Delivery may
\* fail; then the token and the fence are rolled back.
Emissions(t, x) ==
  LET c == [Unscheduled(Acquired(t, x)) EXCEPT !.polls = {}]
      refused == IF t.unconsumed THEN "coalesced" ELSE "failed"
  IN IF ~Acquires(t) THEN {[to |-> t, status |-> refused]}
     ELSE IF t.unconsumed THEN {[to |-> c, status |-> "coalesced"]}
     ELSE {[to |-> [c EXCEPT !.unconsumed = TRUE, !.authorized = More(@), !.handlers = @ + 1],
            status |-> "emitted"],
           [to |-> Reopened(c), status |-> "failed"]}

\* A request inside an admitted root: gateway.restart.request, or a config
\* reload that need not wait.
DirectEmit ==
  /\ Quiet /\ work
  /\ \E e \in Emissions(s, Direct) : s' = e.to
  /\ UNCHANGED <<att, late, work, used, written, carried>>

-----------------------------------------------------------------------------
(* Attempts.                                                               *)

\* emitPreparedGatewayRestart starts by asking for a root of its own.
Launched(forced) ==
  [NoAttempt EXCEPT !.pc = IF Open(s) THEN "asked" ELSE "parked", !.forced = forced]

\* mutant of RolledBack: the lease is given back, the fence stays.
LeaseDropped(t, x, a) ==
  IF t.unconsumed \/ ~a.owns THEN t ELSE [t EXCEPT !.lease = IF @ = x THEN None ELSE @]
\* rollbackFence of attempt x; a queued signal keeps the fence for the run loop.
RolledBack(t, x, a) ==
  IF t.unconsumed \/ ~a.owns THEN t
  ELSE [t EXCEPT !.fence = IF @ = x THEN None ELSE @, !.lease = IF @ = x THEN None ELSE @]

\* The attempt x returns `result', and has nothing to prepare any more.
Returns(x, a, result) ==
  att' = [att EXCEPT ![x] =
            [NoAttempt EXCEPT !.pc = "leaving", !.root = a.root, !.result = result]]

\* mutant of Bail: the prepared hook is forgotten.
Forgets(x, a) ==
  s' = RolledBack(s, x, a) /\ Returns(x, a, FALSE) /\ UNCHANGED <<written, carried>>
\* It is superseded or cancelled, and rolls back what it prepared.
Bail(x, a) ==
  /\ s' = RolledBack(s, x, a) /\ Returns(x, a, FALSE)
  /\ written' = written \ {a.held} /\ UNCHANGED carried

\* The hooks of a reload emit themselves, and may refuse.
Refusals(t, a) ==
  IF a.caller THEN [to : {t}, status : {"failed", "coalesced"}] ELSE {}

\* The slot is settled: emit, and roll the prepared hook back if nothing was.
Emit(x, a, t) ==
  \E e \in Emissions([t EXCEPT !.session = None], x) \union Refusals([t EXCEPT !.session = None], a) :
    /\ s' = IF e.status = "emitted" THEN e.to ELSE RolledBack(e.to, x, a)
    /\ Returns(x, a, TRUE)
    /\ IF e.status = "emitted"
       THEN carried' = carried \union ({a.held} \ {None}) /\ UNCHANGED written
       ELSE written' = written \ {a.held} /\ UNCHANGED carried

\* The next parked hook, which replaces the one prepared so far, or the emission.
\* The hook writes its sentinel when it is called, or throws; then the restart
\* goes on without it.
Proceed(x, a, t) ==
  IF t.slot = None THEN Emit(x, a, t)
  ELSE \E h \in {t.slot, None} :
         /\ s' = [t EXCEPT !.slot = None]
         /\ att' = [att EXCEPT ![x] = [a EXCEPT !.pc = "hook", !.held = h]]
         /\ written' = (written \ {a.held}) \union ({h} \ {None}) /\ UNCHANGED carried

\* The admission is open: the attempt becomes a root, takes the fence and checks
\* once more that nothing else runs.
Enter(x) ==
  LET b == att[x]
      a == [b EXCEPT !.forced = FALSE, !.root = TRUE, !.owns = s.lease = None]
      t == IF a.owns THEN [s EXCEPT !.fence = x, !.lease = x] ELSE s
  IN /\ Waits(x) /\ Open(s)
     /\ IF ~a.current \/ s.unconsumed \/ (~b.forced /\ PendingBeside(x)) THEN Bail(x, a)
        ELSE IF x \notin Reloads THEN Proceed(x, a, t)
        ELSE /\ s' = t /\ att' = [att EXCEPT ![x] = [a EXCEPT !.pc = "caller"]]
             /\ UNCHANGED <<written, carried>>
     /\ UNCHANGED <<late, work, used>>

\* A draining admission ends the attempt: the restart is under way.
TurnedAway(x) ==
  /\ Waits(x) /\ s.drain
  /\ Returns(x, att[x], TRUE)
  /\ UNCHANGED <<s, late, work, used, written, carried>>

\* A beforeEmit is done, and the attempt looks whether it is still current.
Resumes(x, a) ==
  /\ Quiet /\ IF a.current THEN Proceed(x, a, s) ELSE Bail(x, a)
  /\ UNCHANGED <<late, work, used>>

\* The one of the caller may have thrown: then it does not own the emission.
CallerPrepared(x, ok) == att[x].pc = "caller" /\ Resumes(x, [att[x] EXCEPT !.caller = ok])
HookPrepared(x) == att[x].pc = "hook" /\ Resumes(x, att[x])

\* mutant of Leave: the deferral ends whatever its attempt returned.
LeavesAnyway(x) ==
  /\ att[x].pc = "leaving" /\ \A y \in Attempts : ~Wakeable(y)
  /\ att' = [att EXCEPT ![x] = NoAttempt]
  /\ s' = [s EXCEPT !.polls = @ \ {x}]
  /\ UNCHANGED <<late, work, used, written, carried>>

\* The root is released, after whoever the reopened fence has woken; a deferral
\* whose attempt was made stops its poll.
Leave(x) ==
  /\ att[x].pc = "leaving" /\ \A y \in Attempts : ~Wakeable(y)
  /\ att' = [att EXCEPT ![x] = NoAttempt]
  /\ IF att[x].result THEN s' = [s EXCEPT !.polls = @ \ {x}] /\ late' = late \ {x}
     ELSE UNCHANGED <<s, late>>
  /\ UNCHANGED <<work, used, written, carried>>

-----------------------------------------------------------------------------
(* Deferral.                                                               *)

\* deferGatewayRestartUntilIdle
Deferred(x) ==
  /\ Free(x) /\ x \notin s.polls
  /\ late' = late \ {x}
  /\ att' = IF PendingCount THEN att ELSE [att EXCEPT ![x] = Launched(FALSE)]

ReloadDefers(x) ==
  /\ Quiet /\ Deferred(x)
  /\ s' = [s EXCEPT !.polls = @ \union {x}]
  /\ UNCHANGED <<work, used, written, carried>>

Elapse(x) ==
  /\ x \in s.polls \ late
  /\ late' = late \union {x}
  /\ UNCHANGED <<s, att, work, used, written, carried>>

\* inspectPending.  attemptEmission does nothing while an attempt is under way.
Attempted(x, forced) == IF Free(x) THEN [att EXCEPT ![x] = Launched(forced)] ELSE att
Tick(x) ==
  /\ Quiet /\ x \in s.polls
  /\ \/ ~PendingCount /\ att' = Attempted(x, FALSE) /\ UNCHANGED s
     \/ /\ PendingCount /\ x \in late
        /\ s' = [s EXCEPT !.polls = @ \ {x}]
        /\ att' = Attempted(x, TRUE)
  /\ UNCHANGED <<late, work, used, written, carried>>

\* The reload supersedes its own request, also once its poll was stopped and its
\* attempt is under way.
Cancel(x) ==
  /\ Quiet
  /\ x \in s.polls \/ Inside(x)
  /\ s' = [(IF Inside(x) THEN RolledBack(s, x, att[x]) ELSE s) EXCEPT !.polls = @ \ {x}]
  /\ att' = IF Inside(x) /\ ~s.unconsumed THEN [att EXCEPT ![x].current = FALSE] ELSE att
  /\ late' = late \ {x}
  /\ UNCHANGED <<work, used, written, carried>>

-----------------------------------------------------------------------------
(* Requests.                                                               *)

\* armPendingRestartTimer
TimerFires ==
  LET t == [s EXCEPT !.timer = FALSE, !.skip = FALSE, !.preparing = TRUE] IN
  /\ Quiet /\ s.timer
  /\ \/ /\ s.skip
        /\ \E x \in Forced : Free(x) /\ att' = [att EXCEPT ![x] = Launched(TRUE)]
        /\ s' = t /\ UNCHANGED <<late>>
     \/ /\ ~s.skip
        /\ \E x \in Timers : Deferred(x) /\ s' = [t EXCEPT !.polls = @ \union {x}]
  /\ UNCHANGED <<work, used, written, carried>>

CanReplace(h) == h = None \/ s.session \in {None, Session(h)}

\* scheduleGatewaySigusr1Restart while a signal is in flight changes nothing.
\* `keep' is preservePendingEmitHooksOnDeferralBypass.
Keeps(h, keep) == keep /\ h = None /\ s.session # None
Offered(h) == used' = used \union ({h} \ {None})

ScheduleFirst(h, skip) ==
  /\ ~s.unconsumed /\ ~s.timer /\ ~s.preparing
  /\ s' = [s EXCEPT !.timer = TRUE, !.skip = skip, !.slot = h, !.session = Session(h)]
  /\ UNCHANGED att

\* A forced request bypasses the deferral that holds the restart up.
Bypasses(skip) == s.preparing /\ skip /\ s.polls # {}
ScheduleBypass(h, keep) ==
  /\ ~s.unconsumed
  /\ \E x \in Forced : Free(x) /\ att' = [att EXCEPT ![x] = Launched(TRUE)]
  /\ s' = IF Keeps(h, keep) THEN [s EXCEPT !.polls = {}]
          ELSE [s EXCEPT !.polls = {}, !.slot = h, !.session = Session(h)]

ScheduleEarlier(h, skip, keep) ==
  /\ ~s.unconsumed /\ s.timer /\ ~s.preparing
  /\ s' = CASE Keeps(h, keep) -> [s EXCEPT !.skip = skip]
            [] ~Keeps(h, keep) /\ ~CanReplace(h) -> [s EXCEPT !.skip = @ \/ skip]
            [] OTHER -> [s EXCEPT !.skip = skip, !.slot = h, !.session = Session(h)]
  /\ UNCHANGED att

ScheduleCoalesced(h, skip) ==
  /\ ~s.unconsumed /\ (s.timer \/ s.preparing)
  /\ s' = IF h # None /\ CanReplace(h)
          THEN [s EXCEPT !.skip = @ \/ skip, !.slot = h, !.session = Session(h)]
          ELSE [s EXCEPT !.skip = @ \/ skip]
  /\ UNCHANGED att

Schedule(h, skip, earlier, keep) ==
  /\ Quiet /\ h \notin used /\ Offered(h)
  /\ \/ ScheduleFirst(h, skip)
     \/ Bypasses(skip) /\ ScheduleBypass(h, keep)
     \/ (earlier \/ (skip /\ ~s.skip)) /\ ScheduleEarlier(h, skip, keep)
     \/ /\ ~Bypasses(skip) /\ (s.preparing \/ (~earlier /\ ~(skip /\ ~s.skip)))
        /\ ScheduleCoalesced(h, skip)
  /\ UNCHANGED <<late, work, written, carried>>

-----------------------------------------------------------------------------
(* The run loop.                                                           *)

\* onSigusr1 accepts an authorized signal: the drain supersedes the fence and a
\* suspension, then the signal is marked handled.
Draining(t) == [t EXCEPT !.drain = TRUE, !.fence = None, !.suspended = FALSE,
                         !.authorized = Less(@), !.handlers = @ - 1]
Handled(t) == [t EXCEPT !.unconsumed = FALSE, !.lease = None]
Accept ==
  /\ Quiet /\ s.handlers > 0 /\ s.authorized > 0
  /\ s' = Handled(Draining(s))
  /\ UNCHANGED <<att, late, work, used, written, carried>>

\* It accepts any signal if another process has left a restart intent for it, but
\* marks the signal as handled only when it was authorized.
AcceptIntent ==
  /\ External /\ Quiet /\ s.handlers > 0
  /\ s' = IF s.authorized > 0 THEN Handled(Draining(s)) ELSE Draining(s)
  /\ UNCHANGED <<att, late, work, used, written, carried>>

\* It refuses one without authorization, or fails; either way it unsticks the
\* token and the fence.
Refuse ==
  /\ Quiet /\ s.handlers > 0
  /\ s' = [Reopened(s) EXCEPT !.unconsumed = FALSE, !.handlers = @ - 1]
  /\ UNCHANGED <<att, late, work, used, written, carried>>

\* The authorization outlives its grace period.
Expire ==
  /\ s.authorized > 0
  /\ s' = [s EXCEPT !.authorized = 0]
  /\ UNCHANGED <<att, late, work, used, written, carried>>

Sigusr1 ==
  /\ External /\ Quiet /\ s.handlers = 0
  /\ s' = [s EXCEPT !.handlers = 1]
  /\ UNCHANGED <<att, late, work, used, written, carried>>

\* onRestart: resetAllLanes reopens the admission and retires its roots,
\* resetGatewayRestartStateForInProcessRestart clears the rest.  What still
\* prepares belongs to an old generation.  Closing the server takes longer than
\* the import a handler waits for.
InProcessRestart ==
  /\ Quiet /\ s.drain /\ s.handlers = 0
  /\ s' = [Unscheduled(Reopened(s)) EXCEPT !.drain = FALSE, !.suspended = FALSE, !.unconsumed = FALSE,
                                           !.authorized = 0, !.polls = {}]
  /\ att' = [x \in Attempts |-> IF Free(x) THEN att[x]
                                ELSE [att[x] EXCEPT !.current = FALSE, !.root = FALSE]]
  /\ work' = FALSE /\ late' = {}
  /\ UNCHANGED <<used, written, carried>>

-----------------------------------------------------------------------------
(* Everybody else.                                                         *)

WorkBegins == ~work /\ Open(s) /\ (\A x \in Attempts : att[x].pc # "asked")
              /\ work' = TRUE /\ UNCHANGED <<s, att, late, used, written, carried>>
\* tryBeginGatewayPreparedRestartRootWorkAdmission
RestartRequested == Quiet /\ s.suspended /\ s.fence = None /\ ~s.drain /\ ~PendingCount
                    /\ work' = TRUE
                    /\ UNCHANGED <<s, att, late, used, written, carried>>
WorkEnds == Quiet /\ work /\ work' = FALSE
            /\ UNCHANGED <<s, att, late, used, written, carried>>
Suspend == Quiet /\ Open(s) /\ ~PendingCount /\ s' = [s EXCEPT !.suspended = TRUE]
           /\ UNCHANGED <<att, late, work, used, written, carried>>
Resume == Quiet /\ s.suspended /\ s' = [s EXCEPT !.suspended = FALSE]
          /\ UNCHANGED <<att, late, work, used, written, carried>>

Init ==
  /\ s = [fence |-> None, lease |-> None, drain |-> FALSE, suspended |-> FALSE,
          unconsumed |-> FALSE, authorized |-> 0, handlers |-> 0, timer |-> FALSE,
          skip |-> FALSE, preparing |-> FALSE, slot |-> None, session |-> None, polls |-> {}]
  /\ att = [x \in Attempts |-> NoAttempt]
  /\ late = {} /\ work = FALSE
  /\ used = {} /\ written = {} /\ carried = {}

Progresses(x) ==
  \/ Enter(x) \/ TurnedAway(x) \/ Leave(x)
  \/ HookPrepared(x) \/ \E ok \in BOOLEAN : CallerPrepared(x, ok)

Next ==
  \/ \E x \in Attempts : Progresses(x)
  \/ \E x \in Reloads : ReloadDefers(x) \/ Cancel(x)
  \/ \E x \in Deferrals : Elapse(x) \/ Tick(x)
  \/ \E h \in Hooks \union {None}, skip, earlier, keep \in BOOLEAN : Schedule(h, skip, earlier, keep)
  \/ TimerFires \/ DirectEmit
  \/ Accept \/ AcceptIntent \/ Refuse \/ Expire \/ Sigusr1 \/ InProcessRestart
  \/ WorkBegins \/ RestartRequested \/ WorkEnds \/ Suspend \/ Resume

Spec == Init /\ [][Next]_vars

-----------------------------------------------------------------------------
(* Properties.                                                             *)

\* The restart fence never outlives its reason: a signal is in flight and has a
\* handler, or the attempt that closed the fence is still at it.  Otherwise the
\* process would admit nothing any more (the comment at restart.ts:86).
NoWedgedFence ==
  s.fence # None =>
    \/ s.unconsumed /\ s.handlers > 0
    \/ s.fence \in Attempts /\ Inside(s.fence) /\ att[s.fence].current

\* A lease that is kept for the signal is live: however attempts share it, fail
\* or are cancelled, it still closes the fence (the comment at restart.ts:86).
NoDeadLease == s.lease # None /\ ~s.drain => s.fence = s.lease

\* Fence and lease stand and fall together, and with the restart they are for.
FenceHasReason == NoWedgedFence /\ NoDeadLease

\* A sentinel that is written belongs to an attempt that still prepares, or went
\* with a delivered signal: it is never left behind by a restart that does not
\* come, and never removed under one that does (restart.ts:567).
SentinelSettled ==
  written = carried \union ({att[x].held : x \in {y \in Attempts : Inside(y)}} \ {None})

\* A deferral that has been given up: its budget is spent, and its last attempt
\* found the gateway busy.
GivenUp(x) == x \in late /\ x \notin s.polls /\ Free(x)

\* Pending work is polled until a restart is emitted (the comment at
\* restart.ts:708): what later requests coalesce into is still under way.
UnderWay == s.polls # {} \/ s.unconsumed \/ s.drain \/ \E x \in Attempts : ~Free(x)
StillUnderWay == s.preparing => UnderWay

\* The exception the code makes: the budget was spent while an attempt waited
\* for its admission, and then that attempt found other work.
UnderWayUnlessGivenUp == s.preparing => UnderWay \/ \E x \in Timers : GivenUp(x)
=============================================================================
