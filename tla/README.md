# TLA+ models of the OpenClaw gateway

This directory holds TLA+ modules of the concurrency core of the OpenClaw
gateway (the TypeScript under `src/src`), the TLC configurations that check
them on small instances, and TLAPS proofs of the theorems that matter most.
Paths below are relative to the repository (`src/process/...` in a module's
header is `src/src/process/...` from here).

## 1. Inventory

The repository is a monorepo. Its own runtime logic is the gateway: one Node
process that owns sessions, lanes of agent work, cron, delivery and restart.
Around it are the clients (`packages/gateway-client`, `ui/`, `apps/`), about a
hundred channel and provider extensions (`extensions/`), and the Android
wrapper that gives this fork its name (`android/`, `openclaw-android/`).

The gateway is single threaded. Its concurrency is that of JavaScript: every
synchronous stretch of code is atomic, and anything may happen at an `await`, a
timer or a callback. That decides the grain of every model here: one exported
synchronous function is one action, and code after an `await` is an action of
its own.

| Component | State it keeps | Operations | Interacts with | What is hard |
|---|---|---|---|---|
| Command queue `src/process/command-queue*.ts`, `src/gateway/server-lanes.ts` | lanes (queue, active ids, width, generation), capacity group, waiters | enqueue, completion, clear, reset lane / all lanes, set width, publish configuration, wait for active tasks | admission gate, run loop, stuck-session recovery | shared budget with reservation, stale completions after reset, sibling wake-ups, waiters |
| Work admission `src/process/gateway-work-admission.ts` | drain flag, signal fence, suspend fence with generations, active roots, parked callers | begin root work (try / when open / independent / continuation / readmission), retain, release, wait, signal, suspend, drain, reset | every RPC, cron, run loop | async-context inheritance, leases that outlive their fence, lost wake-ups |
| Host suspension `src/infra/gateway-suspend-coordinator.ts` | current entry, retired entry | prepare, renew, status, resume, expiry, recovery retry, invalidation, lifecycle reset | admission, cron, RPC router | expiry racing resume, failing scheduler, restart overtaking |
| Lazy cron wrapper `src/gateway/server-cron-lazy.ts` | phase, lifecycle generation, pause flag, start promise | start, stop, stopAndDrain, pause, resume | suspension, cron service, the reconciliations of `server-cron.ts` | start in flight while stopped or paused, jobs changed while paused |
| Cron service `src/cron/service/*` | jobs, timers, run receipts | arm, tick, run, catch-up, mutate | command queue, store | overlapping runs, restart, admission slots |
| Restart `src/infra/restart*.ts`, `src/cli/gateway-cli/run-loop.ts` | authorisation, cooldown, pending signal, fence lease | request, emit, consume, drain, restart | admission, suspension, queue | signal lost or duplicated, drain timeout |
| Stuck-session recovery `src/logging/diagnostic-stuck-session-recovery.runtime.ts` | recoveries in flight | abort, wait, reset lane | command queue | resetting work that has just restarted |
| Delivery queue `src/infra/outbound/delivery-queue-*.ts`, `src/infra/delivery-queue-sqlite*.ts` | durable entries, claims, leases | enqueue, claim, send, ack, fail, recover | channels, crash recovery | crash between send and ack, two processes |
| Follow-up queue `src/auto-reply/reply/queue/*.ts` | per-session items, drain flag, dropped summaries | enqueue, drain, steer, clear | agent runs | enqueue while draining, caps |
| Heartbeat wake `src/infra/heartbeat-wake*.ts` | pending wakes, timer, running flag | request, fire, retry, replace handler | command queue | coalescing, stale handler |
| Approvals `src/gateway/exec-approval-manager.ts`, `operator-approval-store.ts`, `server-methods/approval*.ts` | durable row, executable binding and waiter per lifetime | request, resolve, get, wait, expire, replay, cancel, redeem | reviewers, agent runs, `node.invoke` | first observer of a verdict, throwing transactions, handoffs that outlive the grace, restart |
| Node registry `src/gateway/node-registry*.ts` | sessions, pending invokes | connect, disconnect, invoke, result | clients | reconnect with invokes in flight |
| Gateway client `packages/gateway-client` | socket, pending requests, backoff | connect, request, close, reconnect | gateway | late responses, close racing connect |
| AnyClaw bridge `openclaw-android/src/server/codexAppServerBridge.ts` | child process, pending calls | call, notify, exit | codex app server | child exit with calls pending |

Out of scope: user interfaces, the native apps, channel and provider
extensions, prompt and markdown formatting, media handling, configuration
parsing, installers and documentation. They are I/O, layout or wording; the
state they share with the gateway is behind the components above.

### What makes each modelled component correct

* **Command queue.** No stranded work, exact slot ownership, the shared cron
  budget with a reservation that cannot be borrowed, no queued entry lost, no
  waiter forgotten or told too early.
* **Work admission.** No caller parked at a gate that would let it in, exact
  reference counts, fences that only their own lease reopens, no admission into
  a draining process.
* **Host suspension.** Whoever closes the gate and pauses the scheduler can be
  found and will undo both; "ready" means that nothing runs.
* **Lazy cron wrapper.** A held gateway does not tick, a started scheduler does
  not die silently, a stop sticks whatever was in flight, a start that returns
  has started something or knows why not, and every start returns.
* **Heartbeat wake.** No wake is lost or stranded without a timer, no agent has
  two turns at once, the unscoped wake is a barrier, every request is settled.
* **Delivery queue.** Nothing that may have been sent is sent again, the row
  never looks cleaner than what happened, only the owner of the lease writes,
  and every row is decided in the end.
* **Exec approvals.** One answer, which requester and row agree on whatever fails;
  published once; what closed grants nothing; a command runs under an answer that
  lets it, and once unless it is allow-always; every request is answered.
* **Restart signal.** The restart fence never outlives its reason, a shared
  lease stays live, a continuation sentinel goes with a delivered signal or is
  removed, and a restart that was accepted is pursued.

## 2. Plan

Order of work, most important behaviour first:

1. `CommandQueue` - done; all its safety properties proved.
2. `WorkAdmission` with the abstract `AdmissionGate` - done; all safety
   properties and the refinement proved.
3. `GatewaySuspend`, which composes `WorkAdmission` with the coordinator, and
   the abstract `Suspension` - done; ownership, quiet and the refinement proved.
4. `LazyCron`, the scheduler the suspension pauses - done; all its safety
   properties proved.
5. `HeartbeatWake` - done; all its safety properties proved.
6. `DeliveryRow` and `DeliveryQueue`: the durable row, and the processes that
   send it - done for one message with the exceptions of section 6;
   the lease proved, and for accountable messages (section 5) all safety
   properties; two findings.
7. `RestartSignal`: from a request to the drain and the next lifecycle - done
   with the exceptions of section 6; fence, lease, sentinels and pursuit proved,
   one finding.
8. `ApprovalRow` and `Approvals` with the abstract `Approval`: one exec approval
   from its request to the command - done with the exceptions of section 3; all
   safety properties and the refinement proved.
9. Next: `FollowupQueue`, stuck-session recovery over `CommandQueue`,
   `GatewayClient`, node registry, cron run admission.

Every safety property a run checks is proved; new components bring new ones.

## 3. Modules and how they correspond to the code

| Module | Models | Role |
|---|---|---|
| `CommandQueue` | `command-queue.ts`, `command-queue.capacity-groups.ts`, `command-queue.state.ts`, `server-lanes.ts` | component |
| `AdmissionGate` | what the admission promises | abstract specification |
| `WorkAdmission` | `gateway-work-admission.ts` | component, implements `AdmissionGate` |
| `Suspension` | what host suspension promises | abstract specification |
| `GatewaySuspend` | `gateway-suspend-coordinator.ts`, the RPC admission of `server-methods.ts`, over an instance of `WorkAdmission` | composition, implements `Suspension` |
| `LazyCron` | `server-cron-lazy.ts`, the lifecycle of `cron/service.ts` and `cron/service/ops-lifecycle.ts`, the start of `server-cron.ts`, the arming of `cron/service/timer-scheduler.ts`, the coordinator's calls | component |
| `HeartbeatWake` | `heartbeat-wake.ts`, `heartbeat-wake-target.ts`, `heartbeat-wake-lifecycle.ts` | component |
| `DeliveryRow` | the row transactions of `delivery-queue-storage.ts`, `delivery-queue-sqlite.ts`, `delivery-queue-sqlite-claim.ts` | operators of `DeliveryQueue` |
| `DeliveryQueue` | the producer (`deliver-queue*.ts`, `deliver-core.ts`), recovery (`delivery-queue-recovery.ts`, `-reconciliation.ts`, `-lease.ts`), crashes and the network | component |
| `RestartSignal` | `infra/restart.ts`, the SIGUSR1 handler and restart hook of `run-loop.ts`, the callers in `server-reload-restart.ts` and `server-methods/restart.ts` | component |
| `Approval` | what an exec approval promises | abstract specification |
| `ApprovalRow` | the row transactions of `operator-approval-store.ts` | operators of `Approvals` |
| `Approvals` | `exec-approval-manager.ts`, the handlers of `server-methods/approval*.ts`, redemption in `node-invoke-system-run-approval.ts` and `nodes.invoke.ts`, replay, closure and startup | component, implements `Approval` |
| `MC*` | | instances for TLC |
| `*Proofs` | | TLAPS proofs |

### CommandQueue

Every exported function of `command-queue.ts` is synchronous and pumps before it
returns, so each is one action that includes its pump, the drains of group
siblings and the notification of waiters. The `draining` flag of a lane is
`TRUE` only inside such a call and is not a variable. An entry is named by its
queue sequence number, which also stands for its task id: the code draws both
from counters, and only their identity and order matter. `Drain` computes how
many entries the pump's `while` loop starts; `BlockReason` is
`resolveLaneBlockReason`. `Settle` is the completion callback: it returns the
slot only when the entry's generation is the lane's.

`generation[l]` counts the resets of lane `l` and survives the retirement of a
scoped lane; in the code a recreated lane starts again at 0, but completions of
the old lane hold the old object, so only equality is observable.
`restartDraining` stands for `isGatewaySubordinateWorkAdmissionClosed` as
`enqueueCommandInLane` sees it. The model starts after the gateway's first
publication. The group always has the members `cron-nested` and
`hook-dispatch`, the only group the gateway defines; a publication turns hooks
on or off, and keeps the group without its reservation while hook tasks run.

Left out: `onWait` callbacks (an entry enqueued from one is started by the outer
pump), the minimum width of probe lanes, logging, the migration of an older
`globalThis` singleton, and the body of a task after its timeout.

### WorkAdmission

`gate` holds both fences and the drain flag. A root is an admission object with
its reference count, a lease a release closure, a chain an async call chain with
the root its AsyncLocalStorage carries; a chain may outlive its root, and `Fork`
lets a child inherit it. `Attempt` is one iteration of the loops in
`beginGatewayRootWorkAdmissionWhenOpen` and
`runWithGatewayIndependentRootWorkAdmission`: it admits, refuses, or parks the
chain, and `Resume` is the next iteration after the await. Suspend and signal
leases are represented by the generation they close over. A release of a spent
lease returns early in the code and is no step here. Left out: log lines.

### GatewaySuspend

The variables of `WorkAdmission` plus the coordinator's `current` and
`retired` entries and whether the cron scheduler of this lifecycle is paused. An
entry keeps the generation of its suspend lease and the phase its
`reopenAdmission` expects (`release` needs `prepared`, `rollback` needs
`preparing`), its request, and an abstract age instead of `expiresAtMs`. The
call that resumes the scheduler may fail in every place it is made. A prepare
request runs in a chain of its own whose root it excludes from the inspection
(`OwnRoot`); `server-methods.ts` refuses it when nested. All activity other than
root requests (queues, runs, cron, sessions) is one Boolean, `quiet`, as the
inspection sees it. `own` and `restart` are history fields for `ReadyMeansIdle`.
A lifecycle restart happens only when draining, as in the run loop, and builds
a fresh scheduler.

Left out: a `pauseScheduling` that throws after a partial pause (see the hazard
at line 350), the branch for a reopening that is refused (line 117), which
`HeldMeansOwned` shows to be unreachable, and calls that only return a status.

### LazyCron

`wrapper` is the state of the lazily loading wrapper, `service` that of the
`CronService` it loads, `tick` the timer callback, and `call` one record per
`start()` in flight. The steps of a start between two awaits are one action
each: `Start*` for the synchronous prelude, `StartBegins` to `BodyGivesUp` for
the body, `StoreLoaded` and `ServiceStarted` for the service's own start,
`StartResolves` for the start that `server-cron.ts:1469-1503` puts around it,
`Continuing`, `Stopping` and `Watchers*` for what the wrapper does afterwards.

Between `ServiceStarted` and `StartResolves` lies store I/O: the timer is armed
and may tick, and the service no longer counts itself a blocker, but the wrapper
is still "starting". A stop may overtake the start there; it ends at the next
check of the watcher generation, or goes on to its end when the stop joined an
earlier teardown, so the model lets it resolve at any time. `MonitorsConverge`
is a change of the heartbeat monitor jobs, by that start, by the 30-second retry
of a failed pass or by a config reload; it asks no admission. Only microtasks lie
between the end of the service's locked section and the end of `startOnce`, so
`ServiceStarted` is one step.

`Prepare*` and `Resume*` are what the suspension coordinator does to the wrapper.
A suspension may be held when the blocker count is 0, and refused at any time,
since other work of the gateway counts too. So do the reconciliations of the
watchers, which the model leaves out: it holds suspensions the code would refuse.

A start may be rejected after the service has started (`ServiceStartThrows` at
the stage "reconciling", for instance when `getRuntimeConfig` throws). The
scheduler then goes on ticking behind a wrapper in the phase "idle", which no
property forbids: the caller of `start()` has the error. Two things follow. A
suspension after that pauses the scheduler, and its resume does not reach it
(`server-cron-lazy.ts:231-235`) until the next start. And that next start resumes
a started scheduler outside its `try` (lines 120-123): if arming the timer throws
there, the phase stays at "starting" and blocks suspensions until another start
or stop (`BodyResumeThrows`, the exception in `NoStuckBlocker`). That a watcher
reconciliation fails (`WatchersFail`) is defensive in the code: the functions it
calls today catch their own errors (`server-cron.ts:564-639`).

Starts are not gated by the admission: in
the code they are not either. Cron is enabled and has jobs, otherwise no timer
is ever armed. The other API operations only load the service and re-arm the
timer (`Touch`); they come in through the admission, so only while it is open,
and not after a stop. `restartRecoveryPending` is left out. `CronService`'s own
joining of concurrent starts cannot be reached through the wrapper, which starts
it once per lifecycle.

### HeartbeatWake

`pending[t][slot]` is the group of wakes of a target, `Global` the target of
unscoped wakes; `active` the turns, `timer` the one shared timer, `blocked` the
retry of a whole group. Instants are the time that is left until them, so that
`Pass` makes all of them smaller and no clock grows. `TimerFires` is the timer
callback with everything it does synchronously: the batch it takes, the turns
it begins and the timer it arms again. How a turn ends is a nondeterministic
result (`WakeDone`, `WakeDeferred`, `WakeBlocked`, `WakeGuarded`); a turn whose
handler was replaced meanwhile ends by `StaleTurnEnds`. Disposing a handler and
setting none are the same step. A manual request has the intent "immediate". Of the
priorities, those of the sources "retry" and "interval" are not told apart, and
two requests are never made at the same instant.

### DeliveryRow and DeliveryQueue

One message, because rows are independent of each other but for the pacing of a
scan (and finding 1, where one row ends the scan of the others). The row is in
SQLite and outlives crashes; a `worker` is what one process has in memory while
it produces or recovers the message; `wire` are requests that have left and not
arrived, `landed` what reached the recipient. Each transaction is one step, and
`Tried` is a transaction with its fallbacks: the code catches the failure of
one and tries the next, so the result is the first that succeeds, or the
unchanged row. Leases are measured in ticks of `Pass`; a timer may be late
unless the trait `timely` says otherwise.

`traits` are what the adapter and the policy of the message are: `exact` (the
adapter reconciles unknown sends by an exact identity, which implies one payload
and that it reports dispatch), `dispatches`, `identifies` (a successful send
returns an identity), `bestEffort`, `required`, `stable`. `Answers` is an honest
reconciliation: it says "sent" or "not sent" only when that is true. Provider
I/O begins in the step of the last check for cancellation. `started` counts
marks instead of holding a time, and the retry counters stop at `MaxRetries`.
Back-off only delays, so a scan may come at any time.

Every row starts with the claim of its producer. Left out: delivery-completion
owners, the media spool, stable preparations, migration of legacy rows, the
restart notices that enqueue without a claim, live-only sends after a failed
enqueue, enqueueing again under the identity of a deleted row, and the hooks and
audit records that are emitted beside the transitions.

### RestartSignal

`s` is the module state of `restart.ts` together with the admission as far as it
concerns a restart (drain, suspension, fence). Each deferral and each forced
request has one emission attempt `att[x]`, which goes through
`emitPreparedGatewayRestart`: `asked` or `parked` at the admission, `caller`
while the hooks of a reload prepare, `hook` while a parked continuation hook
does, `leaving` once its body has returned and its root is about to be released.
`written` are the hooks whose `beforeEmit` took effect (the restart sentinel),
`carried` those that went with a delivered signal. A hook is offered once. The
sentinel is written, or the hook fails, as soon as `beforeEmit` is called, and
removed as soon as `afterEmitRejected` is (the one continuation hook there is,
of `/restart`, does both in a synchronous transaction); the attempt learns of it
in a later step, and anything may have happened in between.

Promise continuations run before any timer, signal or request; `Quiet` says
that none is left, and guards the actions that start from one. `late` stands
for the deferral budget, a Boolean per request for "due earlier". The other
roots of the gateway are one Boolean, `work`. Delivery of the signal may fail
(`Emissions`), a reload's own emitter may refuse, the handler may refuse or fail
before it decides, authorisations expire, and other processes send SIGUSR1 and
may leave a restart intent at any time. Several awaited rejections of hooks are one step with
the emission they follow. The pending count never throws. An in-process restart
happens only once no handler is left: closing the server takes longer than the
import a handler waits for.

A comment at `restart.ts:480` calls the emission single-flight. The model has
two bodies side by side when a failing direct emission, or a refused SIGUSR1,
reopens the fence of an attempt that is preparing; `SentinelSettled` and
`FenceHasReason` hold nevertheless, so the project states those and not the
comment.

### ApprovalRow and Approvals

One approval, because approvals share nothing but the lookup by id. `row` is its
durable row; `outcome` puts status, decision and terminal reason together.
`entry[l]` is the binding in the pending map of the manager of lifetime `l`,
`waiter[l]` the value of its decision promise, `published[l]` the terminal
events it emitted. A call of the manager is synchronous, and so is a transaction:
both are operators on a view (row, binding, waiter, events), and an action is
the handler up to its next `await`. `Attempt` adds the outcome in which the
transaction throws. `Answered` is `resolveDetailed`, `ForceDenied`
`forceDenyDetailed`, `Snapshot` `getSnapshot`, `Lookup` the authorised lookup of
`approval.ts`, `Asked` and `Projected` together `projectDecisionIfActive`.
`req` and `reply` are the requester's handler, `invoke` a `node.invoke` call that
presents the approval: `Forward` redeems it and retains the binding, `Dispatch`
is the last check of authority, in the same step as the handoff to the node.

The clock counts ticks; `Timeout` and `Grace` stand for the timeout of the
request and the 15 s of `EXEC_APPROVAL_RESOLVED_ENTRY_GRACE_MS`. A timer may be
late. `closed` are the lifetimes whose requester lost its delegated authority
(every requester has one; without a closure this is the unbound case). After a
restart in the process the old manager may still be called, which is more than
the code lets happen. Follow-up and delivery may take any time, and delivery does
not throw (`runApprovalRequestDeliveries` catches).

Left out: plugin and system-agent approvals, visibility, id prefixes, history,
receipts, pruning, the mode without persistence, the labels of who resolved and
of auto-review, reuse of an id, and a clock that runs backwards.

Two observations that no property is about. When a storage failure has denied the
waiter and the no-route path then repairs the row, the repair counts as its own
denial, and the requester is answered `null`, not `deny`
(`approval-shared.ts:393-412`). Both refuse the command, but `null` is what an
ask fallback starts from; the redemption refuses it, since the record is denied.
And when a transaction that throws has denied the waiter and cleared the expiry
timer, a lookup that is then the first to see the deadline pass writes the expiry,
but `settleLocalFromStore` publishes only what it settles
(`exec-approval-manager.ts:650`): reviewers do not hear of that expiry, though line 131
promises it for every ordering. `PublishedOnce` shows that this takes the storage
failure.

## 4. What the runs check

Deadlock is not checked: the bounds on enqueues, roots, leases, requests and
generations make every bounded model stop. `TypeOK` of the other modules has been
proved where section 5 says so and model-checked while the module was built; it
is in no other run.

| Run | Bounds | Properties |
|---|---|---|
| `CommandQueue_group` | 2 grouped lanes and 1 session lane, 3 timed entries, the last of 2 priorities, 1 waiter, 1 reset per lane, budget 2, reservation 1 | `NoStrandedWork`, `EntriesAccounted`, `GroupWithinBudget`, `WaitersServed`, `ReservationKept`, `EventuallyDispatched` |
| `WorkAdmission_safety` | 2 chains, 2 roots, 3 leases, 1 drain wait, generations up to 2 | `NoLostWaiter`, `RootAccounting`, `LostLeasesStayLost`, `ImplementsGate` |
| `GatewaySuspend` | 1 chain, 2 roots, 2 leases, 4 generations, 2 hosts, 1 renewal | `HeldMeansOwned`, `ReadyMeansIdle`, `ImplementsSuspension`, `EventuallyReopened` |
| `LazyCron` | 3 starts, 2 stops | `HeldDoesNotTick`, `NoSilentDeath`, `StopSticks`, `ReturnedMeansStarted`, `NoStuckBlocker`, `StartsReturn` |
| `HeartbeatWake` | 3 agents and the unscoped target, 2 slots, 3 requests, 3 handlers, delays and windows of 1 | `TurnsExclusive`, `DealtWithOnce`, `NoLateTimer`, `BarrierRespected`, `EventuallySettled` |
| `DeliveryQueue_safety` | 2 processes, 1 crash, 3 claims, 2 retries; single payloads with all traits, batches of 2 that identify what they send | `NoDuplicate`, `EvidenceKept`, `LeaseRespected`, `DroppedMeansUnsent` |
| `DeliveryQueue_live` | 1 process, 2 crashes, 2 retries, 1 payload | `DecidedUnlessStranded` |
| `DeliveryQueue_exhausted` | the same | violates `EventuallyDecided`: finding 1 |
| `DeliveryQueue_silent` | 1 process, best-effort batches of 2 that return no identity | violates `NoDuplicate`: finding 2 |
| `RestartSignal` | 1 timed deferral, 1 reload, 1 forced request, 2 sessions with a hook each, 1 authorisation, external signals | `FenceHasReason`, `SentinelSettled`, `UnderWayUnlessGivenUp` |
| `RestartSignal_lost` | the same with 1 session | violates `StillUnderWay`: finding 3 |
| `Approvals` | 2 lifetimes, 2 invokes, timeout 2, grace 1, clock up to 4, throwing transactions and unreadable rows | `OneAnswer`, `HandoffKeepsBinding`, `TellsTheAllow`, `PublishedOnce`, `ClosedGrantsNothing`, `ImplementsApproval`, `RequestAnswered` |

Why the bounds are enough. Two grouped lanes with budget 2 and reservation 1 is
the smallest case in which the budget, the reservation and borrowing differ;
three entries fill both slots and leave one waiting, so a completion must
choose; one reset separates two generations; an urgent
last entry overtakes those that wait. Two chains are a caller and the one
that fences it (or a parent and its continuation); three leases let a root be
retained twice or handed over; two generations let a lease outlive its fence
while a later one stands. Four suspend generations allow a suspension, a
rolled-back one, the drain and another suspension in the next lifecycle. Three
starts are one in flight, one that joins it, and one that begins after a stop;
two stops end two lifecycles. Three requests are one more than the two slots,
and a global wake between two targeted ones; three handlers allow a
replacement and one more after a disposal. Three claims are a producer, a recovery that takes
over, and one that takes over from it; in `DeliveryQueue_live` the bound of 6 claims is
never reached (2 crashes and 2 retries use up fewer). One forced
attempt, one timer and one reload are the three ways into an emission, each of
which may meet each other; two hooks of different sessions are what the guard
of the pending slot is about.

For approvals, two lifetimes are an owner and the one that closes its orphan; two
invokes meet at one allow-once or one fallback; the clock leaves room for an
answer at any instant before the timeout, the grace after it, and a handoff
that outlives the grace. Longer clocks (up to 6) and timeouts were checked too.

Every passing run is over in about three minutes with two workers.

### Fairness

`CommandQueue!FairSpec` assumes only that a task with a `taskTimeoutMs`
eventually settles (a started task settles once, so this is weak fairness of its
`Settle`): `runQueueEntryTask` races the task with a timer. Nothing is
assumed of enqueues, resets or publications. With a bounded number of entries
the run does not speak about starvation of background entries by an endless
stream of foreground ones, which the code permits.

`GatewaySuspend!FairSpec` assumes that time passes (`Age`; a host renews a
suspension at most `MaxRenewals` times), that the expiry timer fires, and that
a recovery retry succeeds some day: the code retries every second for as long
as the scheduler cannot be resumed.

`LazyCron!FairSpec` assumes that what a start awaits goes on (promises of the
import, the store and the watchers settle) and that resuming a suspension is tried
some day (it may fail; the wrapper wakes its starts before it can).

`HeartbeatWake!FairSpec` assumes that time passes, that the timer fires, that
turns end, that a handler is registered again after a disposal, and, as strong
fairness, that a target whose turns are refused again and again is served some
day. The number of requests is bounded, so it does not speak about starvation by
new ones.

`DeliveryQueue!LiveSpec` assumes that a process runs its own steps, that the
drain timer (`server-runtime-services.ts:240`) starts scans, that a request
arrives or is lost, and that time passes. `Storage` is always available there;
crashes are bounded by `MaxCrashes`.

`Approvals!LiveSpec` assumes that time passes, that the expiry timer fires, that
deliveries end and that the parked handler goes on. That a transaction throws is
not excluded: the denial of the waiter does not need one.

No liveness is stated of `RestartSignal`: suspensions and new work that
alternate with the poll can postpone an attempt for as long as they do.

### Findings

1. `DeliveryQueue_exhausted`. A recovery that dies between reserving the last
   attempt and marking its send leaves a claimed row whose budget is spent.
   Recovery wants to move it to `failed/` as the owner null
   (`delivery-queue-recovery.ts:556`), which the row refuses while the dead
   claim is in it; the throw also ends the scan. `DecidedUnlessStranded` shows
   that this is the only way a message stays undecided.
2. `DeliveryQueue_silent`. A best-effort batch whose first payload returned no
   identity and whose second one is proven not sent counts as proven not sent
   (`deliver-queue-execute.ts:345`): the evidence is cleared and the first
   payload is sent again. Without best effort the catch at lines 595-600 does the
   same for one error that proves only its own payload unsent; the run pins
   `bestEffort`, so that its trace is the one described.
3. `RestartSignal_lost`. The deferral budget ends while an attempt waits behind
   a suspension: the poll stops (`restart.ts:814`), the forced attempt is not
   made because one is under way (`restart.ts:753`), that one finds new work and
   returns, and later requests coalesce into a restart nobody pursues.
   `UnderWayUnlessGivenUp` shows that this is the only way to lose it.

## 5. What is proved

All theorems hold for every value of the constants; TLC has checked each
property first.

* `CommandQueueProofs!TypeCorrect` - type invariant. The work is in the pump: the
  number of admitted entries exists (a least natural number argument), so
  `Drain` keeps queues and active sets well typed.
* `CommandQueueProofs!BudgetCorrect` - `GroupWithinBudget`. It is not inductive:
  without a group nothing bounds the sum, so the invariant adds that a hook task
  runs only while the group is installed, that hooks have width 0 without it,
  and that `cron-nested` is exactly as wide as the budget. The central lemma is
  that a drain admits one entry at a time and `BlockReason` refuses the one that
  would exceed the budget.
* `CommandQueueProofs!EntriesKept` - `EntriesAccounted`. Inside a call an entry that
  a pump has started is in the active set and still "queued" in the entry table;
  only `Install` ends that. So the invariant is stated of tables and lane by lane
  (`Tidy`), with that interval allowed: a pump moves entries from the queue of its
  lane to its active set and is `Tidy` on both sides of every intermediate table.
  `AccountInv` adds that no entry is of a generation ahead of its lane's (a reset
  is what makes completions stale) and that a lane that was removed is empty.
* `CommandQueueProofs!WaitsAnswered` - `WaitersServed`. A captured task has started
  (`Captured`), a started entry never becomes active again, and every action that
  takes a task out of the active sets notifies.
* `CommandQueueProofs!NothingStranded` - `NoStrandedWork`. A pump leaves its own lane
  blocked or empty; a start elsewhere never unblocks a lane, since every reason to
  block grows with the active counts (`Reasons`, `BlockedStays`); and a release
  concerns its own lane and, in a group, the sibling, which are the two that are
  pumped. That is why the sibling pump is needed after every release.
* `CommandQueueProofs!ReservationHeld` - `ReservationKept`: a pump starts cron work
  only while the unused reservation is left over (`DrainSpare`), and only a
  publication changes the group.
* `WorkAdmissionProofs!TypeCorrect` - `TypeOK` needs that the active set is
  exactly the unreleased roots and that each is still referenced (`RootsInv`):
  otherwise a release could take a count below zero.
* `WorkAdmissionProofs!DrainSupersedes`, `LeasesStayLost` - from `FencesInv`: a
  draining gate has no fence, and no lease carries a generation later than the
  gate's, so a lease that does not hold the fence now cannot match a later one.
* `WorkAdmissionProofs!WaitersWoken` - each half is inductive next to the type
  invariant: a chain parks only at a closed gate, and every step that opens the
  gate or starts the drain wakes all of them; likewise for the last root.
* `WorkAdmissionProofs!RootsCounted` - `RootAccounting`. Next to the types and the
  active set the counts are inductive (`CountInv`): a lease is issued together
  with the reference it stands for, so a retain adds one member to the open leases
  of its root, a release removes one, and no step touches those of another root.
* `WorkAdmissionProofs!Refinement` - `WorkAdmission` implements `AdmissionGate`
  under the mapping of its last section.
* `GatewaySuspendProofs!HeldOwned`, `Refinement` - one
  invariant, `OwnersInv`: gate, entry and scheduler agree that there is a
  suspension or that there is none; a drain has dropped every suspension, and
  only a drain leaves a retired entry. Reopening and preparing are proved to
  map one agreeing state to another as a whole (`Agree`), which is why the
  combined action of a prepare call that first normalises an expired suspension
  needs no case analysis of its own.
* `GatewaySuspendProofs!HeldIdle` - `ReadyMeansIdle` needs to know why nothing can
  be admitted behind the fence of a held suspension: a root is admitted through the
  gate, which is closed, or as the continuation of live work, and the only active
  roots are those of the prepare call, which no chain has any more once it has
  returned (`QuietInv`). A restart request is the exception the code makes, and ends
  the claim. The roots are typed loosely here (`RootsOK`); their counts play no part.
* `RestartSignalProofs!TypeCorrect`, `FenceOwned` - one invariant:
  a signal in flight has a handler until a drain begins, the drain drops the
  fence, a lease closes the fence it was taken for, and a fence without signal
  belongs to an attempt that still prepares and is current. An attempt is
  admitted only through an open fence, and an open fence has no lease, so an
  attempt that prepares always created its lease (`AttemptInv`): `rollbackFence`
  of an attempt that merely adopted one has no state to act in. That a second
  handler can be under way, but never a third, is part of type correctness: a
  signal is sent only when none is unconsumed, and then at most one is handled.
* `RestartSignalProofs!SentinelsSettled` - `SentinelSettled` is not inductive:
  rolling back the hook of one attempt must not touch what another holds or a
  signal carried, so the invariant adds that those are different hooks, and that
  the parked one is not written yet (`HeldInv`).
* `RestartSignalProofs!RestartPursued` - `UnderWayUnlessGivenUp` does not say who is
  still at it. `WayInv` does: a deferral of the timer that is polled for or late, or
  a forced attempt that was launched to bypass other work and is current. A poll
  ends early only by a step that settles the restart: an emission leaves nothing
  scheduled, a bypass launches a forced attempt, and a deferral whose attempt has
  returned found the restart settled (`OwnInv`: only the hooks of a reload may
  refuse). No timer fires and no request is scheduled while an attempt is leaving
  (`Quiet`), so what it found still holds when it ends its poll.
* `LazyCronProofs!TypeCorrect`, `HeldQuiet`, `SchedulerAlive`, `StopsStick`,
  `StartsDelivered`, `BlockerBounded`, `OneStartInFlight`, `JoinersDecided` - one
  invariant of the lifecycle and of the calls. None of the
  properties is inductive alone: that a held gateway does not tick rests on the
  service being paused for as long as the fence is held, whoever re-arms the timer
  meanwhile, and on the start body of the present lifecycle being parked
  (`FenceInv`), which rests on the phase "starting" blocking a suspension for as
  long as that body lives, through its reconciliations too (`BodyInv`); that a
  started scheduler stays alive rests on `Running`, which begins when the service
  has armed its timer, long before the wrapper says "started" (`LiveInv`); that a
  stop sticks rests on the cleanup that a stop during the import leaves behind
  (`ServiceInv`). `Refused` is the one state in which the phase outlives its body.
  `Alive`, a start body of the present generation, is what separates a start that
  a stop has overtaken from the one that replaced it.
  What pausing, resuming and waking may change is one lemma each (`SameLife`,
  `SamePause`, `CoordinatorStep`), and so is what a step of a call leaves alone
  (`CallMoves`). `OneRunner` says that at most one call runs the start body, so the
  promise a joiner awaits is the one in flight (`SingleFlight`). `OwnStartDecides`
  says that a joined start of the caller's own generation has failed, been
  overtaken or started the service when the caller goes on: the model leaves out
  the code that would begin a second start below it (`server-cron-lazy.ts:95-113`),
  and this theorem is why it may. TLC agreed on both with three starts and two
  stops while the proof was built; no run repeats them.
* `HeartbeatWakeProofs!TypeCorrect`, `NothingLost`, `ServedOnce`, `TurnsAlone`,
  `BarrierKept`, `TimerOnTime` - `NoWakeLost` is proved request by request (`Counted`): queueing
  adds the requests of a wake to those pending and no others, whatever it merges
  with, and a turn has the requests of the ready wakes it took. With the types and
  `TurnsExclusive` that is inductive. `DealtWithOnce` adds that a request is in one
  place only (`Apart`): queueing brings a request to the one slot of its wake, a
  turn of two wakes shares a request only if two slots did (`TurnApart`), and what a
  stale turn hands over it has not settled (`StaleApart`). The barrier then follows of a single step:
  each wake of a turn has the sequence of one it was taken from. For the timer,
  `NoLateTimer` is inductive next to it: what `schedulePendingWakes` arms is on
  time for all it looks at, and when it looks at nothing because it is deferred,
  the end of a turn schedules anew. The hard step is the firing timer, which arms
  itself with the delay it was set for, possibly longer than any window: a batch
  leaves nothing behind that is due, unless the slots run out (`NothingDueLeft`).
  The theorem assumes that the targets are finitely many, that no target has
  the key of the unscoped one, and that no coalescing window is longer than `Window`.

* `DeliveryQueueProofs!TypeCorrect`, `LeaseKept` - for any number of processes,
  claims, retries, crashes and payloads. The inductive invariant says that the row
  names its owner once (`RowInv`: the claim or the attempt, not two owners), that
  no two senders have one claim (`Distinct`), and what ties each process to
  the row (`Fits`): a sender trusts its lease no longer than the row grants it, and
  an attempt that a scanner found without a live owner never gets one again. Each
  step that changes the row is then `Excused`: it has no live owner, or the
  transaction's owner check passed for the process that steps.
* `DeliveryQueueProofs!NothingTwice`, `EvidenceStays`, `ReceiptsTrue`,
  `DroppedUnsent` - assume `Accountable` messages: of one payload, or batches
  whose expiry timers run on time and whose sends each return an identity. Neither
  half can go: a batch sent in silence is repeated (finding 2), and so is one whose
  producer does not know that its lease is over and goes on to the next payload
  after another process has found nothing sent (`NoDuplicate` fails on
  `DeliveryQueue_safety` with `TraitsOf(2, FALSE, TRUE, {FALSE})`). The inductive
  invariant `Once` says that at most one claim has requests that left and were not
  lost, that a pending row is marked and names it (`Evident`), and what each
  process knows (`Sure`): a sender calls a failure proven only if none of its
  requests is left (`Tells`), and an attempt a scanner found not sent never sends
  after that (`SureScanner`). Between two payloads of a batch a sender makes a
  request without a look at the row. Such a sender is `Active`; the row is held for
  it (`Held`: marked with its claim, under its lease or after it was sent),
  nobody else is active (`OneActive`), and a step of another process `Spares` it,
  because it is `Excused`. What keeps it all
  is a property of transactions (`Safe`) that composes, so that the chains of
  fallbacks after a failed transaction need one lemma each.

* `ApprovalsProofs!TypeCorrect`, `OneAnswerReached`, `HandoffKept`, `AllowTold`,
  `TerminalPublishedOnce`, `FirstAnswer`, `NothingGrantedClosed`,
  `ApprovalImplemented` - for any number of lifetimes and calls. Each call of the
  manager maps a view (row, binding, waiter, publications) to a view; it is shown to
  be `Kept`: a good view stays good, and the step from the one to the other is
  lawful. `Kept` composes (`KeptTrans`), so a handler that looks up, repairs,
  expires and settles in one step needs one lemma for each call it makes and none
  for their combinations. The invariant says of each lifetime that runs that its
  binding, its waiter and the row agree (`Agree`), that the handoff count is the
  number of handlers (`Held`: a set loses or gains one member, so its cardinality
  moves by one), and what the requester was told (`Told`); of each call that what
  it was granted is in the row; and of a lifetime that has gone that nothing of it
  is left. `Stepping` gives the invariant and, for the same step, everything a
  step may not do, from which the action properties and the refinement follow.
  `FirstAnswerStands` is proved though no run checks it any more.

Only model-checked: all liveness properties (liveness under fairness is out of the
prover's reach, as are ENABLED, induction over data and modules with RECURSIVE
operators; no module here uses RECURSIVE), and, of the three findings, that the
code does what they say.

## 6. Not modelled

See `components` in `PROJECT.json` for the list with reasons. What the modelled
components leave out is at the end of their parts of section 3. Where a modelled
component calls one that is not, the call is an assumption of its model:
`CommandQueue` takes a task as something that starts and may settle,
`HeartbeatWake` a heartbeat as something that returns one of its results,
`LazyCron` a tick as something that begins and ends, `DeliveryQueue` an adapter
as its traits, and `RestartSignal` the close and start of the server as one
step. The follow-up queue, stuck-session recovery, the node
registry, the gateway client, cron run admission and the codex bridge are state
machines of the same kind and within reach; they come after the parts they
depend on.
