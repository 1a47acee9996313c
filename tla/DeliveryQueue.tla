---------------------------- MODULE DeliveryQueue ----------------------------
(***************************************************************************)
(* The durable delivery of one outbound message                            *)
(* (src/infra/outbound/deliver-queue*.ts, delivery-queue-recovery.ts,      *)
(* delivery-queue-lease.ts).                                               *)
(*                                                                         *)
(* Several processes share the row of the message.  A live producer        *)
(* enqueues it under its own claim and sends; a recovery drain picks up    *)
(* what a dead or failed producer left, asks the platform about a send     *)
(* whose outcome is unknown, and sends again only when that is safe.       *)
(* A lease fences the owner of the row; its heartbeats renew it.           *)
(*                                                                         *)
(* What the platform does is in `wire' and `landed': a request lands, or   *)
(* is lost, on its own, also after its process has died.                   *)
(***************************************************************************)
EXTENDS DeliveryRow, FiniteSets

CONSTANTS
  Procs,            \* processes that open the state database
  MaxPayloads,      \* bound: payloads of the message
  Outcomes,         \* what a send may end with, see Outcome
  Traits,           \* messages and adapters considered, see traits
  Storage,          \* {TRUE}, or BOOLEAN: whether transactions may fail
  MaxCrashes        \* bound: processes that die

ASSUME QueueAssumption ==
  /\ MaxPayloads \in Nat \ {0} /\ MaxPayloads < MaxMarks /\ MaxCrashes \in Nat
  /\ Outcomes \subseteq {"identity", "silent", "abort", "unproven", "proven", "rejected"}
  /\ Storage \in {{TRUE}, BOOLEAN}
  /\ \A t \in Traits : /\ t.payloads \in 1 .. MaxPayloads
                       /\ t.exact => t.payloads = 1 /\ t.dispatches

VARIABLES
  row,              \* the row in SQLite
  traits,           \* the parameters of the message: its payloads, policy and
                    \* stable intent; of its adapter: exact reconciliation,
                    \* dispatch marks, whether each send returns an identity;
                    \* and whether the expiry timer of a lease runs on time
  worker,           \* each process: what holds its in-process claim on the row
  handed,           \* claim ids handed out
  wire,             \* requests on their way: <<claim, payload>>
  landed,           \* requests that reached the recipient
  crashes

vars == <<row, traits, worker, handed, wire, landed, crashes>>

Idle == [pc |-> "idle"]

\* A drain that has loaded the row and not claimed it yet.
Scanner == [pc : {"scanned", "answered", "replay"}, snap : Row,
            answer : {"none", "sent", "not_sent", "unresolved", "unsupported"}]

\* deliverOutboundPayloadsWithQueueCleanup: `pre' and `post' are queuedPreSendState
\* and queuedPostSendState, `sent' whether a payload returned an identity,
\* `silent' whether one returned none, `failures' the payload errors best effort
\* swallowed; `lease' is the time until confirmedExpiresAt.
Sender == [pc : {"reserve", "claimed", "sending", "started", "io", "got", "caught"},
           role : {"live", "recovery"}, claim : Claims, lease : 0 .. Lease, lost : BOOLEAN,
           cancelled : BOOLEAN, next : 1 .. MaxPayloads + 1,
           pre : {"none", "marked", "acked"}, post : {"none", "marked", "acked", "failed"},
           sent : BOOLEAN, silent : BOOLEAN, failures : {"none", "proven", "unproven"},
           error : {"none", "lost", "abort", "unproven", "proven", "rejected"}]

NewSender(pc, role, c) ==
  [pc |-> pc, role |-> role, claim |-> c, lease |-> 0, lost |-> FALSE, cancelled |-> FALSE,
   next |-> 1, pre |-> "none", post |-> "none", sent |-> FALSE, silent |-> FALSE,
   failures |-> "none", error |-> "none"]

IsSender(p) == worker[p] \in Sender
IsScanner(p) == worker[p] \in Scanner
Leased(p) == worker[p].pc \in {"sending", "started", "io", "got"}

\* Every variable has its type.
TypeOK ==
  /\ row \in Row /\ traits \in Traits
  /\ \A p \in Procs : worker[p] = Idle \/ IsScanner(p) \/ IsSender(p)
  /\ handed \in 0 .. MaxClaims
  /\ wire \subseteq Claims \X (1 .. MaxPayloads)
  /\ landed \subseteq Claims \X (1 .. MaxPayloads)
  /\ crashes \in 0 .. MaxCrashes

-----------------------------------------------------------------------------
(* Transactions that may fail.                                             *)

Fails(c, r) == ~Owned(r, c) \/ FALSE \in Storage

\* The row after the transactions of owner c: each is tried if the one before
\* it failed, and the last may fail too.
Tried(r, c, rows) ==
  IF ~Owned(r, c) THEN {r}
  ELSE IF FALSE \in Storage THEN {rows[i] : i \in DOMAIN rows} \union {r}
  ELSE {rows[1]}

\* persistQueuedPostSendState; "throws" when every transaction failed.
PostSend(r, c, stable) ==
  (IF Owned(r, c) THEN {[row |-> OutcomeUnknown(r, c), post |-> "marked"]} ELSE {})
  \union (IF Fails(c, r) THEN {[row |-> r, post |-> "throws"]} ELSE {})
  \union (IF Owned(r, c) /\ FALSE \in Storage
          THEN {[row |-> FailedAfter(r), post |-> "failed"]}
               \union (IF stable THEN {} ELSE {[row |-> Acked, post |-> "acked"]})
          ELSE {})

\* A recovery has a claim of its own, and so never acknowledges directly.
Persisted(w) == PostSend(row, w.claim, traits.stable \/ w.role = "recovery")
Kept(w) == {[row |-> row, post |-> w.post]}

End(p) == worker' = [worker EXCEPT ![p] = Idle]
To(p, w) == worker' = [worker EXCEPT ![p] = w]

-----------------------------------------------------------------------------
(* Ownership.                                                              *)

\* runOutboundDeliveryWithQueue with a new row.  A drain of the same process may
\* hold the in-process claim; then the producer returns and leaves the row.
Enqueue(p, turnedAway) ==
  /\ row.status = "absent" /\ worker[p] = Idle /\ handed < MaxClaims
  /\ handed' = handed + 1
  /\ row' = Enqueued(handed')
  /\ IF turnedAway THEN End(p) ELSE To(p, NewSender("claimed", "live", handed'))
  /\ UNCHANGED <<traits, wire, landed, crashes>>

\* A producer that reuses the pending intent of its stable id.
Reuse(p) ==
  /\ traits.stable /\ worker[p] = Idle /\ handed < MaxClaims
  /\ Claimable(row, None, 0)
  /\ handed' = handed + 1
  /\ row' = Claimed(row, handed')
  /\ To(p, NewSender("claimed", "live", handed'))
  /\ UNCHANGED <<traits, wire, landed, crashes>>

\* hasActiveDeliveryOwner
HasActiveOwner(r) == r.state # "none" /\ r.lease > 0

\* A drain claims the entry in its process, reloads it and leaves live owners
\* alone.  Back-off only delays it.
Scan(p) ==
  /\ worker[p] = Idle /\ Pending(row) /\ ~HasActiveOwner(row)
  /\ To(p, [pc |-> "scanned", snap |-> row, answer |-> "none"])
  /\ UNCHANGED <<row, traits, handed, wire, landed, crashes>>

\* recoveryPlatformAttemptId of the snapshot
Snapped(p) == worker[p].snap.attempt
NeedsReconciliation(r) == Marked(r)

Scanned(p) == worker[p].pc = "scanned"

\* The budget is spent and no send is in doubt: dead-letter what was read.
MoveExhausted(p) ==
  /\ Scanned(p) /\ Exhausted(worker[p].snap) /\ ~NeedsReconciliation(worker[p].snap)
  /\ row' \in Tried(row, Snapped(p), <<Dead>>)
  /\ End(p)
  /\ UNCHANGED <<traits, handed, wire, landed, crashes>>

\* applyRecoveryDeliveryAdmission: the route is rejected for good, and the row
\* is dead-lettered if it is still the one that was read.
AdmissionRejects(p) ==
  /\ Scanned(p)
  /\ row' = IF row = worker[p].snap THEN Dead ELSE row
  /\ End(p)
  /\ UNCHANGED <<traits, handed, wire, landed, crashes>>

OnWire(c) == \E i \in 1 .. traits.payloads : <<c, i>> \in wire
Landed(c) == \E i \in 1 .. traits.payloads : <<c, i>> \in landed

\* What an adapter answers is true of the attempt; it may not know.
Answers(c) ==
  {"unresolved", "unsupported"}
  \union (IF \A i \in 1 .. traits.payloads : <<c, i>> \in landed THEN {"sent"} ELSE {})
  \union (IF OnWire(c) \/ Landed(c) THEN {} ELSE {"not_sent"})

\* reconcileUnknownQueuedDelivery asks the platform.
Reconcile(p) ==
  /\ Scanned(p) /\ NeedsReconciliation(worker[p].snap)
  /\ \E a \in Answers(Snapped(p)) : To(p, [worker[p] EXCEPT !.pc = "answered", !.answer = a])
  /\ UNCHANGED <<row, traits, handed, wire, landed, crashes>>

ReplaysUnresolved(p) ==                                 \* mutant of Replays
  worker[p].answer \in {"not_sent", "unresolved"} /\ worker[p].snap.state = "started"
\* Only a send that never began is repeated.
Replays(p) == worker[p].answer = "not_sent" /\ worker[p].snap.state = "started"

\* drainQueuedEntry acts on the answer, as the attempt it asked about.
ActOnAnswer(p) ==
  LET w == worker[p] IN
  /\ w.pc = "answered"
  /\ IF Replays(p)
     THEN To(p, [w EXCEPT !.pc = "replay"]) /\ UNCHANGED row
     ELSE /\ row' \in
               CASE w.answer = "sent" -> Tried(row, Snapped(p), <<Acked, Failed(row)>>)
                 [] w.answer = "unresolved" /\ ~Exhausted(w.snap) ->
                      Tried(row, Snapped(p), <<Failed(row)>>)
                 [] OTHER -> Tried(row, Snapped(p), <<Dead>>)
          /\ End(p)
  /\ UNCHANGED <<traits, handed, wire, landed, crashes>>

\* claimDeliveryPlatformSendAttempt, with what was reconciled.
ClaimIds(p) ==
  IF worker[p].pc = "replay" THEN <<Snapped(p), worker[p].snap.started>> ELSE <<None, 0>>
Claim(p) ==
  /\ \/ worker[p].pc = "replay"
     \/ Scanned(p) /\ ~NeedsReconciliation(worker[p].snap) /\ ~Exhausted(worker[p].snap)
  /\ IF Claimable(row, ClaimIds(p)[1], ClaimIds(p)[2])
     THEN /\ handed < MaxClaims
          /\ handed' = handed + 1
          /\ row' = Claimed(row, handed')
          /\ To(p, NewSender("reserve", "recovery", handed'))
     ELSE End(p) /\ UNCHANGED <<row, handed>>
  /\ UNCHANGED <<traits, wire, landed, crashes>>

\* reserveDeliveryAttempt; a failed reservation ends the drain.
Reserve(p) ==
  LET c == worker[p].claim IN
  /\ worker[p].pc = "reserve"
  /\ \/ /\ Owned(row, c) /\ ~Exhausted(row)
        /\ row' = Reserved(row)
        /\ To(p, [worker[p] EXCEPT !.pc = "claimed"])
     \/ /\ Owned(row, c) /\ Exhausted(row)
        /\ row' \in Tried(row, c, <<Dead>>)
        /\ End(p)
     \/ /\ Fails(c, row)
        /\ End(p) /\ UNCHANGED row
  /\ UNCHANGED <<traits, handed, wire, landed, crashes>>

-----------------------------------------------------------------------------
(* The producer's lease.                                                   *)

\* startDeliveryProducerLease renews the claim before anything is sent.
StartLease(p) ==
  LET w == worker[p] IN
  /\ w.pc = "claimed"
  /\ \/ /\ Renewable(row, w.claim)
        /\ row' = Renewed(row)
        /\ To(p, [w EXCEPT !.pc = "sending", !.lease = Lease])
     \/ /\ ~Renewable(row, w.claim) \/ FALSE \in Storage
        /\ IF w.role = "live" THEN End(p)
           ELSE To(p, [w EXCEPT !.pc = "caught", !.error = "lost"])
        /\ UNCHANGED row
  /\ UNCHANGED <<traits, handed, wire, landed, crashes>>

\* The heartbeat.  A transaction that fails leaves the confirmed lease.
Renew(p) ==
  LET w == worker[p] IN
  /\ Leased(p) /\ ~w.lost
  /\ IF Renewable(row, w.claim)
     THEN row' = Renewed(row) /\ To(p, [w EXCEPT !.lease = Lease])
     ELSE To(p, [w EXCEPT !.lost = TRUE]) /\ UNCHANGED row
  /\ UNCHANGED <<traits, handed, wire, landed, crashes>>

\* The expiry timer of the lease.
LeaseExpires(p) ==
  /\ Leased(p) /\ worker[p].lease = 0 /\ ~worker[p].lost
  /\ To(p, [worker[p] EXCEPT !.lost = TRUE])
  /\ UNCHANGED <<row, traits, handed, wire, landed, crashes>>

\* The caller cancels its delivery.
Cancel(p) ==
  /\ Leased(p) /\ worker[p].role = "live" /\ ~worker[p].cancelled
  /\ To(p, [worker[p] EXCEPT !.cancelled = TRUE])
  /\ UNCHANGED <<row, traits, handed, wire, landed, crashes>>

-----------------------------------------------------------------------------
(* Sending.                                                                *)

Proven(e) == e \in {"proven", "rejected"}

\* A payload fails: best effort goes on to the next one, but not without lease.
Failing(w, e) ==
  IF traits.bestEffort /\ ~w.lost
  THEN [w EXCEPT !.pc = "sending", !.next = @ + 1,
                 !.failures = IF Proven(e) /\ @ # "unproven" THEN "proven" ELSE "unproven"]
  ELSE [w EXCEPT !.pc = "caught", !.error = IF w.lost THEN "lost" ELSE e]

\* The abort check at the boundary, then the request is on its way.
Go(p, w) ==
  /\ To(p, [w EXCEPT !.pc = "io"])
  /\ wire' = wire \union {<<w.claim, w.next>>}

Stopped(w) == w.lost \/ w.cancelled
StopError(w) == IF w.lost THEN "lost" ELSE "abort"

\* onPlatformSendStart without exact reconciliation marks the row once, before
\* the first payload.  If that fails, best-effort policy gives the row up
\* rather than leave it to be replayed, and sends anyway.
Premarked(w) ==
  IF traits.exact \/ w.pre # "none" THEN {[row |-> row, pre |-> w.pre, ok |-> TRUE]}
  ELSE (IF Promotable(row, w.claim)
        THEN {[row |-> Promoted(row, w.claim), pre |-> "marked", ok |-> TRUE]} ELSE {})
       \union
       (IF ~Promotable(row, w.claim) \/ FALSE \in Storage
        THEN (IF ~traits.required /\ Owned(row, w.claim)
              THEN {[row |-> Acked, pre |-> "acked", ok |-> TRUE]} ELSE {})
             \union
             (IF traits.required \/ Fails(w.claim, row)
              THEN {[row |-> row, pre |-> "none", ok |-> FALSE]} ELSE {})
        ELSE {})

PlatformSendStart(p) ==
  LET w == worker[p] IN
  /\ w.pc = "sending" /\ w.next <= traits.payloads
  /\ IF Stopped(w)
     THEN To(p, Failing(w, StopError(w))) /\ UNCHANGED <<row, wire>>
     ELSE \E m \in Premarked(w) :
          /\ row' = m.row
          /\ LET v == [w EXCEPT !.pre = m.pre,
                                !.post = IF m.pre = "acked" /\ w.role = "live" THEN "acked" ELSE @]
             IN IF ~m.ok THEN To(p, Failing(v, "unproven")) /\ UNCHANGED wire
                ELSE IF traits.dispatches
                     THEN To(p, [v EXCEPT !.pc = "started"]) /\ UNCHANGED wire
                     ELSE Go(p, v)
  /\ UNCHANGED <<traits, handed, landed, crashes>>

\* onPlatformSendDispatch proves ownership again, right before the request.  A
\* live producer stops doing so once an identity has marked the whole row.
Proves(w) == w.pre # "acked" /\ (w.role = "recovery" \/ w.post = "none")
PlatformSendDispatch(p) ==
  LET w == worker[p]
      v == [w EXCEPT !.pre = IF @ = "none" THEN "marked" ELSE @]
  IN
  /\ w.pc = "started"
  /\ \/ Stopped(w) /\ To(p, Failing(w, StopError(w))) /\ UNCHANGED <<row, wire>>
     \/ ~Stopped(w) /\ ~Proves(w) /\ Go(p, w) /\ UNCHANGED row
     \/ /\ ~Stopped(w) /\ Proves(w) /\ Dispatchable(row, w.claim)
        /\ row' = Dispatched(row, w.claim) /\ Go(p, v)
     \/ /\ ~Stopped(w) /\ Proves(w)
        /\ ~Dispatchable(row, w.claim) \/ FALSE \in Storage
        /\ To(p, Failing(w, "unproven")) /\ UNCHANGED <<row, wire>>
  /\ UNCHANGED <<traits, handed, landed, crashes>>

\* A request arrives or is lost, whatever has become of its process.
Land(c, i) ==
  /\ <<c, i>> \in wire
  /\ wire' = wire \ {<<c, i>>} /\ landed' = landed \union {<<c, i>>}
  /\ UNCHANGED <<row, traits, worker, handed, crashes>>
Vanish(c, i) ==
  /\ <<c, i>> \in wire
  /\ wire' = wire \ {<<c, i>>}
  /\ UNCHANGED <<row, traits, worker, handed, landed, crashes>>

\* The adapter returns.  A timeout or an abort says nothing about the request;
\* "proven" and "rejected" are only ever said of one that did not land.
Possible(o, f) ==
  CASE o = "identity" -> f \in landed
    [] o = "silent" -> f \notin wire /\ ~traits.identifies
    [] o \in {"proven", "rejected"} -> f \notin wire /\ f \notin landed
    [] OTHER -> TRUE
Outcome(p, o) ==
  LET w == worker[p] IN
  /\ w.pc = "io" /\ Possible(o, <<w.claim, w.next>>)
  /\ To(p, CASE o = "identity" -> [w EXCEPT !.pc = "got", !.sent = TRUE]
             [] o = "silent" ->
                  [w EXCEPT !.pc = "sending", !.next = @ + 1, !.silent = TRUE]
             [] OTHER -> Failing(w, o))
  /\ UNCHANGED <<row, traits, handed, wire, landed, crashes>>

\* onDeliveryResult records that the outcome is unknown to whoever comes next.
DeliveryResult(p) ==
  LET w == worker[p] IN
  /\ w.pc = "got"
  /\ IF w.post = "none" /\ w.role = "live" /\ w.lost
     THEN To(p, Failing(w, "lost")) /\ UNCHANGED row
     ELSE \E s \in IF w.post = "none" THEN Persisted(w) ELSE Kept(w) :
          /\ row' = s.row
          /\ IF s.post = "throws" THEN To(p, Failing(w, "unproven"))
             ELSE To(p, [w EXCEPT !.pc = "sending", !.next = @ + 1, !.post = s.post])
  /\ UNCHANGED <<traits, handed, wire, landed, crashes>>

-----------------------------------------------------------------------------
(* Settling.                                                               *)

Returned(p) == worker[p].pc = "sending" /\ worker[p].next > traits.payloads

\* Best effort went on after errors: the row is clean only if all of them prove
\* that nothing was sent.
PartialFailure(w, r) ==
  IF ~w.sent /\ w.failures = "proven" THEN FailedBefore(r) ELSE Failed(r)

\* The rows a live producer may leave once its post-send state is s.
SettledRows(w, s) ==
  IF w.failures # "none"
  THEN IF s.post \in {"none", "marked"}
       THEN Tried(s.row, w.claim, <<PartialFailure(w, s.row)>>)
       ELSE {s.row}
  ELSE CASE ~w.sent /\ s.post = "marked" -> Tried(s.row, w.claim, <<FailedAfter(s.row)>>)
         [] s.post = "none" -> Tried(s.row, w.claim, <<Acked, Failed(s.row)>>)
         [] s.post = "marked" /\ w.sent ->
              Tried(s.row, w.claim, <<Acked, FailedAfter(s.row)>>)
         [] OTHER -> {s.row}

\* The live delivery returned: deliverOutboundPayloadsWithQueueCleanup.
LiveReturns(p) ==
  LET w == worker[p]
      evidence == w.sent \/ (w.failures = "none" /\ w.pre = "marked")
  IN
  /\ Returned(p) /\ w.role = "live"
  /\ IF w.lost THEN UNCHANGED row
     ELSE IF traits.stable /\ w.sent /\ w.silent
     THEN row' \in Tried(row, w.claim, <<FailedAfter(row)>>)
     ELSE \E s \in IF w.post = "none" /\ evidence THEN Persisted(w) ELSE Kept(w) :
          row' \in SettledRows(w, s)
  /\ End(p)
  /\ UNCHANGED <<traits, handed, wire, landed, crashes>>

IdentityOnly(w) == w.sent                               \* mutant of SendEvidence
\* hasPlatformSendEvidence
SendEvidence(w) == w.sent \/ w.pre = "marked"

\* The catch of the live delivery; a producer that lost its lease touches nothing.
LiveThrows(p) ==
  LET w == worker[p] IN
  /\ w.pc = "caught" /\ w.role = "live"
  /\ \/ (w.lost \/ w.pre = "acked") /\ UNCHANGED row
     \/ /\ ~w.lost /\ w.pre # "acked" /\ w.error = "abort"
        /\ row' \in IF SendEvidence(w)
                    THEN IF w.post = "failed" THEN {row}
                         ELSE Tried(row, w.claim, <<FailedAfter(row)>>)
                    ELSE Tried(row, w.claim, <<Dropped>>)
     \/ /\ ~w.lost /\ w.pre # "acked" /\ w.error # "abort" /\ w.sent
        /\ \E s \in IF w.post = "none" THEN Persisted(w) ELSE Kept(w) :
             row' \in IF s.post = "marked" THEN Tried(s.row, w.claim, <<FailedAfter(s.row)>>)
                      ELSE {s.row}
     \/ /\ ~w.lost /\ w.pre # "acked" /\ w.error # "abort" /\ ~w.sent
        /\ row' \in CASE w.error = "rejected" ->
                           Tried(row, w.claim, <<Dropped, FailedBefore(row)>>)
                      [] w.error = "proven" -> Tried(row, w.claim, <<FailedBefore(row)>>)
                      [] OTHER -> Tried(row, w.claim, <<Failed(row)>>)
  /\ End(p)
  /\ UNCHANGED <<traits, handed, wire, landed, crashes>>

\* A recovered delivery returned.  What throws here is caught below.
RecoveryReturns(p) ==
  LET w == worker[p]
      begun == w.pre # "none" \/ traits.exact
      thrown == To(p, [w EXCEPT !.pc = "caught", !.error = IF w.lost THEN "lost" ELSE "unproven"])
      settled(rows) ==
        \/ Owned(row, w.claim) /\ row' \in rows /\ End(p)
        \/ Fails(w.claim, row) /\ UNCHANGED row /\ thrown
  IN
  /\ Returned(p) /\ w.role = "recovery"
  /\ CASE w.lost -> UNCHANGED row /\ thrown
       [] ~w.lost /\ (w.silent \/ (~w.sent /\ begun)) -> settled({FailedAfter(row)})
       [] ~w.lost /\ ~w.silent /\ ~w.sent /\ ~begun ->
            settled({PartialFailure(w, row)})
       [] OTHER ->
            \E s \in IF w.post = "none" THEN Persisted(w) ELSE Kept(w) :
              \/ s.post = "throws" /\ row' = s.row /\ thrown
              \/ /\ s.post # "throws"
                 /\ row' \in IF s.post = "marked" /\ w.failures = "none"
                             THEN Tried(s.row, w.claim, <<Acked, FailedAfter(s.row)>>)
                             ELSE {s.row}
                 /\ End(p)
  /\ UNCHANGED <<traits, handed, wire, landed, crashes>>

\* The catch of a recovered delivery.  An error whose text looks permanent
\* dead-letters the row.
RecoveryThrows(p) ==
  LET w == worker[p] IN
  /\ w.pc = "caught" /\ w.role = "recovery"
  /\ IF w.sent \/ w.post # "none"
     THEN \E s \in IF w.post = "none" THEN Persisted(w) ELSE Kept(w) : row' = s.row
     ELSE row' \in CASE w.error = "rejected" -> Tried(row, w.claim, <<Dead>>)
                     [] w.error = "proven" -> Tried(row, w.claim, <<FailedBefore(row)>>)
                     [] OTHER -> Tried(row, w.claim, <<Failed(row)>>)
                                 \union Tried(row, w.claim, <<Dead>>)
  /\ End(p)
  /\ UNCHANGED <<traits, handed, wire, landed, crashes>>

-----------------------------------------------------------------------------
(* Time and crashes.                                                       *)

Less(n) == IF n = 0 THEN 0 ELSE n - 1

Elapsed(w) ==
  IF w \in Sender /\ w.lease > 0
  THEN [w EXCEPT !.lease = @ - 1, !.lost = @ \/ (traits.timely /\ w.lease = 1)]
  ELSE w

Pass ==
  /\ row.lease > 0 \/ \E p \in Procs : IsSender(p) /\ worker[p].lease > 0
  /\ row' = [row EXCEPT !.lease = Less(@)]
  /\ worker' = [p \in Procs |-> Elapsed(worker[p])]
  /\ UNCHANGED <<traits, handed, wire, landed, crashes>>

\* The process dies and is started again.
Crash(p) ==
  /\ worker[p] # Idle /\ crashes < MaxCrashes
  /\ crashes' = crashes + 1
  /\ End(p)
  /\ UNCHANGED <<row, traits, handed, wire, landed>>

-----------------------------------------------------------------------------
Init ==
  /\ row = Gone("absent")
  /\ traits \in Traits
  /\ worker = [p \in Procs |-> Idle]
  /\ handed = 0
  /\ wire = {} /\ landed = {}
  /\ crashes = 0

Recovers(p) ==
  \/ Scan(p) \/ MoveExhausted(p) \/ Reconcile(p) \/ ActOnAnswer(p) \/ Claim(p) \/ Reserve(p)
Sends(p) ==
  \/ StartLease(p) \/ PlatformSendStart(p) \/ PlatformSendDispatch(p)
  \/ \E o \in Outcomes : Outcome(p, o)
  \/ DeliveryResult(p)
Settles(p) ==
  LiveReturns(p) \/ LiveThrows(p) \/ RecoveryReturns(p) \/ RecoveryThrows(p)

Next ==
  \/ \E p \in Procs :
       \/ \E turnedAway \in BOOLEAN : Enqueue(p, turnedAway)
       \/ Reuse(p) \/ Recovers(p) \/ AdmissionRejects(p)
       \/ Sends(p) \/ Settles(p)
       \/ Renew(p) \/ LeaseExpires(p) \/ Cancel(p) \/ Crash(p)
  \/ \E c \in Claims, i \in 1 .. MaxPayloads : Land(c, i) \/ Vanish(c, i)
  \/ Pass

Spec == Init /\ [][Next]_vars

\* The gateway drains on a timer (server-runtime-services.ts:240), a process runs
\* its own steps, a request arrives or is lost, and time passes.
LiveSpec ==
  /\ Spec
  /\ WF_vars(Pass)
  /\ \A p \in Procs :
       /\ WF_vars(Recovers(p)) /\ WF_vars(Sends(p)) /\ WF_vars(Settles(p))
       /\ WF_vars(LeaseExpires(p))
  /\ \A c \in Claims, i \in 1 .. MaxPayloads : WF_vars(Land(c, i) \/ Vanish(c, i))
-----------------------------------------------------------------------------
(* Properties.                                                             *)

\* No payload reaches the recipient twice: neither a crash, a lost lease, a
\* failed transaction nor a second drain makes anyone repeat a send that may
\* have happened (the comment at delivery-queue-storage.ts:347).
NoDuplicate ==
  \A i \in 1 .. traits.payloads : \A c, d \in Claims :
    <<c, i>> \in landed /\ <<d, i>> \in landed => c = d

\* While a send may have happened, a pending row says so: nobody who reads it
\* later takes it for a message that was never sent.
EvidenceKept ==
  Pending(row) /\ (wire # {} \/ landed # {}) => Marked(row)

\* Only a stable intent leaves a receipt.  Under the required policy the receipt
\* means that something reached the recipient.
AckMeansSent == row.status = "acked" /\ traits.stable /\ traits.required => landed # {}

\* A message is settled without a receipt only before anything of it was sent:
\* it was cancelled in time, or refused for good.
DroppedMeansUnsent ==
  [][row.status = "pending" /\ row'.status = "dropped" => wire = {} /\ landed = {}]_vars

\* As long as a process holds the lease of the row, nobody else changes it.
Holder(p) == Leased(p) /\ row.lease > 0 /\ worker[p].claim \in {row.claim, row.attempt}
LeaseRespected ==
  [][\A p \in Procs : Holder(p) /\ worker'[p] = worker[p] =>
       row' = row \/ row' = [row EXCEPT !.lease = Less(@)]]_vars

\* A message that is queued is at last sent, refused or dead-lettered, whatever
\* crashes: the comment at delivery-queue-recovery.ts:1341 says that recovery
\* moves what exhausts its budget to failed/.
EventuallyDecided == Pending(row) ~> ~Pending(row)

\* The exception the code makes: the budget was spent on a recovery that died
\* before it marked a send, and its claim is still in the row.
Stranded == row.state = "claimed" /\ row.lease = 0 /\ Exhausted(row)
DecidedUnlessStranded == Pending(row) ~> ~Pending(row) \/ Stranded

=============================================================================
