------------------------------ MODULE Approvals ------------------------------
(***************************************************************************)
(* One exec approval, from its request to the command it lets run          *)
(* (src/gateway/exec-approval-manager.ts, the handlers that call it, and   *)
(* the row they share).                                                    *)
(*                                                                         *)
(* Each lifetime of the gateway has a manager of its own.  It keeps a      *)
(* binding (`entry') to the parked requester for as long as the approval   *)
(* is executable; the row is the durable answer, whoever gives it first.   *)
(* Reviewers, the expiry timer, lookups, replays, aborted runs, and        *)
(* requesters that redeem the answer meet in the manager.  A restart in    *)
(* the process starts a lifetime beside the old one; a crash ends all.     *)
(*                                                                         *)
(* A call of the manager is synchronous.  It takes a view (the row and one *)
(* lifetime's binding) to the set of views it may leave: a transaction may *)
(* throw when "busy" is a fault.                                           *)
(***************************************************************************)
EXTENDS ApprovalRow, FiniteSets

CONSTANTS
  MaxLifetimes,     \* bound: lifetimes of the gateway
  Invokes,          \* node.invoke calls that present the approval
  Timeout, Grace,   \* how long it stays open, and executable once answered
  MaxTime,          \* bound: the clock
  Faults            \* "busy": transactions throw; "rot": the row stops decoding

ASSUME ApprovalsAssumption ==
  /\ MaxLifetimes \in Nat \ {0} /\ Timeout \in Nat \ {0} /\ Grace \in Nat \ {0}
  /\ MaxTime \in Nat /\ Faults \subseteq {"busy", "rot"} /\ IsFiniteSet(Invokes)

VARIABLES
  row,          \* the durable row
  entry,        \* entry[l]: the binding in lifetime l's pending map
  waiter,       \* waiter[l]: the value of its decision promise
  published,    \* published[l]: terminal events sent to session subscribers
  req,          \* req[l]: where the requester's handler is
  reply,        \* reply[l]: the decision it is going to answer, or answered
  invoke,       \* invoke[i]: where a node.invoke call is
  closed,       \* lifetimes whose requester has lost its delegated authority
  up, started,  \* running lifetimes, and how many there have been
  now

vars == <<row, entry, waiter, published, req, reply, invoke, closed, up, started, now>>

Lifetimes == 1 .. MaxLifetimes
Never == MaxTime + Timeout + Grace + 1     \* a time that does not come

\* `at' is resolvedAtMs, `retained' handoffRetainCount, `released'
\* handoffReleasedAtMs, `cleanup' when the cleanup timer is due, `spent'
\* consumedDecision, `reused' askFallbackConsumed.  A storage-corrupt outcome is
\* local, and its entry is the one retained for the manager's lifetime.
NoEntry == [outcome |-> "absent", at |-> 0, expires |-> 0, retained |-> 0,
            released |-> Never, cleanup |-> Never, spent |-> FALSE, reused |-> FALSE]
NoInvoke == [pc |-> "idle", life |-> 1, grant |-> "none"]

Open(e) == e.outcome = "pending"
Present(e) == e.outcome # "absent"
Resolved(e) == e.outcome \in Terminal

\* The decision of a record: a timeout, a missing route and a cancellation end
\* without one.
Decision(o) ==
  CASE o \in Allows -> o
    [] o \in {"denied", "corrupt"} -> "deny"
    [] OTHER -> "null"

-----------------------------------------------------------------------------
(* The calls of the manager.                                               *)

View(l) == [row |-> row, entry |-> entry[l], waiter |-> waiter[l],
            published |-> published[l], result |-> "none"]

Becomes(l, v) ==
  /\ row' = v.row
  /\ entry' = [entry EXCEPT ![l] = v.entry]
  /\ waiter' = [waiter EXCEPT ![l] = v.waiter]
  /\ published' = [published EXCEPT ![l] = v.published]

\* A call whose transaction may throw instead.
Attempt(done, threw) ==
  IF "busy" \in Faults THEN {done, [threw EXCEPT !.result = "threw"]} ELSE {done}

After(v, t) == [v EXCEPT !.row = t.row, !.result = t.result]
Published(v) == [v EXCEPT !.published = @ + 1]

\* scheduleResolvedCleanup
Cleaned(e) ==
  IF e.cleanup = Never /\ Resolved(e) /\ e.outcome # "corrupt" /\ e.retained = 0
  THEN [e EXCEPT !.cleanup = now + Grace]
  ELSE e

\* settleLocalEntry: the waiter is released, once.
SettleLocal(v, o, at) ==
  IF Open(v.entry)
  THEN [v EXCEPT !.entry = Cleaned([@ EXCEPT !.outcome = o, !.at = at]),
                 !.waiter = Decision(o)]
  ELSE v

\* mutant of StorageFailure: the waiter stays parked.
StillParked(v) == v

\* settleLocalStorageFailure: denied here, whatever becomes of the row.
StorageFailure(v) == SettleLocal(v, "corrupt", now)

\* settleLocalFromStore: whoever settles the waiter publishes the terminal event.
FromStore(v, l) ==
  IF Owned(v.row, l) /\ v.row.outcome \in Terminal /\ Open(v.entry)
  THEN Published(SettleLocal(v, v.row.outcome, v.row.resolved))
  ELSE v

Reconciled(v, l) ==
  CASE v.result \in {"resolved", "denied", "expired", "already"} -> FromStore(v, l)
    [] v.result \in {"missing", "corrupt"} -> StorageFailure(v)
    [] OTHER -> v

\* persistStorageCorruptDeny
RepairDeny(v, l) ==
  LET done == After(v, ForceDeny(v.row, l, "corrupt", now)) IN
  Attempt(IF done.result \in {"denied", "expired"} THEN Published(done) ELSE done, v)

\* forceDenyDetailed
ForceDenied(v, l, o) ==
  IF v.entry.outcome = "corrupt" THEN RepairDeny(v, l)
  ELSE Attempt(Reconciled(After(v, ForceDeny(v.row, l, o, now)), l), StorageFailure(v))

\* forceDenyIfDelegatedAuthorityClosed
Bound(v, l) == Present(v.entry) /\ l \in closed
Authorized(v, l) == IF Bound(v, l) THEN ForceDenied(v, l, "cancelled") ELSE {v}

\* mutant of Answered: the waiter is released whether the row was written or not.
AnsweredAnyway(v, l, d) ==
  IF d # "deny" /\ (Bound(v, l) \/ ~Present(v.entry)) THEN {v}
  ELSE LET done == After(v, Resolve(v.row, l, d, now)) IN
       Attempt(Reconciled(done, l), [FromStore(done, l) EXCEPT !.row = v.row])

\* resolveDetailed.  The row alone allows nothing: an allow needs the binding.
Answered(v, l, d) ==
  IF d # "deny" /\ Bound(v, l) THEN Authorized(v, l)
  ELSE IF v.entry.outcome = "corrupt" THEN RepairDeny(v, l)
  ELSE IF d # "deny" /\ ~Present(v.entry) THEN {[v EXCEPT !.result = "missing"]}
  ELSE Attempt(Reconciled(After(v, Resolve(v.row, l, d, now)), l), StorageFailure(v))

\* mutant of Anchor: a handoff in flight does not hold the grace.
AnchorIgnoresHandoff(e) == IF e.released # Never THEN e.released ELSE e.at

\* resolvedGraceAnchorMs
Anchor(e) ==
  IF e.retained > 0 THEN now ELSE IF e.released # Never THEN e.released ELSE e.at
Lapsed(e) == Resolved(e) /\ now >= Anchor(e) + Grace

\* getSnapshot: drops a binding whose grace is over, expires one that is due.
Snapshot(v, l) ==
  CASE v.entry.outcome # "corrupt" /\ Lapsed(v.entry) -> {[v EXCEPT !.entry = NoEntry]}
    [] Open(v.entry) /\ v.entry.expires <= now -> ForceDenied(v, l, "expired")
    [] OTHER -> {v}

\* loadVisibleApproval: getOperatorApprovalDetailed, and reconcileDurableLookup of
\* what it found.
Lookup(v, l) ==
  LET read == After(v, Read(v.row, now)) IN
  IF read.result = "found" /\ Open(read.row) /\ Owned(read.row, l) /\ v.entry.outcome = "corrupt"
  THEN RepairDeny(read, l)
  ELSE Attempt(IF read.result = "found" THEN FromStore(read, l) ELSE StorageFailure(read),
               StorageFailure(v))

\* retainForHandoff, and the function it returns.
Retained(e) ==
  IF e.outcome # "corrupt" /\ e.retained = 0 /\ Lapsed(e) THEN NoEntry
  ELSE IF Present(e) THEN [e EXCEPT !.retained = @ + 1, !.cleanup = Never] ELSE e

\* mutant of Released: the last release arms no cleanup.
NeverCleaned(v) ==
  [v EXCEPT !.entry = IF Present(@) THEN [@ EXCEPT !.retained = @ - 1] ELSE @]

Released(v) ==
  LET left == [v.entry EXCEPT !.retained = @ - 1] IN
  [v EXCEPT !.entry =
     IF ~Present(@) THEN @
     ELSE IF left.retained = 0 /\ Resolved(left) THEN Cleaned([left EXCEPT !.released = now])
     ELSE left]

\* mutant of Active: the authority is not asked again.
ActiveAnyway(v, l) == Present(v.entry)

\* projectDecisionIfActive: an allow counts while its binding and authority live.
Active(v, l) == Present(v.entry) /\ ~Bound(v, l)
Asked(v, l, d) == IF d \in Allows THEN Authorized(v, l) ELSE {v}
Projected(v, l, d) ==
  CASE v.result = "threw" -> "error"
    [] v.result # "threw" /\ d \in Allows /\ ~Active(v, l) -> "null"
    [] OTHER -> d

-----------------------------------------------------------------------------
(* Lifetimes of the gateway.                                               *)

\* createGatewayAuxHandlers: a fresh epoch closes what no lifetime will answer.
\* After a restart in the process the old manager is still there.
Start ==
  /\ started < MaxLifetimes
  /\ started' = started + 1
  /\ up' = up \union {started'}
  /\ row' = CloseOrphaned(row, started', now)
  /\ UNCHANGED <<entry, waiter, published, req, reply, invoke, closed, now>>

\* The process dies: bindings and parked handlers are lost, sent commands run.
Crash ==
  /\ up # {}
  /\ up' = {}
  /\ entry' = [l \in Lifetimes |-> NoEntry]
  /\ waiter' = [l \in Lifetimes |-> "none"]
  /\ req' = [l \in Lifetimes |-> "none"]
  /\ reply' = [l \in Lifetimes |-> "none"]
  /\ invoke' = [i \in Invokes |->
       CASE invoke[i].pc = "forwarded" -> [invoke[i] EXCEPT !.pc = "refused"]
         [] invoke[i].pc = "running" -> [invoke[i] EXCEPT !.pc = "ran"]
         [] OTHER -> invoke[i]]
  /\ UNCHANGED <<row, published, closed, started, now>>

Tick ==
  /\ now < MaxTime
  /\ now' = now + 1
  /\ UNCHANGED <<row, entry, waiter, published, req, reply, invoke, closed, up, started>>

\* The row stops decoding.
Rot ==
  /\ "rot" \in Faults
  /\ row.outcome # "absent" /\ row.readable
  /\ row' = [row EXCEPT !.readable = FALSE]
  /\ UNCHANGED <<entry, waiter, published, req, reply, invoke, closed, up, started, now>>

-----------------------------------------------------------------------------
(* The requester's handler.                                                *)

\* register and retainForHandoff, with no await between them.
Request(l) ==
  /\ l \in up /\ l \notin closed
  /\ row.outcome = "absent" /\ ~Present(entry[l])
  /\ now + Timeout <= MaxTime
  /\ row' = Inserted(l, now, Timeout)
  /\ entry' = [entry EXCEPT ![l] = Retained([NoEntry EXCEPT !.outcome = "pending",
                                                           !.expires = now + Timeout])]
  /\ waiter' = [waiter EXCEPT ![l] = "waiting"]
  /\ req' = [req EXCEPT ![l] = "delivering"]
  /\ UNCHANGED <<published, reply, invoke, closed, up, started, now>>

Replies(l, decision) ==
  /\ req' = [req EXCEPT ![l] = "done"]
  /\ reply' = [reply EXCEPT ![l] = decision]

\* Delivery is over, and found somebody to ask.
Routed(l) ==
  /\ l \in up /\ req[l] = "delivering"
  /\ req' = [req EXCEPT ![l] = "deciding"]
  /\ UNCHANGED <<row, entry, waiter, published, reply, invoke, closed, up, started, now>>

\* It found nobody: the request ends, unless an answer has come in meanwhile.
NoRoute(l) ==
  /\ l \in up /\ req[l] = "delivering"
  /\ \E v \in ForceDenied(View(l), l, "no-route") :
       IF v.result \in {"denied", "threw"}
       THEN /\ Becomes(l, Released(v))
            /\ Replies(l, IF v.result = "threw" THEN "error" ELSE "null")
       ELSE /\ Becomes(l, v)
            /\ req' = [req EXCEPT ![l] = "deciding"]
            /\ UNCHANGED reply
  /\ UNCHANGED <<invoke, closed, up, started, now>>

\* respondWithDecision: the promise settles, afterDecision is called ...
Decided(l) ==
  /\ l \in up /\ req[l] = "deciding" /\ waiter[l] # "waiting"
  /\ \E v \in Asked(View(l), l, waiter[l]) :
       LET decision == Projected(v, l, waiter[l]) IN
       IF decision = "error"
       THEN Becomes(l, Released(v)) /\ Replies(l, decision)
       ELSE /\ Becomes(l, v)
            /\ req' = [req EXCEPT ![l] = "following"]
            /\ reply' = [reply EXCEPT ![l] = decision]
  /\ UNCHANGED <<invoke, closed, up, started, now>>

\* ... and when it has returned the decision is projected again, and answered.
Responds(l) ==
  /\ l \in up /\ req[l] = "following"
  /\ \E v \in Asked(View(l), l, reply[l]) :
       Becomes(l, Released(v)) /\ Replies(l, Projected(v, l, reply[l]))
  /\ UNCHANGED <<invoke, closed, up, started, now>>

-----------------------------------------------------------------------------
(* Who answers.                                                            *)

\* A handler that calls the manager of lifetime l and leaves one of these views.
Calls(l, views) ==
  /\ l \in up
  /\ \E v \in views : Becomes(l, v)
  /\ UNCHANGED <<req, reply, invoke, closed, up, started, now>>

\* approval.resolve: looks the row up, then answers it if it is still open; a
\* verdict it cannot read, or that was not offered, denies.
ApprovalResolve(l, d) ==
  Calls(l, UNION {IF v.result = "found" /\ Open(v.row)
                  THEN IF d \in Allowed \union {"deny"} THEN Answered(v, l, d)
                                                        ELSE ForceDenied(v, l, "denied")
                  ELSE {v} : v \in Lookup(View(l), l)})

\* exec.approval.resolve: goes by the binding, and refuses a verdict not offered.
ExecApprovalResolve(l, d) ==
  /\ d \in Allowed \union {"deny"}
  /\ Calls(l, UNION {IF Open(v.entry) THEN Answered(v, l, d) ELSE {v}
                     : v \in Snapshot(View(l), l)})

\* approval.get
ApprovalGet(l) == Calls(l, Lookup(View(l), l))

\* The expiry timer: expireDue.
Expires(l) == Open(entry[l]) /\ entry[l].expires <= now
Expire(l) == Expires(l) /\ Calls(l, ForceDenied(View(l), l, "expired"))

\* mutant of Announced: the replay publishes what the manager has published.
AnnouncedTwice(v, l) == Published(FromStore(v, l))

Announced(v, l) ==
  IF FromStore(v, l) # v THEN FromStore(v, l) ELSE Published(v)

\* replay: expires every due row, whoever owns it, and announces it.
Replay(l) ==
  /\ Due(row, now)
  /\ LET v == [View(l) EXCEPT !.row = ExpireDue(row, now)] IN
     Calls(l, {IF row.readable THEN Announced(v, l) ELSE v})

\* The run of the requester is aborted: its authority closes, and an open
\* approval of it is cancelled.  listPendingRecords expires it first if it is due.
Cancelled(v, l) ==
  IF ~Open(v.entry) THEN {v}
  ELSE ForceDenied(v, l, IF v.entry.expires <= now THEN "expired" ELSE "cancelled")

CloseAuthority(l) ==
  /\ l \in up /\ l \notin closed
  /\ closed' = closed \union {l}
  /\ \E v \in Cancelled(View(l), l) : Becomes(l, v)
  /\ UNCHANGED <<req, reply, invoke, up, started, now>>

\* A worker dispatch fences the session.
Fence(l) == Open(entry[l]) /\ Calls(l, Cancelled(View(l), l))

\* waitDecision, and a forward that is refused: the authority is asked for, and
\* the snapshot.
WaitDecision(l) ==
  Calls(l, UNION {IF Present(v.entry) /\ v.result # "threw"
                  THEN UNION {Snapshot(w, l) : w \in Authorized(v, l)} ELSE {v}
                  : v \in Snapshot(View(l), l)})

Reads(l) == Calls(l, Snapshot(View(l), l))

\* The cleanup timer.
Cleanup(l) ==
  /\ entry[l].cleanup <= now
  /\ Calls(l, {[View(l) EXCEPT !.entry =
       IF @.retained = 0 /\ @.outcome # "corrupt" THEN NoEntry ELSE [@ EXCEPT !.cleanup = Never]]})

-----------------------------------------------------------------------------
(* Redeeming the answer: node.invoke with system.run.                      *)

\* consumeAllowOnce: durably, and in the binding.
Consumed(v, l) ==
  LET e == v.entry
      used == After(v, Consume(v.row, l, Grace + (Anchor(e) - e.at), now)) IN
  IF Bound(v, l) \/ Lapsed(e) \/ e.spent \/ used.result # "consumed" THEN {}
  ELSE {[used EXCEPT !.entry.spent = TRUE]}

\* mutant of AskFallback: what was cancelled may be run as well.
FallbackAnyway(v) ==
  IF ~Resolved(v.entry) \/ Decision(v.entry.outcome) # "null" \/ v.entry.reused THEN {}
  ELSE {[v EXCEPT !.entry.reused = TRUE]}

\* consumeAskFallback: only what nobody answered, and once.
AskFallback(v) ==
  IF v.entry.outcome \notin {"expired", "no-route"} \/ v.entry.reused THEN {}
  ELSE {[v EXCEPT !.entry.reused = TRUE]}

\* The deadline sanitizeSystemRunParamsForForwarding holds the call to.
Late(e) ==
  now > IF Resolved(e) /\ Decision(e.outcome) = "null" /\ ~e.reused
        THEN e.at + Grace ELSE e.expires

\* What may be forwarded, and the grant that is used up for it.
Admitted(v, l, grant) ==
  IF Late(v.entry) \/ ~Present(v.entry) THEN {}
  ELSE CASE grant = "allow-once" /\ v.entry.outcome = grant -> Consumed(v, l)
         [] grant = "allow-always" /\ v.entry.outcome = grant /\ ~Bound(v, l) -> {v}
         [] grant = "fallback" -> AskFallback(v)
         [] OTHER -> {}

Grants == Allows \union {"fallback"}

\* The grant is used up, and the binding retained for the dispatch; the call may
\* have run out of its own time by then.
Forward(i, l, grant, expired) ==
  /\ l \in up /\ invoke[i].pc = "idle"
  /\ \E w \in Snapshot(View(l), l) : \E v \in Admitted(w, l, grant) :
       LET kept == Retained(v.entry) IN
       IF expired \/ ~Present(kept)
       THEN /\ Becomes(l, IF expired THEN v ELSE [v EXCEPT !.entry = kept])
            /\ invoke' = [invoke EXCEPT ![i] = [pc |-> "refused", life |-> l, grant |-> grant]]
       ELSE /\ Becomes(l, [v EXCEPT !.entry = kept])
            /\ invoke' = [invoke EXCEPT ![i] = [pc |-> "forwarded", life |-> l, grant |-> grant]]
  /\ UNCHANGED <<req, reply, closed, up, started, now>>

Ends(i, pc) == invoke' = [invoke EXCEPT ![i].pc = pc]

\* Policy and pairing checks have been awaited; the authority is asked again at
\* the handoff to the node.
Dispatch(i) ==
  LET l == invoke[i].life IN
  /\ invoke[i].pc = "forwarded"
  /\ \E v \in Authorized(View(l), l) :
       IF Active(v, l) THEN Becomes(l, v) /\ Ends(i, "running")
                       ELSE Becomes(l, Released(v)) /\ Ends(i, "refused")
  /\ UNCHANGED <<req, reply, closed, up, started, now>>

\* One of those checks fails.
Refuse(i) ==
  LET l == invoke[i].life IN
  /\ invoke[i].pc = "forwarded"
  /\ Becomes(l, Released(View(l))) /\ Ends(i, "refused")
  /\ UNCHANGED <<req, reply, closed, up, started, now>>

\* The node has answered, or the call has given up on it.
Returns(i) ==
  LET l == invoke[i].life IN
  /\ invoke[i].pc = "running"
  /\ Becomes(l, Released(View(l))) /\ Ends(i, "ran")
  /\ UNCHANGED <<req, reply, closed, up, started, now>>

-----------------------------------------------------------------------------

Init ==
  /\ row = NoRow
  /\ entry = [l \in Lifetimes |-> NoEntry]
  /\ waiter = [l \in Lifetimes |-> "none"]
  /\ published = [l \in Lifetimes |-> 0]
  /\ req = [l \in Lifetimes |-> "none"]
  /\ reply = [l \in Lifetimes |-> "none"]
  /\ invoke = [i \in Invokes |-> NoInvoke]
  /\ closed = {} /\ up = {} /\ started = 0 /\ now = 0

Next ==
  \/ Start \/ Crash \/ Tick \/ Rot
  \/ \E l \in Lifetimes :
       \/ Request(l) \/ Routed(l) \/ NoRoute(l) \/ Decided(l) \/ Responds(l)
       \/ \E d \in Allows \union {"deny", "malformed"} :
            ApprovalResolve(l, d) \/ ExecApprovalResolve(l, d)
       \/ ApprovalGet(l) \/ Expire(l) \/ Replay(l) \/ CloseAuthority(l) \/ Fence(l)
       \/ WaitDecision(l) \/ Reads(l) \/ Cleanup(l)
       \/ \E i \in Invokes, grant \in Grants, expired \in BOOLEAN : Forward(i, l, grant, expired)
  \/ \E i \in Invokes : Dispatch(i) \/ Refuse(i) \/ Returns(i)

Spec == Init /\ [][Next]_vars

\* Timers fire, deliveries end, and parked handlers resume.
Fairness ==
  /\ WF_vars(Tick)
  /\ \A l \in Lifetimes :
       WF_vars(Expire(l)) /\ WF_vars(Routed(l) \/ NoRoute(l)) /\ WF_vars(Decided(l))
         /\ WF_vars(Responds(l))

LiveSpec == Spec /\ Fairness

-----------------------------------------------------------------------------
(* Properties.                                                             *)

TypeOK ==
  /\ row \in [outcome : {"absent", "pending"} \union Terminal, epoch : 0 .. MaxLifetimes,
              expires : 0 .. MaxTime, resolved : 0 .. MaxTime, spent : BOOLEAN, readable : BOOLEAN]
  /\ entry \in [Lifetimes -> [outcome : {"absent", "pending"} \union Terminal,
                              at : 0 .. MaxTime, expires : 0 .. MaxTime,
                              retained : 0 .. 1 + Cardinality(Invokes),
                              released : 0 .. MaxTime \union {Never},
                              cleanup : 0 .. MaxTime + Grace \union {Never},
                              spent : BOOLEAN, reused : BOOLEAN]]
  /\ waiter \in [Lifetimes -> {"none", "waiting", "deny", "null"} \union Allows]
  /\ published \in [Lifetimes -> Nat]
  /\ req \in [Lifetimes -> {"none", "delivering", "deciding", "following", "done"}]
  /\ reply \in [Lifetimes -> {"none", "deny", "null", "error"} \union Allows]
  /\ invoke \in [Invokes -> [pc : {"idle", "forwarded", "running", "refused", "ran"},
                             life : Lifetimes, grant : Grants \union {"none"}]]
  /\ closed \subseteq Lifetimes /\ up \subseteq 1 .. started
  /\ started \in 0 .. MaxLifetimes /\ now \in 0 .. MaxTime

\* The parked requester and the durable record never disagree on whether the
\* command may run: what the waiter was told stands in the row, and an allow in
\* the row has been told to the waiter of its epoch, whatever failed in between.
OneAnswer ==
  \A l \in up : waiter[l] # "none" =>
    \A d \in Allows : waiter[l] = d <=> row.outcome = d

\* Whatever settled first stands: the row keeps its outcome, the promise its
\* value (docs/refactor/operator-approvals.md, "atomic first-answer-wins resolution").
FirstAnswerStands ==
  [][/\ row.outcome \in Terminal => row'.outcome = row.outcome
     /\ \A l \in Lifetimes : waiter[l] \notin {"none", "waiting"} /\ l \in up' =>
          waiter'[l] = waiter[l]]_vars

\* Handlers that hold a binding of lifetime l.
Handlers(l) ==
  Cardinality({i \in Invokes : invoke[i].life = l /\ invoke[i].pc \in {"forwarded", "running"}})
    + IF req[l] \in {"delivering", "deciding", "following"} THEN 1 ELSE 0

\* The handoff count is the number of handlers that hold the binding.  While it is
\* not zero the binding stays, however long they take; once it is, an answered
\* binding has its cleanup timer, so it is neither dropped early nor leaked.
HandoffKeepsBinding ==
  \A l \in up :
    /\ entry[l].retained = Handlers(l)
    /\ Resolved(entry[l]) /\ Handlers(l) = 0 /\ entry[l].outcome # "corrupt" =>
         entry[l].cleanup # Never

\* A requester is told the allow that was reached, and no other, unless its
\* authority has closed or the storage failed under the last projection.
TellsTheAllow ==
  \A l \in up : req[l] = "done" =>
    /\ reply[l] \in Allows => reply[l] = waiter[l]
    /\ waiter[l] \in Allows => reply[l] \in {waiter[l], "error"} \/ l \in closed

\* Once the authority of the requester has closed, nothing is granted under it
\* any more: the row is not allowed, no allow is answered, no command dispatched.
ClosedGrantsNothing ==
  [][\A l \in closed :
       /\ Owned(row', l) /\ row'.outcome \in Allows => row.outcome = row'.outcome
       /\ reply'[l] \in Allows => reply[l] \in Allows /\ req'[l] = req[l]
       /\ \A i \in Invokes : invoke[i].life = l /\ invoke'[i].pc = "running" =>
            invoke[i].pc = "running"]_vars

\* A lifetime publishes the terminal event of an approval once, and whenever its
\* waiter has been settled from the row, by whichever of timer, lookup, replay
\* and reviewer that was.
PublishedOnce ==
  \A l \in up :
    /\ published[l] <= 1 /\ (published[l] = 1 => row.outcome \in Terminal)
    /\ Resolved(entry[l]) /\ entry[l].outcome # "corrupt" => published[l] = 1

Ran == {i \in Invokes : invoke[i].pc \in {"running", "ran"}}

Promise == INSTANCE Approval WITH
  Answers <- Allows \union {"unanswered", "refused"},
  Granting <- Allows \union {"unanswered"}, Standing <- {"allow-always"},
  answer <- (CASE row.outcome \in {"absent", "pending"} -> "open"
               [] row.outcome \in Allows -> row.outcome
               [] row.outcome \in {"expired", "no-route"} -> "unanswered"
               [] OTHER -> "refused"),
  runs <- Cardinality(Ran)

\* Commands run as the abstract approval lets them: under the durable answer, and
\* once unless it is allow-always, over crashes, restarts and retries.
ImplementsApproval == Promise!Spec

\* Every request is answered, by a reviewer or by the expiry timer.
RequestAnswered ==
  \A l \in Lifetimes : req[l] # "none" ~> (req[l] = "done" \/ l \notin up)
=============================================================================
