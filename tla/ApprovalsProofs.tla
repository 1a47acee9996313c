--------------------------- MODULE ApprovalsProofs ---------------------------
(***************************************************************************)
(* TLAPS proofs about Approvals: whatever fails and in whatever order the  *)
(* answers come, the row and the waiter agree, what was answered stands,   *)
(* it is published once, and commands run only under it.                   *)
(***************************************************************************)
EXTENDS Approvals, FiniteSetTheorems, TLAPS

-----------------------------------------------------------------------------
(* What the calls of a manager keep.                                       *)

Outcomes == {"absent", "pending"} \union Terminal
Results == {"none", "missing", "corrupt", "already", "expired", "resolved", "denied",
            "not-allowed", "not-due", "threw", "found", "consumed", "refused"}

RowType == [outcome : Outcomes, epoch : 0 .. MaxLifetimes, expires : 0 .. MaxTime,
            resolved : 0 .. MaxTime, spent : BOOLEAN, readable : BOOLEAN]
EntryType == [outcome : Outcomes, at : 0 .. MaxTime, expires : 0 .. MaxTime,
              retained : Nat, released : 0 .. MaxTime \union {Never},
              cleanup : 0 .. MaxTime + Grace \union {Never}, spent : BOOLEAN, reused : BOOLEAN]
WaiterType == {"none", "waiting", "deny", "null"} \union Allows
ViewType == [row : RowType, entry : EntryType, waiter : WaiterType, published : Nat,
             result : Results]

Answerable(e) == Open(e) \/ e.outcome = "corrupt"

\* What row r, and binding e, promise p and events n of lifetime l say of each other.
Agree(r, e, p, n, l) ==
  /\ p # "none" <=> Owned(r, l)
  /\ Present(e) => p # "none"
  /\ Open(e) <=> p = "waiting"
  /\ Resolved(e) => p = Decision(e.outcome)
  /\ ~Present(e) /\ p # "none" => r.outcome \in Terminal /\ p = Decision(r.outcome)
  /\ Answerable(e) => r.outcome \notin Allows
  /\ Open(e) => n = 0
  /\ n <= 1 /\ (n = 1 => r.outcome \in Terminal)
  /\ Resolved(e) /\ e.outcome # "corrupt" => r.outcome = e.outcome /\ n = 1

\* How many handlers hold the binding, and whether it is left to its timer.
Held(e, k) ==
  /\ e.retained = k
  /\ ~Present(e) => e = NoEntry
  /\ e.cleanup # Never => Resolved(e)
  /\ Resolved(e) /\ k = 0 /\ e.outcome # "corrupt" => e.cleanup # Never

Good(v, l, k) ==
  /\ v \in ViewType
  /\ Agree(v.row, v.entry, v.waiter, v.published, l)
  /\ Held(v.entry, k)

\* How a call of lifetime l may change the row ...
RowStep(r, q, l) ==
  /\ q.epoch = r.epoch
  /\ q.outcome # r.outcome => r.outcome = "pending" /\ q.outcome \in Terminal
  /\ q.outcome # r.outcome /\ ~Owned(r, l) => q.outcome \notin Allows
  /\ r.spent => q.spent

\* ... and the rest of the view.
ViewStep(v, w, l) ==
  /\ RowStep(v.row, w.row, l)
  /\ v.waiter \notin {"none", "waiting"} => w.waiter = v.waiter
  /\ v.published <= w.published
  /\ Present(w.entry) => Present(v.entry) /\ (v.entry.reused => w.entry.reused)
  /\ Resolved(v.entry) /\ Present(w.entry) => w.entry.outcome = v.entry.outcome
  /\ l \in closed /\ w.row.outcome \in Allows => w.row.outcome = v.row.outcome
  /\ Present(v.entry) /\ v.entry.retained > 0 => Present(w.entry)

-----------------------------------------------------------------------------
(* The invariant.                                                          *)

\* A lifetime that has not begun, or that a crash has ended.
Gone(l) ==
  /\ entry[l] = NoEntry /\ waiter[l] = "none" /\ req[l] = "none" /\ reply[l] = "none"
  /\ published[l] <= 1 /\ (published[l] = 1 => row.outcome \in Terminal)

\* What the requester's handler is going to answer.
Told(l) ==
  /\ waiter[l] = "none" => req[l] = "none"
  /\ req[l] \in {"none", "delivering", "deciding"} => reply[l] = "none"
  /\ req[l] \in {"following", "done"} =>
       /\ waiter[l] # "waiting"
       /\ reply[l] \in Allows => reply[l] = waiter[l]
       /\ waiter[l] \in Allows => reply[l] \in {waiter[l], "error"} \/ l \in closed

LifeInv ==
  \A l \in Lifetimes :
    IF l \in up THEN Agree(row, entry[l], waiter[l], published[l], l) /\ Held(entry[l], Handlers(l)) /\ Told(l)
                ELSE Gone(l)

\* A call in flight belongs to a running lifetime.
InvokeInv ==
  \A i \in Invokes : invoke[i].pc \in {"forwarded", "running"} => invoke[i].life \in up

BaseInv ==
  /\ row \in RowType /\ entry \in [Lifetimes -> EntryType]
  /\ waiter \in [Lifetimes -> WaiterType] /\ published \in [Lifetimes -> Nat]
  /\ req \in [Lifetimes -> {"none", "delivering", "deciding", "following", "done"}]
  /\ reply \in [Lifetimes -> {"none", "deny", "null", "error"} \union Allows]
  /\ invoke \in [Invokes -> [pc : {"idle", "forwarded", "running", "refused", "ran"},
                             life : Lifetimes, grant : Grants \union {"none"}]]
  /\ closed \subseteq Lifetimes /\ up \subseteq 1 .. started
  /\ started \in 0 .. MaxLifetimes /\ now \in 0 .. MaxTime
  /\ row.outcome # "absent" => row.epoch \in 1 .. started

\* Calls that use up the answer.
Uses(grant) == {i \in Invokes : invoke[i].pc \notin {"idle", "refused"} /\ invoke[i].grant = grant}

\* Each call in flight, or returned, was let in by the answer of the row, and an
\* answer that is used up lets no second one in.
GrantInv ==
  /\ \A i \in Invokes : invoke[i].pc = "idle" <=> invoke[i].grant = "none"
  /\ \A d \in Allows : Uses(d) # {} => row.outcome = d
  /\ Uses("fallback") # {} => row.outcome \in {"expired", "no-route"}
  /\ Uses("allow-once") # {} => row.spent
  /\ \A l \in up : Uses("fallback") # {} /\ Present(entry[l]) => entry[l].reused
  /\ \A g \in {"allow-once", "fallback"} : \A i, j \in Uses(g) : i = j

IInv == BaseInv /\ LifeInv /\ InvokeInv /\ GrantInv

-----------------------------------------------------------------------------
(* The transactions of the row.                                            *)

\* A record ends with an allow only if it was allowed.
LEMMA Decisions ==
  \A o \in Terminal :
    /\ Decision(o) \in {"deny", "null"} \union Allows
    /\ \A d \in Allows : Decision(o) = d <=> o = d
BY DEF Decision, Terminal, Allows

\* Settling a row is a step of it, and one into what does not allow is anybody's.
LEMMA Settled ==
  ASSUME NEW r \in RowType, NEW o \in Terminal, NEW t \in 0 .. MaxTime, NEW l
  PROVE  /\ Settle(r, o, t) \in RowType
         /\ r.outcome = "pending" => Settle(r, o, t).outcome = o
         /\ r.outcome # "pending" => Settle(r, o, t) = r
         /\ Settle(r, o, t).epoch = r.epoch /\ Settle(r, o, t).spent = r.spent
         /\ Settle(r, o, t).readable = r.readable
         /\ Settle(r, o, t).outcome = "absent" <=> r.outcome = "absent"
         /\ o \notin Allows \/ Owned(r, l) => RowStep(r, Settle(r, o, t), l)
BY DEF Settle, RowType, Outcomes, RowStep, Terminal, Allows

\* Expiry settles a row that is due, and no other.
LEMMA ExpiredRow ==
  ASSUME NEW r \in RowType, NEW t \in 0 .. MaxTime, NEW l
  PROVE  /\ ExpireDue(r, t) \in RowType
         /\ Due(r, t) => ExpireDue(r, t).outcome = "expired" /\ r.outcome = "pending"
         /\ ~Due(r, t) => ExpireDue(r, t) = r
         /\ ExpireDue(r, t).epoch = r.epoch /\ ExpireDue(r, t).spent = r.spent
         /\ ExpireDue(r, t).readable = r.readable
         /\ RowStep(r, ExpireDue(r, t), l)
<1>1. "expired" \in Terminal /\ "expired" \notin Allows
  BY DEF Terminal, Allows
<1>2. RowStep(r, r, l)
  BY DEF RowStep
<1> QED
  BY <1>1, <1>2, Settled DEF ExpireDue, Due

\* What a transaction other than a verdict may make of a row.
Unallowed(r, q, l) ==
  /\ q \in RowType /\ RowStep(r, q, l)
  /\ q.outcome # r.outcome => q.outcome \notin Allows
  /\ q.spent = r.spent

LEMMA ReadRow ==
  ASSUME NEW r \in RowType, NEW t \in 0 .. MaxTime, NEW l
  PROVE  /\ Unallowed(r, Read(r, t).row, l)
         /\ Read(r, t).result \in {"missing", "found", "corrupt"}
<1>1. "corrupt" \in Terminal /\ "corrupt" \notin Allows /\ "expired" \notin Allows
  BY DEF Terminal, Allows
<1>2. RowStep(r, r, l)
  BY DEF RowStep
<1>3. CASE r.outcome = "absent"
  BY <1>2, <1>3 DEF Read, Done, Unallowed
<1>4. CASE r.outcome # "absent" /\ r.readable
  <2>1. Read(r, t) = Done(ExpireDue(r, t), "found")
    BY <1>4 DEF Read
  <2>2. Unallowed(r, ExpireDue(r, t), l)
    BY <1>1, ExpiredRow DEF Unallowed
  <2> QED
    BY <2>1, <2>2 DEF Done
<1>5. CASE r.outcome # "absent" /\ ~r.readable
  <2> DEFINE e == ExpireDue(r, t)
  <2>1. /\ e \in RowType /\ e.spent = r.spent /\ RowStep(r, e, l)
        /\ e.outcome # r.outcome => e.outcome = "expired"
    BY ExpiredRow
  <2>2. Read(r, t) = Done(Settle(e, "corrupt", t), "corrupt")
    BY <1>5 DEF Read, Unreadable
  <2> HIDE DEF e
  <2>3. /\ Settle(e, "corrupt", t) \in RowType /\ Settle(e, "corrupt", t).spent = e.spent
        /\ RowStep(e, Settle(e, "corrupt", t), l)
        /\ Settle(e, "corrupt", t).outcome # e.outcome => Settle(e, "corrupt", t).outcome = "corrupt"
    BY <1>1, <2>1, Settled
  <2> QED
    BY <1>1, <2>1, <2>2, <2>3 DEF Done, Unallowed, RowStep, Owned
<1> QED
  BY <1>3, <1>4, <1>5

Denials == {"no-route", "expired", "cancelled", "corrupt", "denied"}

LEMMA DeniedRow ==
  ASSUME NEW r \in RowType, NEW t \in 0 .. MaxTime, NEW l, NEW o \in Denials
  PROVE  LET d == ForceDeny(r, l, o, t) IN
         /\ Unallowed(r, d.row, l)
         /\ d.result \in {"missing", "expired", "corrupt", "already", "not-due", "denied"}
         /\ d.result \in {"expired", "already", "denied"} => Owned(d.row, l) /\ d.row.outcome \in Terminal
         /\ d.result \in {"expired", "denied"} => r.outcome = "pending" /\ d.row.outcome \notin Allows
<1>1. /\ "corrupt" \in Terminal /\ "corrupt" \notin Allows /\ "expired" \notin Allows
      /\ o \in Terminal /\ o \notin Allows /\ "expired" \in Terminal /\ "absent" \notin Terminal
  BY DEF Terminal, Allows, Denials
<1>2. RowStep(r, r, l)
  BY DEF RowStep
<1>3. CASE ~Owned(r, l)
  BY <1>2, <1>3 DEF ForceDeny, Done, Unallowed
<1>4. CASE Owned(r, l) /\ Due(r, t)
  <2>1. ForceDeny(r, l, o, t) = Done(ExpireDue(r, t), IF r.readable THEN "expired" ELSE "corrupt")
    BY <1>4 DEF ForceDeny, Due, Terminal, Allows
  <2>2. Unallowed(r, ExpireDue(r, t), l)
    BY <1>1, ExpiredRow DEF Unallowed
  <2>3. Owned(ExpireDue(r, t), l) /\ ExpireDue(r, t).outcome = "expired" /\ r.outcome = "pending"
    BY <1>1, <1>4, ExpiredRow DEF Owned
  <2> QED
    BY <1>1, <2>1, <2>2, <2>3 DEF Done
<1>5. CASE Owned(r, l) /\ ~Due(r, t) /\ ~r.readable
  BY <1>1, <1>5, Settled DEF ForceDeny, Done, Unallowed, Unreadable
<1>6. CASE Owned(r, l) /\ ~Due(r, t) /\ r.readable /\ r.outcome \in Terminal
  BY <1>2, <1>6 DEF ForceDeny, Done, Unallowed
<1>7. CASE Owned(r, l) /\ ~Due(r, t) /\ r.readable /\ r.outcome \notin Terminal
  <2>1. r.outcome = "pending"
    BY <1>7 DEF Owned, RowType, Outcomes
  <2>2. ForceDeny(r, l, o, t) =
          IF o = "expired" THEN Done(r, "not-due") ELSE Done(Settle(r, o, t), "denied")
    BY <1>7 DEF ForceDeny
  <2> QED
    BY <1>1, <1>2, <1>7, <2>1, <2>2, Settled DEF Done, Unallowed, Owned
<1> QED
  BY <1>3, <1>4, <1>5, <1>6, <1>7

\* Only a verdict the presentation offers makes an allow of a pending row.
LEMMA ResolvedRow ==
  ASSUME NEW r \in RowType, NEW t \in 0 .. MaxTime, NEW l, NEW d
  PROVE  LET a == Resolve(r, l, d, t) IN
         /\ a.row \in RowType /\ RowStep(r, a.row, l) /\ a.row.spent = r.spent
         /\ a.result \in {"missing", "expired", "corrupt", "already", "not-allowed", "resolved"}
         /\ a.result \in {"expired", "already", "resolved"} => Owned(a.row, l) /\ a.row.outcome \in Terminal
         /\ a.result # "resolved" => (a.row.outcome # r.outcome => a.row.outcome \notin Allows)
         /\ a.row.outcome \in Allows => a.row.outcome \in {r.outcome, d}
         /\ a.result \in {"resolved", "expired"} => r.outcome = "pending"
<1>1. /\ "corrupt" \in Terminal /\ "corrupt" \notin Allows /\ "expired" \notin Allows
      /\ "denied" \in Terminal /\ "denied" \notin Allows
      /\ "expired" \in Terminal /\ "absent" \notin Terminal /\ Allowed \subseteq Terminal
  BY AllowedAssumption DEF Terminal, Allows
<1>2. RowStep(r, r, l)
  BY DEF RowStep
<1>3. CASE ~Owned(r, l)
  BY <1>2, <1>3 DEF Resolve, Done
<1>4. CASE Owned(r, l) /\ ~r.readable
  <2>1. Resolve(r, l, d, t) = Done(Settle(r, "corrupt", t), "corrupt")
    BY <1>4 DEF Resolve, Unreadable
  <2>2. /\ Settle(r, "corrupt", t) \in RowType /\ RowStep(r, Settle(r, "corrupt", t), l)
        /\ Settle(r, "corrupt", t).spent = r.spent
        /\ Settle(r, "corrupt", t).outcome \in {r.outcome, "corrupt"}
    BY <1>1, <1>4, Settled
  <2> QED
    BY <1>1, <2>1, <2>2 DEF Done
<1>5. CASE Owned(r, l) /\ r.readable /\ r.outcome \in Terminal
  <2>1. Resolve(r, l, d, t) = Done(r, "already")
    BY <1>5 DEF Resolve, Due, Terminal, Allows
  <2> QED
    BY <1>2, <1>5, <2>1 DEF Done
<1>6. CASE Owned(r, l) /\ r.readable /\ r.outcome \notin Terminal /\ Due(r, t)
  <2>1. Resolve(r, l, d, t) = Done(ExpireDue(r, t), "expired")
    BY <1>6 DEF Resolve
  <2> QED
    BY <1>1, <1>6, <2>1, ExpiredRow DEF Done, Owned
<1>7. CASE Owned(r, l) /\ r.readable /\ r.outcome \notin Terminal /\ ~Due(r, t)
  <2>1. r.outcome = "pending"
    BY <1>7 DEF Owned, RowType, Outcomes
  <2>2. Resolve(r, l, d, t) =
          IF d \in Allowed \union {"deny"}
          THEN Done(Settle(r, IF d = "deny" THEN "denied" ELSE d, t), "resolved")
          ELSE Done(r, "not-allowed")
    BY <1>7 DEF Resolve
  <2>3. CASE d = "deny"
    BY <1>1, <1>2, <1>7, <2>1, <2>2, <2>3, Settled DEF Done, Owned
  <2>4. CASE d # "deny"
    BY <1>1, <1>2, <1>7, <2>1, <2>2, <2>4, Settled DEF Done, Owned
  <2> QED
    BY <2>3, <2>4
<1> QED
  BY <1>3, <1>4, <1>5, <1>6, <1>7

-----------------------------------------------------------------------------
(* The calls of a manager.                                                 *)

\* What everything below needs to know of the constants and the outcomes.
LEMMA Facts ==
  /\ Terminal = {"allow-once", "allow-always", "denied", "no-route", "expired", "cancelled", "corrupt"}
  /\ Allows = {"allow-once", "allow-always"}
  /\ MaxTime \in Nat /\ Grace \in Nat /\ Grace > 0 /\ Never \in Nat /\ Never > MaxTime + Grace
BY ApprovalsAssumption DEF Terminal, Allows, Never

LEMMA StepRefl ==
  ASSUME NEW v \in ViewType, NEW l
  PROVE  ViewStep(v, v, l)
BY DEF ViewStep, RowStep, ViewType

LEMMA StepTrans ==
  ASSUME NEW l, NEW k, NEW u, NEW v, NEW w \in ViewType,
         Good(u, l, k), Good(v, l, k), ViewStep(u, v, l), ViewStep(v, w, l)
  PROVE  ViewStep(u, w, l)
<1>0. u \in ViewType /\ v \in ViewType /\ v.entry.retained = u.entry.retained
  BY DEF Good, Held
<1>1. RowStep(u.row, w.row, l)
  BY Facts DEF ViewStep, RowStep, Owned
<1>2. u.published \in Nat /\ v.published \in Nat /\ w.published \in Nat
  BY <1>0 DEF ViewType
<1>3. Resolved(u.entry) /\ Present(w.entry) => w.entry.outcome = u.entry.outcome
  BY DEF ViewStep, Resolved
<1> QED
  BY <1>0, <1>1, <1>2, <1>3 DEF ViewStep

\* The result of a call says nothing of the view.
LEMMA Renamed ==
  ASSUME NEW l, NEW k, NEW v, Good(v, l, k), NEW x \in Results
  PROVE  /\ Good([v EXCEPT !.result = x], l, k)
         /\ \A u : ViewStep(u, v, l) => ViewStep(u, [v EXCEPT !.result = x], l)
BY DEF Good, ViewType, ViewStep

\* A transaction that allows nothing keeps a view good.
LEMMA Changed ==
  ASSUME NEW l, NEW k, NEW v, Good(v, l, k), NEW t,
         Unallowed(v.row, t.row, l), t.result \in Results
  PROVE  /\ Good(After(v, t), l, k) /\ ViewStep(v, After(v, t), l)
         /\ After(v, t).row = t.row /\ After(v, t).result = t.result
         /\ After(v, t).entry = v.entry /\ After(v, t).waiter = v.waiter
<1> DEFINE w == After(v, t)
<1>1. /\ w \in ViewType /\ w.row = t.row /\ w.result = t.result
      /\ w.entry = v.entry /\ w.waiter = v.waiter /\ w.published = v.published
      /\ v \in ViewType
  BY DEF Good, ViewType, Unallowed, After
<1>2. Agree(w.row, w.entry, w.waiter, w.published, l)
  BY <1>1, Facts DEF Good, Agree, Unallowed, RowStep, Owned, ViewType, RowType, Outcomes
<1>3. ViewStep(v, w, l)
  BY <1>1 DEF ViewStep, Unallowed, ViewType
<1> QED
  BY <1>1, <1>2, <1>3 DEF Good

\* settleLocalEntry releases the waiter with the decision of the outcome.
LEMMA SettledLocally ==
  ASSUME NEW v \in ViewType, NEW o \in Terminal, NEW at \in 0 .. MaxTime, NEW k,
         Held(v.entry, k), Open(v.entry), now \in 0 .. MaxTime
  PROVE  LET w == SettleLocal(v, o, at) IN
         /\ w \in ViewType /\ w.row = v.row /\ w.waiter = Decision(o)
         /\ w.published = v.published /\ w.result = v.result
         /\ w.entry.outcome = o /\ w.entry.reused = v.entry.reused
         /\ w.entry.retained = v.entry.retained /\ Held(w.entry, k)
<1> DEFINE e == [v.entry EXCEPT !.outcome = o, !.at = at]
           w == SettleLocal(v, o, at)
<1>1. /\ e \in EntryType /\ e.outcome = o /\ e.retained = v.entry.retained
      /\ e.reused = v.entry.reused /\ v.entry.retained = k /\ Resolved(e)
  BY DEF ViewType, EntryType, Outcomes, Held, Resolved
<1>2. w = [v EXCEPT !.entry = Cleaned(e), !.waiter = Decision(o)]
  BY DEF SettleLocal
<1>3. now + Grace \in 0 .. MaxTime + Grace /\ now + Grace # Never
  BY Facts
<1> HIDE DEF e
<1>4. /\ Cleaned(e) \in EntryType /\ Cleaned(e).outcome = o /\ Cleaned(e).retained = e.retained
      /\ Cleaned(e).reused = e.reused
  BY <1>1, <1>3 DEF Cleaned, EntryType
<1>5. Held(Cleaned(e), k)
  <2>1. Present(Cleaned(e)) /\ Resolved(Cleaned(e))
    BY <1>4, Facts DEF Present, Resolved
  <2>2. e.retained = 0 /\ o # "corrupt" => Cleaned(e).cleanup # Never
    BY <1>1, <1>3 DEF Cleaned, EntryType
  <2> QED
    BY <1>1, <1>4, <2>1, <2>2 DEF Held
<1>6. Decision(o) \in WaiterType
  BY Decisions DEF WaiterType
<1> QED
  BY <1>1, <1>2, <1>4, <1>5, <1>6 DEF ViewType

\* A storage failure denies the waiter, and nobody else.
LEMMA Failing ==
  ASSUME NEW l, NEW k, NEW v, Good(v, l, k), now \in 0 .. MaxTime
  PROVE  LET w == StorageFailure(v) IN
         /\ Good(w, l, k) /\ ViewStep(v, w, l)
         /\ w.row = v.row /\ w.result = v.result /\ ~Open(w.entry) /\ w.waiter # "waiting"
<1> DEFINE w == StorageFailure(v)
<1>1. CASE ~Open(v.entry)
  BY <1>1, StepRefl DEF StorageFailure, SettleLocal, Good, Agree
<1>2. CASE Open(v.entry)
  <2>1. "corrupt" \in Terminal /\ "corrupt" \notin Allows /\ Decision("corrupt") = "deny"
    BY Facts DEF Decision
  <2>2. /\ w \in ViewType /\ w.row = v.row /\ w.waiter = "deny"
        /\ w.published = v.published /\ w.result = v.result
        /\ w.entry.outcome = "corrupt" /\ w.entry.reused = v.entry.reused
        /\ w.entry.retained = v.entry.retained /\ Held(w.entry, k)
    BY <1>2, <2>1, SettledLocally DEF StorageFailure, Good
  <2> HIDE DEF w
  <2>3. Agree(w.row, w.entry, w.waiter, w.published, l)
    BY <1>2, <2>1, <2>2, Facts DEF Good, Agree, Open, Present, Resolved, Answerable
  <2>4. ViewStep(v, w, l)
    BY <1>2, <2>1, <2>2, Facts DEF ViewStep, Good, Agree, Open, Present, Resolved, RowStep, ViewType
  <2> QED
    BY <2>2, <2>3, <2>4 DEF Good, Open, w
<1> QED
  BY <1>1, <1>2

\* A row that q makes terminal settles the waiter with its own outcome, and that
\* may be an allow only if the binding is open and its authority is.
LEMMA Storing ==
  ASSUME NEW l, NEW k, NEW v, Good(v, l, k), now \in 0 .. MaxTime, NEW t,
         t.row \in RowType, t.result \in Results, RowStep(v.row, t.row, l),
         Owned(t.row, l), t.row.outcome \in Terminal,
         t.row.outcome # v.row.outcome /\ t.row.outcome \in Allows =>
           Open(v.entry) /\ l \notin closed
  PROVE  LET w == FromStore(After(v, t), l) IN
         /\ Good(w, l, k) /\ ViewStep(v, w, l)
         /\ w.row = t.row /\ w.result = t.result /\ ~Open(w.entry) /\ w.waiter # "waiting"
<1> DEFINE u == After(v, t)
           w == FromStore(u, l)
<1>1. /\ u \in ViewType /\ u.row = t.row /\ u.result = t.result
      /\ u.entry = v.entry /\ u.waiter = v.waiter /\ u.published = v.published
      /\ v \in ViewType
  BY DEF Good, ViewType, After
<1> HIDE DEF u
<1>2. CASE ~Open(v.entry)
  <2>1. w = u
    BY <1>1, <1>2 DEF FromStore
  <2>2. Unallowed(v.row, t.row, l) \/ t.row.outcome \notin Allows
        \/ t.row.outcome = v.row.outcome
    BY <1>2
  <2>3. Agree(u.row, u.entry, u.waiter, u.published, l)
    BY <1>1, <1>2, Facts DEF Good, Agree, RowStep, Owned, ViewType, RowType, Outcomes
  <2>4. ViewStep(v, u, l)
    BY <1>1, <1>2 DEF ViewStep, ViewType
  <2> QED
    BY <1>1, <1>2, <2>1, <2>3, <2>4 DEF Good, Agree, u
<1>3. CASE Open(v.entry)
  <2> DEFINE x == SettleLocal(u, t.row.outcome, t.row.resolved)
  <2>1. w = Published(x)
    BY <1>1, <1>3 DEF FromStore
  <2>2. t.row.resolved \in 0 .. MaxTime
    BY DEF RowType
  <2>3. /\ x \in ViewType /\ x.row = u.row /\ x.waiter = Decision(t.row.outcome)
        /\ x.published = u.published /\ x.result = u.result
        /\ x.entry.outcome = t.row.outcome /\ x.entry.reused = u.entry.reused
        /\ x.entry.retained = u.entry.retained /\ Held(x.entry, k)
    BY <1>1, <1>3, <2>2, SettledLocally DEF Good
  <2> HIDE DEF x
  <2>4. /\ w \in ViewType /\ w.row = t.row /\ w.waiter = x.waiter /\ w.result = t.result
        /\ w.published = v.published + 1 /\ w.entry = x.entry
    BY <1>1, <2>1, <2>3 DEF Published, ViewType
  <2> HIDE DEF w
  <2>5. v.published = 0 /\ v.waiter = "waiting" /\ v.row.outcome \notin Allows
    BY <1>3 DEF Good, Agree, Answerable
  <2>6. /\ Decision(t.row.outcome) \notin {"waiting", "none"}
        /\ t.row.outcome = "corrupt" => t.row.outcome \notin Allows
    BY Decisions, Facts
  <2>7. ~Open(w.entry) /\ Present(w.entry) /\ Resolved(w.entry) /\ Present(v.entry)
        /\ w.entry.outcome = t.row.outcome /\ ~Resolved(v.entry)
    BY <1>3, <2>3, <2>4, Facts DEF Open, Present, Resolved
  <2>8. Agree(w.row, w.entry, w.waiter, w.published, l)
    BY <2>3, <2>4, <2>5, <2>6, <2>7, Facts DEF Agree, Answerable
  <2>9. ViewStep(v, w, l)
    BY <1>1, <2>3, <2>4, <2>5, <2>7, Facts DEF ViewStep
  <2> QED
    BY <2>3, <2>4, <2>6, <2>7, <2>8, <2>9 DEF Good, w, u
<1> QED
  BY <1>2, <1>3

\* persistStorageCorruptDeny: the row catches up with the denied waiter.
LEMMA Repairing ==
  ASSUME NEW l, NEW k, NEW v, Good(v, l, k), now \in 0 .. MaxTime,
         v.entry.outcome = "corrupt", v.result \in Results
  PROVE  \A w \in RepairDeny(v, l) :
           /\ Good(w, l, k) /\ ViewStep(v, w, l)
           /\ w.waiter # "waiting" /\ w.row.outcome \notin Allows
<1> DEFINE t == ForceDeny(v.row, l, "corrupt", now)
           u == After(v, t)
<1>0. v \in ViewType /\ v.row \in RowType
  BY DEF Good, ViewType
<1>1. /\ Unallowed(v.row, t.row, l) /\ t.result \in Results
      /\ t.result \in {"expired", "denied"} =>
           v.row.outcome = "pending" /\ t.row.outcome \in Terminal
  BY <1>0, DeniedRow DEF Denials, Results
<1>2. /\ v.waiter # "waiting" /\ v.row.outcome \notin Allows
  BY Facts DEF Good, Agree, Answerable, Open
<1>3. [v EXCEPT !.result = "threw"].waiter = v.waiter /\ [v EXCEPT !.result = "threw"].row = v.row
  BY <1>0 DEF ViewType
<1>4. Good([v EXCEPT !.result = "threw"], l, k) /\ ViewStep(v, [v EXCEPT !.result = "threw"], l)
  BY <1>0, Renamed, StepRefl DEF Results
<1> HIDE DEF t
<1>5. /\ Good(u, l, k) /\ ViewStep(v, u, l) /\ u.row = t.row /\ u.result = t.result
      /\ u.entry = v.entry /\ u.waiter = v.waiter /\ u.row.outcome \notin Allows
  BY <1>1, <1>2, Changed DEF Unallowed
<1> HIDE DEF u
<1>6. ASSUME t.result \in {"expired", "denied"}
      PROVE  LET w == Published(u) IN
             Good(w, l, k) /\ ViewStep(v, w, l) /\ w.waiter = u.waiter /\ w.row = u.row
  <2> DEFINE w == Published(u)
  <2>1. u \in ViewType /\ w \in ViewType /\ w.row = u.row /\ w.entry = u.entry
        /\ w.waiter = u.waiter /\ w.published = u.published + 1
    BY <1>5 DEF Good, ViewType, Published
  <2>2. v.published = 0
    BY <1>0, <1>1, <1>6, Facts DEF Good, Agree, ViewType
  <2>3. u.published = v.published
    BY <1>0 DEF u, After, ViewType
  <2>4. Agree(w.row, w.entry, w.waiter, w.published, l)
    <3>1. w.published = 1 /\ w.row.outcome \in Terminal /\ w.row.outcome \notin Allows
      BY <1>1, <1>5, <1>6, <2>1, <2>2, <2>3
    <3>2. ~Open(w.entry) /\ w.entry.outcome = "corrupt"
      BY <1>5, <2>1 DEF Open
    <3> QED
      BY <1>5, <2>1, <3>1, <3>2 DEF Good, Agree
  <2>5. ViewStep(v, w, l)
    BY <1>5, <2>1, <2>2, <2>3 DEF ViewStep
  <2> QED
    BY <1>5, <2>1, <2>4, <2>5 DEF Good
<1>7. \A w \in RepairDeny(v, l) :
        w \in {u, Published(u), [v EXCEPT !.result = "threw"]}
        /\ (w = Published(u) /\ w # u => t.result \in {"expired", "denied"}
            \/ w = [v EXCEPT !.result = "threw"])
  BY <1>5 DEF RepairDeny, Attempt, u, t
<1> QED
  BY <1>2, <1>3, <1>4, <1>5, <1>6, <1>7

\* forceDenyDetailed, whatever its reason.
LEMMA Denying ==
  ASSUME NEW l, NEW k, NEW v, Good(v, l, k), now \in 0 .. MaxTime, NEW o \in Denials
  PROVE  \A w \in ForceDenied(v, l, o) :
           /\ Good(w, l, k) /\ ViewStep(v, w, l)
           /\ w.result = "threw" => w.waiter # "waiting"
           /\ w.result = "denied" => w.waiter # "waiting" /\ w.row.outcome \notin Allows
<1>0. v \in ViewType /\ v.row \in RowType
  BY DEF Good, ViewType
<1>1. CASE v.entry.outcome = "corrupt"
  BY <1>0, <1>1, Repairing DEF ForceDenied, ViewType
<1>2. CASE v.entry.outcome # "corrupt"
  <2> DEFINE t == ForceDeny(v.row, l, o, now)
             u == After(v, t)
             f == StorageFailure(v)
             s == StorageFailure(u)
             g == FromStore(u, l)
  <2>1. /\ Unallowed(v.row, t.row, l) /\ t.result \in Results
        /\ t.result \in {"missing", "expired", "corrupt", "already", "not-due", "denied"}
        /\ t.result \in {"expired", "already", "denied"} => Owned(t.row, l) /\ t.row.outcome \in Terminal
        /\ t.result = "denied" => t.row.outcome \notin Allows
    BY <1>0, DeniedRow DEF Results
  <2>2. /\ Good(f, l, k) /\ ViewStep(v, f, l) /\ f.waiter # "waiting"
    BY Failing
  <2> HIDE DEF t
  <2>3. /\ Good(u, l, k) /\ ViewStep(v, u, l) /\ u.row = t.row /\ u.result = t.result
        /\ u.entry = v.entry
    BY <2>1, Changed
  <2>4. ASSUME t.result \in {"expired", "already", "denied"}
        PROVE  /\ Good(g, l, k) /\ ViewStep(v, g, l) /\ g.result = t.result
               /\ g.waiter # "waiting" /\ g.row = t.row
    BY <2>1, <2>4, Storing DEF Unallowed
  <2> HIDE DEF u
  <2>5. /\ Good(s, l, k) /\ ViewStep(u, s, l) /\ s.result = t.result
    BY <2>3, Failing
  <2>6. ViewStep(v, s, l)
    BY <1>0, <2>3, <2>5, StepTrans DEF Good
  <2> HIDE DEF f, s, g
  <2>7. [f EXCEPT !.result = "threw"].waiter # "waiting"
        /\ [f EXCEPT !.result = "threw"].result = "threw"
    BY <2>2 DEF Good, ViewType
  <2>8. Good([f EXCEPT !.result = "threw"], l, k) /\ ViewStep(v, [f EXCEPT !.result = "threw"], l)
    BY <2>2, Renamed DEF Results
  <2>9. \A w \in ForceDenied(v, l, o) :
          w = Reconciled(u, l) \/ w = [f EXCEPT !.result = "threw"]
    BY <1>2 DEF ForceDenied, Attempt, u, t, f
  <2>10. Reconciled(u, l) =
           IF t.result \in {"denied", "expired", "already"} THEN g
           ELSE IF t.result \in {"missing", "corrupt"} THEN s ELSE u
    BY <2>1, <2>3 DEF Reconciled, g, s
  <2>11. LET w == Reconciled(u, l) IN
           /\ Good(w, l, k) /\ ViewStep(v, w, l)
           /\ w.result # "threw"
           /\ w.result = "denied" => w.waiter # "waiting" /\ w.row.outcome \notin Allows
    BY <2>1, <2>3, <2>4, <2>5, <2>6, <2>10
  <2> QED
    BY <2>7, <2>8, <2>9, <2>11
<1> QED
  BY <1>1, <1>2

\* What every call leaves: a good view, one step from the one it was given.
Kept(v, w, l, k) == Good(w, l, k) /\ ViewStep(v, w, l)

LEMMA KeptTrans ==
  ASSUME NEW l, NEW k, NEW u, NEW v, NEW w, NEW j, Good(u, l, k), Kept(u, v, l, k), Kept(v, w, l, j)
  PROVE  Kept(u, w, l, j)
BY StepTrans DEF Kept, Good

LEMMA KeptSame ==
  ASSUME NEW l, NEW k, NEW v, Good(v, l, k)
  PROVE  Kept(v, v, l, k)
BY StepRefl DEF Kept, Good

\* forceDenyIfDelegatedAuthorityClosed
LEMMA Authorizing ==
  ASSUME NEW l, NEW k, NEW v, Good(v, l, k), now \in 0 .. MaxTime
  PROVE  \A w \in Authorized(v, l) : Kept(v, w, l, k)
BY Denying, KeptSame DEF Authorized, Denials, Kept

\* resolveDetailed: an allow needs a binding that is open, and its authority.
LEMMA Answering ==
  ASSUME NEW l, NEW k, NEW v, Good(v, l, k), now \in 0 .. MaxTime, NEW d
  PROVE  \A w \in Answered(v, l, d) : Kept(v, w, l, k)
<1>0. v \in ViewType /\ v.row \in RowType /\ v.result \in Results
  BY DEF Good, ViewType
<1>1. CASE d # "deny" /\ Bound(v, l)
  BY <1>1, Authorizing DEF Answered
<1>2. CASE ~(d # "deny" /\ Bound(v, l)) /\ v.entry.outcome = "corrupt"
  BY <1>0, <1>2, Repairing DEF Answered, Kept
<1>3. CASE d # "deny" /\ ~Bound(v, l) /\ v.entry.outcome # "corrupt" /\ ~Present(v.entry)
  <2>1. Answered(v, l, d) = {[v EXCEPT !.result = "missing"]}
    BY <1>3 DEF Answered
  <2>2. "missing" \in Results
    BY DEF Results
  <2> QED
    BY <1>0, <2>1, <2>2, Renamed, KeptSame DEF Kept
<1>4. CASE /\ ~(d # "deny" /\ Bound(v, l)) /\ v.entry.outcome # "corrupt"
           /\ d = "deny" \/ Present(v.entry)
  <2> DEFINE t == Resolve(v.row, l, d, now)
             u == After(v, t)
             f == StorageFailure(v)
             s == StorageFailure(u)
             g == FromStore(u, l)
  <2>1. /\ t.row \in RowType /\ RowStep(v.row, t.row, l) /\ t.row.spent = v.row.spent
        /\ t.result \in {"missing", "expired", "corrupt", "already", "not-allowed", "resolved"}
        /\ t.result \in {"expired", "already", "resolved"} => Owned(t.row, l) /\ t.row.outcome \in Terminal
        /\ t.result # "resolved" => (t.row.outcome # v.row.outcome => t.row.outcome \notin Allows)
        /\ t.row.outcome \in Allows => t.row.outcome \in {v.row.outcome, d}
        /\ t.result \in {"resolved", "expired"} => v.row.outcome = "pending"
    BY <1>0, ResolvedRow
  <2>2. t.result \in Results
    BY <2>1 DEF Results
  <2>3. Kept(v, f, l, k)
    BY Failing DEF Kept
  <2>4. ASSUME t.result \in {"expired", "already", "resolved"},
               t.row.outcome # v.row.outcome, t.row.outcome \in Allows
        PROVE  Open(v.entry) /\ l \notin closed
    <3>1. v.row.outcome = "pending" /\ Owned(t.row, l) /\ t.row.outcome = d /\ d # "deny"
      BY <2>1, <2>4, Facts
    <3>2. Present(v.entry)
      BY <1>4, <3>1
    <3>3. Open(v.entry)
      BY <1>4, <3>1, <3>2, Facts DEF Good, Agree, Open, Present, Resolved, ViewType, EntryType, Outcomes
    <3> QED
      BY <1>4, <3>1, <3>2, <3>3 DEF Bound
  <2> HIDE DEF t
  <2>5. ASSUME t.result \in {"expired", "already", "resolved"}
        PROVE  Kept(v, g, l, k)
    BY <2>1, <2>2, <2>4, <2>5, Storing DEF Kept
  <2>6. ASSUME t.result \notin {"expired", "already", "resolved"}
        PROVE  Kept(v, u, l, k) /\ Kept(u, s, l, k)
    <3>1. Unallowed(v.row, t.row, l)
      BY <2>1, <2>6 DEF Unallowed
    <3>2. Kept(v, u, l, k)
      BY <2>2, <3>1, Changed DEF Kept
    <3> QED
      BY <3>2, Failing DEF Kept
  <2>7. u.result = t.result
    BY <1>0, <2>2 DEF After, ViewType
  <2> HIDE DEF u
  <2>8. Kept(v, Reconciled(u, l), l, k)
    <3>1. CASE t.result \in {"expired", "already", "resolved"}
      BY <2>5, <2>7, <3>1 DEF Reconciled
    <3>2. CASE t.result \in {"missing", "corrupt"}
      BY <2>6, <2>7, <3>2, KeptTrans DEF Reconciled
    <3>3. CASE t.result = "not-allowed"
      BY <2>6, <2>7, <3>3 DEF Reconciled
    <3> QED
      BY <2>1, <3>1, <3>2, <3>3
  <2> HIDE DEF f
  <2>9. Kept(v, [f EXCEPT !.result = "threw"], l, k)
    BY <2>3, Renamed DEF Kept, Results
  <2>10. Answered(v, l, d) = Attempt(Reconciled(u, l), f)
    BY <1>4 DEF Answered, u, t, f
  <2> QED
    BY <2>8, <2>9, <2>10 DEF Attempt
<1> QED
  BY <1>1, <1>2, <1>3, <1>4

\* A binding in use does not lapse.
LEMMA Lapsing ==
  ASSUME NEW l, NEW k, NEW v, Good(v, l, k), now \in 0 .. MaxTime, Lapsed(v.entry)
  PROVE  k = 0 /\ v.entry.retained = 0
BY Facts DEF Lapsed, Anchor, Good, ViewType, EntryType, Held

\* A binding that is answered, and that nobody holds, may be dropped.
LEMMA Dropping ==
  ASSUME NEW l, NEW v, Good(v, l, 0), Resolved(v.entry), v.entry.outcome # "corrupt"
  PROVE  Kept(v, [v EXCEPT !.entry = NoEntry], l, 0)
<1> DEFINE w == [v EXCEPT !.entry = NoEntry]
<1>1. NoEntry \in EntryType /\ Held(NoEntry, 0)
  BY Facts DEF NoEntry, EntryType, Held, Resolved, Present, Outcomes
<1>2. v \in ViewType /\ w \in ViewType /\ w.row = v.row /\ w.waiter = v.waiter
      /\ w.published = v.published /\ w.entry = NoEntry
  BY <1>1 DEF Good, ViewType
<1>3. ~Present(NoEntry) /\ ~Open(NoEntry) /\ ~Resolved(NoEntry) /\ ~Answerable(NoEntry)
  BY Facts DEF NoEntry, Present, Open, Resolved, Answerable
<1>4. Present(v.entry) /\ v.row.outcome \in Terminal
  BY Facts DEF Present, Resolved, Good, Agree
<1>5. Agree(w.row, w.entry, w.waiter, w.published, l)
  BY <1>2, <1>3, <1>4 DEF Good, Agree, Open, Resolved
<1>6. v.entry.retained = 0
  BY DEF Good, Held
<1>7. ViewStep(v, w, l)
  BY <1>2, <1>3, <1>6 DEF ViewStep, RowStep, ViewType
<1> QED
  BY <1>1, <1>2, <1>5, <1>7 DEF Kept, Good

\* getSnapshot
LEMMA Snapshotting ==
  ASSUME NEW l, NEW k, NEW v, Good(v, l, k), now \in 0 .. MaxTime
  PROVE  \A w \in Snapshot(v, l) : Kept(v, w, l, k)
<1>1. CASE v.entry.outcome # "corrupt" /\ Lapsed(v.entry)
  <2>1. k = 0
    BY <1>1, Lapsing
  <2>2. \A w \in Snapshot(v, l) : w = [v EXCEPT !.entry = NoEntry]
    <3>1. ~Open(v.entry)
      BY <1>1, Facts DEF Lapsed, Resolved, Open
    <3> QED
      BY <1>1, <3>1 DEF Snapshot
  <2> QED
    BY <1>1, <2>1, <2>2, Dropping DEF Lapsed
<1>2. CASE ~(v.entry.outcome # "corrupt" /\ Lapsed(v.entry))
  <2>1. \A w \in Snapshot(v, l) : w = v \/ w \in ForceDenied(v, l, "expired")
    BY <1>2 DEF Snapshot
  <2>2. "expired" \in Denials
    BY DEF Denials
  <2> QED
    BY <2>1, <2>2, Denying, KeptSame DEF Kept
<1> QED
  BY <1>1, <1>2

\* loadVisibleApproval
LEMMA LookingUp ==
  ASSUME NEW l, NEW k, NEW v, Good(v, l, k), now \in 0 .. MaxTime
  PROVE  \A w \in Lookup(v, l) : Kept(v, w, l, k)
<1> DEFINE t == Read(v.row, now)
           u == After(v, t)
           f == StorageFailure(v)
<1>0. v \in ViewType /\ v.row \in RowType
  BY DEF Good, ViewType
<1>1. Unallowed(v.row, t.row, l) /\ t.result \in Results
  BY <1>0, ReadRow DEF Results
<1> HIDE DEF t
<1>2. Kept(v, u, l, k) /\ u.row = t.row /\ u.result = t.result /\ u.entry = v.entry
  BY <1>1, Changed DEF Kept
<1>3. Kept(v, f, l, k)
  BY Failing DEF Kept
<1> HIDE DEF f
<1>4. Kept(v, [f EXCEPT !.result = "threw"], l, k)
  BY <1>3, Renamed DEF Kept, Results
<1>5. Kept(v, StorageFailure(u), l, k)
  <2>1. Kept(u, StorageFailure(u), l, k)
    BY <1>2, Failing DEF Kept
  <2> QED
    BY <1>2, <2>1, KeptTrans
<1>6. Kept(v, FromStore(u, l), l, k)
  <2>1. CASE Owned(t.row, l) /\ t.row.outcome \in Terminal
    BY <1>1, <2>1, Storing DEF Unallowed, Kept
  <2>2. CASE ~(Owned(t.row, l) /\ t.row.outcome \in Terminal)
    BY <1>2, <2>2 DEF FromStore
  <2> QED
    BY <2>1, <2>2
<1> HIDE DEF u
<1>7. ASSUME u.entry.outcome = "corrupt"
      PROVE  \A w \in RepairDeny(u, l) : Kept(v, w, l, k)
  <2>1. \A w \in RepairDeny(u, l) : Kept(u, w, l, k)
    BY <1>1, <1>2, <1>7, Repairing DEF Kept
  <2> QED
    BY <1>2, <2>1, KeptTrans
<1>8. Lookup(v, l) =
        IF u.result = "found" /\ Open(u.row) /\ Owned(u.row, l) /\ v.entry.outcome = "corrupt"
        THEN RepairDeny(u, l)
        ELSE Attempt(IF u.result = "found" THEN FromStore(u, l) ELSE StorageFailure(u), f)
  BY DEF Lookup, u, t, f
<1> QED
  BY <1>2, <1>4, <1>5, <1>6, <1>7, <1>8 DEF Attempt

\* Only the outcome of a binding has to agree with the rest.
LEMMA AgreeSame ==
  ASSUME NEW r, NEW e, NEW f, NEW p, NEW n, NEW l, Agree(r, e, p, n, l), f.outcome = e.outcome
  PROVE  Agree(r, f, p, n, l)
BY DEF Agree, Present, Open, Resolved, Answerable

\* retainForHandoff takes the binding, if it has not lapsed.
LEMMA Retaining ==
  ASSUME NEW l, NEW k, NEW v, Good(v, l, k), now \in 0 .. MaxTime
  PROVE  LET e == Retained(v.entry)
             w == [v EXCEPT !.entry = e] IN
         /\ Present(e) => Kept(v, w, l, k + 1)
         /\ ~Present(e) => Kept(v, w, l, k)
         /\ Present(e) => e.reused = v.entry.reused
<1> DEFINE e == Retained(v.entry)
           w == [v EXCEPT !.entry = e]
<1>0. v \in ViewType /\ v.entry \in EntryType /\ v.entry.retained = k /\ k \in Nat
      /\ (~Present(v.entry) => v.entry = NoEntry)
  BY DEF Good, ViewType, EntryType, Held
<1>1. CASE v.entry.outcome # "corrupt" /\ v.entry.retained = 0 /\ Lapsed(v.entry)
  <2>1. e = NoEntry /\ ~Present(e)
    BY <1>1 DEF Retained, NoEntry, Present
  <2>2. Resolved(v.entry) /\ k = 0
    BY <1>0, <1>1 DEF Lapsed
  <2> QED
    BY <1>1, <2>1, <2>2, Dropping
<1>2. CASE ~(v.entry.outcome # "corrupt" /\ v.entry.retained = 0 /\ Lapsed(v.entry)) /\ ~Present(v.entry)
  <2>1. e = v.entry /\ w = v
    BY <1>0, <1>2 DEF Retained, ViewType
  <2> QED
    BY <1>2, <2>1, KeptSame
<1>3. CASE ~(v.entry.outcome # "corrupt" /\ v.entry.retained = 0 /\ Lapsed(v.entry)) /\ Present(v.entry)
  <2>1. e = [v.entry EXCEPT !.retained = @ + 1, !.cleanup = Never]
    BY <1>3 DEF Retained
  <2> HIDE DEF e
  <2>2. /\ e \in EntryType /\ e.outcome = v.entry.outcome /\ e.retained = k + 1
        /\ e.reused = v.entry.reused /\ e.cleanup = Never
    <3>1. v.entry.retained + 1 \in Nat /\ v.entry.retained + 1 = k + 1
      BY <1>0
    <3>2. e = [v.entry EXCEPT !.retained = k + 1, !.cleanup = Never]
      BY <1>0, <2>1
    <3> QED
      BY <1>0, <3>1, <3>2 DEF EntryType
  <2>3. /\ w \in ViewType /\ w.row = v.row /\ w.waiter = v.waiter /\ w.published = v.published
        /\ w.entry = e
    BY <1>0, <2>2 DEF ViewType
  <2> HIDE DEF w
  <2>4. Present(e) /\ (Open(e) <=> Open(v.entry)) /\ (Resolved(e) <=> Resolved(v.entry))
        /\ (Answerable(e) <=> Answerable(v.entry))
    BY <1>3, <2>2 DEF Present, Open, Resolved, Answerable
  <2>5. Agree(w.row, w.entry, w.waiter, w.published, l)
    BY <2>2, <2>3, AgreeSame DEF Good
  <2>6. Held(e, k + 1)
    BY <1>0, <2>2, <2>4 DEF Held
  <2>7. ViewStep(v, w, l)
    BY <1>0, <1>3, <2>2, <2>3, <2>4 DEF ViewStep, RowStep, ViewType
  <2> QED
    BY <2>2, <2>3, <2>4, <2>5, <2>6, <2>7 DEF Kept, Good, e, w
<1> QED
  BY <1>1, <1>2, <1>3

\* The function retainForHandoff returned gives it back.
LEMMA Releasing ==
  ASSUME NEW l, NEW k \in Nat, k # 0, NEW v, Good(v, l, k), now \in 0 .. MaxTime
  PROVE  /\ Kept(v, Released(v), l, k - 1) /\ Released(v).row = v.row
         /\ Released(v).waiter = v.waiter
<1> DEFINE left == [v.entry EXCEPT !.retained = @ - 1]
           f == [left EXCEPT !.released = now]
           e == IF left.retained = 0 /\ Resolved(left) THEN Cleaned(f) ELSE left
           w == [v EXCEPT !.entry = e]
<1>0. v \in ViewType /\ v.entry \in EntryType /\ v.entry.retained = k /\ Present(v.entry)
      /\ (v.entry.cleanup # Never => Resolved(v.entry))
  BY DEF Good, ViewType, EntryType, Held, NoEntry
<1>1. Released(v) = w
  BY <1>0 DEF Released
<1>2. now + Grace \in 0 .. MaxTime + Grace /\ now + Grace # Never
  BY Facts
<1>3. /\ left \in EntryType /\ left.outcome = v.entry.outcome /\ left.retained = k - 1
      /\ left.reused = v.entry.reused /\ left.cleanup = v.entry.cleanup
  BY <1>0 DEF EntryType
<1> HIDE DEF left
<1>4. /\ f \in EntryType /\ f.outcome = left.outcome /\ f.retained = left.retained
      /\ f.reused = left.reused /\ f.cleanup = left.cleanup
  BY <1>3 DEF EntryType
<1> HIDE DEF f
<1>5. /\ Cleaned(f) \in EntryType /\ Cleaned(f).outcome = f.outcome
      /\ Cleaned(f).retained = f.retained /\ Cleaned(f).reused = f.reused
      /\ Resolved(f) /\ f.outcome # "corrupt" /\ f.retained = 0 => Cleaned(f).cleanup # Never
  BY <1>2, <1>4 DEF Cleaned, EntryType
<1>6. /\ e \in EntryType /\ e.outcome = v.entry.outcome /\ e.retained = k - 1
      /\ e.reused = v.entry.reused
      /\ e.cleanup # Never => Resolved(e)
      /\ Resolved(e) /\ k - 1 = 0 /\ e.outcome # "corrupt" => e.cleanup # Never
  BY <1>0, <1>3, <1>4, <1>5 DEF Resolved
<1> HIDE DEF e
<1>7. /\ w \in ViewType /\ w.row = v.row /\ w.waiter = v.waiter /\ w.published = v.published
      /\ w.entry = e
  BY <1>0, <1>6 DEF ViewType
<1> HIDE DEF w
<1>8. Present(e) /\ (Open(e) <=> Open(v.entry)) /\ (Resolved(e) <=> Resolved(v.entry))
      /\ (Answerable(e) <=> Answerable(v.entry))
  BY <1>0, <1>6 DEF Present, Open, Resolved, Answerable
<1>9. Agree(w.row, w.entry, w.waiter, w.published, l)
  BY <1>6, <1>7, AgreeSame DEF Good
<1>10. ViewStep(v, w, l)
  BY <1>0, <1>6, <1>7, <1>8 DEF ViewStep, RowStep, ViewType
<1> QED
  BY <1>1, <1>6, <1>7, <1>8, <1>9, <1>10 DEF Kept, Good, Held

\* The cleanup timer.
LEMMA Cleaning ==
  ASSUME NEW l, NEW k, NEW v, Good(v, l, k), now \in 0 .. MaxTime, v.entry.cleanup <= now
  PROVE  LET e == IF v.entry.retained = 0 /\ v.entry.outcome # "corrupt" THEN NoEntry
                  ELSE [v.entry EXCEPT !.cleanup = Never] IN
         Kept(v, [v EXCEPT !.entry = e], l, k)
<1>0. /\ v \in ViewType /\ v.entry \in EntryType /\ v.entry.retained = k
      /\ v.entry.cleanup # Never /\ Resolved(v.entry) /\ Present(v.entry)
  <2>1. v \in ViewType /\ v.entry \in EntryType
    BY DEF Good, ViewType
  <2>2. v.entry.cleanup # Never
    BY Facts
  <2> QED
    BY <2>1, <2>2, Facts DEF Good, Held, Resolved, Present
<1>1. CASE v.entry.retained = 0 /\ v.entry.outcome # "corrupt"
  BY <1>0, <1>1, Dropping
<1>2. CASE ~(v.entry.retained = 0 /\ v.entry.outcome # "corrupt")
  <2> DEFINE e == [v.entry EXCEPT !.cleanup = Never]
             w == [v EXCEPT !.entry = e]
  <2>1. /\ e \in EntryType /\ e.outcome = v.entry.outcome /\ e.retained = k
        /\ e.reused = v.entry.reused /\ e.cleanup = Never
    BY <1>0 DEF EntryType
  <2> HIDE DEF e
  <2>2. /\ w \in ViewType /\ w.row = v.row /\ w.waiter = v.waiter /\ w.published = v.published
        /\ w.entry = e
    BY <1>0, <2>1 DEF ViewType
  <2> HIDE DEF w
  <2>3. Agree(w.row, w.entry, w.waiter, w.published, l)
    BY <2>1, <2>2, AgreeSame DEF Good
  <2>4. Present(e) /\ (k = 0 => e.outcome = "corrupt")
    BY <1>0, <1>2, <2>1 DEF Present
  <2>5. ViewStep(v, w, l)
    BY <1>0, <2>1, <2>2, <2>4 DEF ViewStep, RowStep, ViewType
  <2> QED
    BY <1>2, <2>1, <2>2, <2>3, <2>4, <2>5 DEF Kept, Good, Held, e, w
<1> QED
  BY <1>1, <1>2

\* consumeAllowOnce uses the row up.
LEMMA Consuming ==
  ASSUME NEW l, NEW k, NEW v, Good(v, l, k), now \in 0 .. MaxTime, Present(v.entry)
  PROVE  \A w \in Consumed(v, l) :
           /\ Kept(v, w, l, k) /\ w.row.outcome = v.row.outcome
           /\ w.row.spent /\ ~v.row.spent
<1> DEFINE c == Consume(v.row, l, Grace + (Anchor(v.entry) - v.entry.at), now)
           u == After(v, c)
           e == [v.entry EXCEPT !.spent = TRUE]
           w == [u EXCEPT !.entry.spent = TRUE]
<1>0. v \in ViewType /\ v.entry \in EntryType /\ v.row \in RowType
  BY DEF Good, ViewType
<1>1. SUFFICES ASSUME c.result = "consumed", Consumed(v, l) # {}
               PROVE  Kept(v, w, l, k) /\ w.row.outcome = v.row.outcome
                      /\ w.row.spent /\ ~v.row.spent
  <2>1. u.result = c.result
    BY <1>0 DEF After, ViewType
  <2> HIDE DEF u, c
  <2> QED
    BY <2>1 DEF Consumed, u, c
<1>2. c.row = [v.row EXCEPT !.spent = TRUE] /\ ~v.row.spent
  BY <1>1 DEF Consume, Done, Unreadable
<1> HIDE DEF c
<1>3. /\ c.row \in RowType /\ c.row.outcome = v.row.outcome /\ c.row.epoch = v.row.epoch
      /\ c.row.spent /\ Unallowed([v.row EXCEPT !.spent = c.row.spent], c.row, l)
  BY <1>0, <1>2 DEF RowType, RowStep, Unallowed
<1>4. /\ e \in EntryType /\ e.outcome = v.entry.outcome /\ e.retained = v.entry.retained
      /\ e.reused = v.entry.reused /\ e.cleanup = v.entry.cleanup
  BY <1>0 DEF EntryType
<1>5. /\ w \in ViewType /\ w.row = c.row /\ w.waiter = v.waiter /\ w.published = v.published
      /\ w.entry = e
  BY <1>0, <1>1, <1>3, <1>4 DEF ViewType, After, Results
<1> HIDE DEF e, w
<1>6. Agree(w.row, w.entry, w.waiter, w.published, l)
  <2>1. Agree(c.row, v.entry, v.waiter, v.published, l)
    BY <1>3 DEF Good, Agree, Owned
  <2> QED
    BY <1>4, <1>5, <2>1, AgreeSame
<1>7. ViewStep(v, w, l)
  BY <1>0, <1>2, <1>3, <1>4, <1>5 DEF ViewStep, RowStep, ViewType, Present, Resolved
<1>8. Held(e, k)
  BY <1>4 DEF Good, Held, Present, Resolved
<1> QED
  BY <1>2, <1>3, <1>5, <1>6, <1>7, <1>8 DEF Kept, Good, e, w

\* consumeAskFallback uses the binding up.
LEMMA FallingBack ==
  ASSUME NEW l, NEW k, NEW v, Good(v, l, k)
  PROVE  \A w \in AskFallback(v) :
           /\ Kept(v, w, l, k) /\ w.row.outcome \in {"expired", "no-route"}
           /\ w.entry.reused /\ ~v.entry.reused
<1> DEFINE e == [v.entry EXCEPT !.reused = TRUE]
           w == [v EXCEPT !.entry.reused = TRUE]
<1>1. SUFFICES ASSUME v.entry.outcome \in {"expired", "no-route"}, ~v.entry.reused
               PROVE  /\ Kept(v, w, l, k) /\ w.row.outcome \in {"expired", "no-route"}
                      /\ w.entry.reused
  BY DEF AskFallback
<1>2. v \in ViewType /\ v.entry \in EntryType
  BY DEF Good, ViewType
<1>3. /\ e \in EntryType /\ e.outcome = v.entry.outcome /\ e.retained = v.entry.retained
      /\ e.reused /\ e.cleanup = v.entry.cleanup
  BY <1>2 DEF EntryType
<1>4. /\ w \in ViewType /\ w.row = v.row /\ w.waiter = v.waiter /\ w.published = v.published
      /\ w.entry = e
  BY <1>2, <1>3 DEF ViewType
<1> HIDE DEF e, w
<1>5. Agree(w.row, w.entry, w.waiter, w.published, l)
  BY <1>3, <1>4, AgreeSame DEF Good
<1>6. Resolved(v.entry) /\ v.entry.outcome # "corrupt" /\ Present(e) /\ Present(v.entry)
  BY <1>1, <1>3, Facts DEF Resolved, Present
<1>7. ViewStep(v, w, l)
  BY <1>2, <1>3, <1>4, <1>6 DEF ViewStep, RowStep, ViewType
<1>8. Held(e, k)
  BY <1>3, <1>6 DEF Good, Held, Resolved
<1> QED
  BY <1>1, <1>3, <1>4, <1>5, <1>6, <1>7, <1>8 DEF Kept, Good, Agree, w

\* sanitizeSystemRunParamsForForwarding lets a call in under the answer only.
LEMMA Admitting ==
  ASSUME NEW l, NEW k, NEW v, Good(v, l, k), now \in 0 .. MaxTime, NEW grant \in Grants
  PROVE  \A w \in Admitted(v, l, grant) :
           /\ Kept(v, w, l, k) /\ Present(v.entry)
           /\ grant \in Allows => w.row.outcome = grant
           /\ grant = "allow-once" => w.row.spent /\ ~v.row.spent
           /\ grant = "fallback" => /\ w.row.outcome \in {"expired", "no-route"}
                                    /\ w.entry.reused /\ ~v.entry.reused
<1>1. CASE Late(v.entry) \/ ~Present(v.entry)
  BY <1>1 DEF Admitted
<1>2. CASE ~(Late(v.entry) \/ ~Present(v.entry)) /\ grant \in Allows /\ v.entry.outcome = grant
  <2>1. v.row.outcome = grant
    BY <1>2, Facts DEF Good, Agree, Resolved
  <2>2. CASE grant = "allow-once"
    <3>1. Admitted(v, l, grant) = Consumed(v, l)
      BY <1>2, <2>2 DEF Admitted
    <3> QED
      BY <1>2, <2>1, <2>2, <3>1, Consuming
  <2>3. CASE grant = "allow-always"
    <3>1. Admitted(v, l, grant) \subseteq {v}
      BY <1>2, <2>3 DEF Admitted
    <3> QED
      BY <1>2, <2>1, <2>3, <3>1, KeptSame
  <2> QED
    BY <1>2, <2>2, <2>3, Facts
<1>3. CASE ~(Late(v.entry) \/ ~Present(v.entry)) /\ grant = "fallback"
  <2>1. Admitted(v, l, grant) = AskFallback(v)
    BY <1>3 DEF Admitted
  <2> QED
    BY <1>3, <2>1, FallingBack, Facts
<1>4. CASE ~(Late(v.entry) \/ ~Present(v.entry)) /\ grant \in Allows /\ v.entry.outcome # grant
  <2>1. Admitted(v, l, grant) = {}
    BY <1>4, Facts DEF Admitted
  <2> QED
    BY <2>1
<1> QED
  BY <1>1, <1>2, <1>3, <1>4 DEF Grants

\* cancelMatchingApprovals
LEMMA Cancelling ==
  ASSUME NEW l, NEW k, NEW v, Good(v, l, k), now \in 0 .. MaxTime
  PROVE  \A w \in Cancelled(v, l) : Kept(v, w, l, k)
BY Denying, KeptSame DEF Cancelled, Denials, Kept

\* A replay expires the row and announces it.
LEMMA Replaying ==
  ASSUME NEW l, NEW k, NEW v, Good(v, l, k), now \in 0 .. MaxTime, Due(v.row, now), v.result = "none"
  PROVE  LET u == [v EXCEPT !.row = ExpireDue(v.row, now)] IN
         Kept(v, u, l, k) /\ Kept(v, Announced(u, l), l, k)
<1> DEFINE q == ExpireDue(v.row, now)
           t == Done(q, "none")
           u == [v EXCEPT !.row = q]
<1>0. v \in ViewType /\ v.row \in RowType
  BY DEF Good, ViewType
<1>1. q \in RowType /\ q.outcome = "expired" /\ v.row.outcome = "pending" /\ RowStep(v.row, q, l)
      /\ q.spent = v.row.spent
  BY <1>0, ExpiredRow
<1> HIDE DEF q
<1>2. t.row = q /\ t.result = "none" /\ After(v, t) = u
  BY <1>0 DEF Done, After, ViewType
<1>3. "expired" \notin Allows /\ "expired" \in Terminal /\ "none" \in Results
  BY Facts DEF Results
<1>4. Unallowed(v.row, t.row, l)
  BY <1>1, <1>2, <1>3 DEF Unallowed
<1> HIDE DEF t
<1>5. Kept(v, u, l, k) /\ u.row = q /\ u.entry = v.entry
  BY <1>2, <1>3, <1>4, Changed DEF Kept
<1>6. ASSUME Owned(q, l)
      PROVE  Kept(v, FromStore(u, l), l, k)
  BY <1>1, <1>2, <1>3, <1>4, <1>6, Storing DEF Kept, Unallowed
<1>7. ASSUME FromStore(u, l) = u
      PROVE  Kept(v, Published(u), l, k)
  <2> DEFINE w == Published(u)
  <2>1. /\ u.published = v.published /\ u.waiter = v.waiter /\ w \in ViewType /\ w.row = q
        /\ w.entry = v.entry /\ w.waiter = v.waiter /\ w.published = v.published + 1
    <3>1. u \in ViewType /\ u.published = v.published /\ u.waiter = v.waiter
          /\ u.row = q /\ u.entry = v.entry
      BY <1>0, <1>1 DEF ViewType
    <3> HIDE DEF u
    <3> QED
      BY <3>1 DEF Published, ViewType
  <2>2. v.published = 0
    BY <1>0, <1>1, Facts DEF Good, Agree, ViewType
  <2>3. ~Open(v.entry)
    <3>1. SUFFICES ASSUME Open(v.entry) PROVE FALSE
      OBVIOUS
    <3>2. Owned(q, l)
      BY <1>1, <3>1 DEF Good, Agree, Owned, Open, Present, RowStep
    <3>3. ~Open(FromStore(u, l).entry)
      <4>1. t.row \in RowType /\ t.result \in Results /\ RowStep(v.row, t.row, l)
            /\ Owned(t.row, l) /\ t.row.outcome \in Terminal /\ t.row.outcome \notin Allows
        BY <1>1, <1>2, <1>3, <3>2
      <4> HIDE DEF u
      <4> QED
        BY <1>2, <4>1, Storing
    <3> QED
      BY <1>5, <1>7, <3>1, <3>3
  <2> HIDE DEF u, w
  <2>4. Agree(w.row, w.entry, w.waiter, w.published, l)
    <3>1. Agree(u.row, u.entry, u.waiter, u.published, l)
      BY <1>5 DEF Kept, Good
    <3> QED
      BY <1>1, <1>3, <1>5, <2>1, <2>2, <2>3, <3>1 DEF Agree, Open
  <2>5. ViewStep(v, w, l)
    <3>1. v.published <= w.published
      BY <2>1, <2>2
    <3> QED
      BY <1>1, <1>3, <2>1, <3>1 DEF ViewStep
  <2> QED
    BY <2>1, <2>4, <2>5 DEF Kept, Good, w
<1>8. ~Owned(q, l) => FromStore(u, l) = u
  BY <1>5 DEF FromStore
<1> HIDE DEF u
<1>9. Kept(v, Announced(u, l), l, k)
  BY <1>6, <1>7, <1>8 DEF Announced
<1> QED
  BY <1>5, <1>9 DEF u, q

-----------------------------------------------------------------------------
(* What a call does to the state.                                          *)

\* The waiter was told an allow exactly if the row has it.
LEMMA Agreed ==
  ASSUME NEW r \in RowType, NEW e \in EntryType, NEW p, NEW n, NEW l,
         Agree(r, e, p, n, l), p # "none"
  PROVE  \A d \in Allows : p = d <=> r.outcome = d
<1>1. CASE ~Present(e)
  BY <1>1, Decisions DEF Agree
<1>2. CASE Open(e)
  BY <1>2, Facts DEF Agree, Answerable
<1>3. CASE Resolved(e) /\ e.outcome = "corrupt"
  BY <1>3, Decisions, Facts DEF Agree, Answerable, Resolved
<1>4. CASE Resolved(e) /\ e.outcome # "corrupt"
  BY <1>4, Decisions, Facts DEF Agree, Resolved
<1> QED
  BY <1>1, <1>2, <1>3, <1>4 DEF Present, Open, Resolved, EntryType, Outcomes

\* A step of the row by one lifetime is no surprise to another.
LEMMA OtherAgree ==
  ASSUME NEW r \in RowType, NEW q \in RowType, NEW l, NEW m, m # l, RowStep(r, q, l),
         NEW e, NEW p, NEW n, Agree(r, e, p, n, m)
  PROVE  Agree(q, e, p, n, m)
<1>1. Owned(q, m) <=> Owned(r, m)
  BY Facts DEF RowStep, Owned, RowType, Outcomes
<1>2. r.outcome \in Terminal => q.outcome = r.outcome
  BY Facts DEF RowStep
<1>3. Owned(r, m) /\ q.outcome \in Allows => r.outcome = q.outcome
  BY DEF RowStep, Owned
<1>4. Answerable(e) => Present(e)
  BY DEF Answerable, Present, Open
<1>5. Answerable(e) => q.outcome \notin Allows
  BY <1>3, <1>4 DEF Agree
<1> QED
  BY <1>1, <1>2, <1>5, Facts DEF Agree, Resolved

Waiting == {"delivering", "deciding", "following"}
Holding(l) == {i \in Invokes : invoke[i].life = l /\ invoke[i].pc \in {"forwarded", "running"}}

LEMMA Counted ==
  ASSUME NEW l
  PROVE  /\ Handlers(l) \in Nat /\ Handlers(l) <= 1 + Cardinality(Invokes)
         /\ Handlers(l) = Cardinality(Holding(l)) + IF req[l] \in Waiting THEN 1 ELSE 0
         /\ IsFiniteSet(Holding(l)) /\ Cardinality(Holding(l)) \in Nat
<1>1. IsFiniteSet(Invokes) /\ Holding(l) \subseteq Invokes
  BY ApprovalsAssumption DEF Holding
<1>2. /\ IsFiniteSet(Holding(l)) /\ Cardinality(Holding(l)) <= Cardinality(Invokes)
      /\ Cardinality(Holding(l)) \in Nat /\ Cardinality(Invokes) \in Nat
  BY <1>1, FS_Subset, FS_CardinalityType
<1>3. Handlers(l) = Cardinality(Holding(l)) + IF req[l] \in Waiting THEN 1 ELSE 0
  BY DEF Handlers, Holding, Waiting
<1> QED
  BY <1>2, <1>3

\* Handlers of l come and go with its calls and its requester.
LEMMA Recounted ==
  ASSUME NEW l, BaseInv, BaseInv'
  PROVE  /\ Holding(l)' = Holding(l) /\ (req'[l] \in Waiting <=> req[l] \in Waiting) =>
              Handlers(l)' = Handlers(l)
         /\ Holding(l)' = Holding(l) /\ req'[l] \in Waiting /\ req[l] \notin Waiting =>
              Handlers(l)' = Handlers(l) + 1
         /\ Holding(l)' = Holding(l) /\ req'[l] \notin Waiting /\ req[l] \in Waiting =>
              Handlers(l)' = Handlers(l) - 1 /\ Handlers(l) # 0
         /\ req'[l] = req[l] => \A i \in Invokes :
              /\ i \notin Holding(l) /\ Holding(l)' = Holding(l) \union {i} =>
                   Handlers(l)' = Handlers(l) + 1
              /\ i \in Holding(l) /\ Holding(l)' = Holding(l) \ {i} =>
                   Handlers(l)' = Handlers(l) - 1 /\ Handlers(l) # 0
<1>1. /\ Handlers(l) = Cardinality(Holding(l)) + IF req[l] \in Waiting THEN 1 ELSE 0
      /\ IsFiniteSet(Holding(l)) /\ Cardinality(Holding(l)) \in Nat
  BY Counted
<1>2. Handlers(l)' = Cardinality(Holding(l)') + IF req'[l] \in Waiting THEN 1 ELSE 0
  BY DEF Handlers, Holding, Waiting
<1>3. \A i : i \notin Holding(l) =>
        Cardinality(Holding(l) \union {i}) = Cardinality(Holding(l)) + 1
  BY <1>1, FS_AddElement
<1>4. \A i \in Holding(l) :
        Cardinality(Holding(l) \ {i}) = Cardinality(Holding(l)) - 1 /\ Cardinality(Holding(l)) # 0
  <2> TAKE i \in Holding(l)
  <2>1. Cardinality(Holding(l) \ {i}) = Cardinality(Holding(l)) - 1
    BY <1>1, FS_RemoveElement
  <2>2. Cardinality(Holding(l)) # 0
    BY <1>1, FS_EmptySet
  <2> QED
    BY <2>1, <2>2
<1> QED
  BY <1>1, <1>2, <1>3, <1>4

\* The state after a call of lifetime l.
Moved(l, j) ==
  /\ row' \in RowType /\ entry' \in [Lifetimes -> EntryType]
  /\ waiter' \in [Lifetimes -> WaiterType] /\ published' \in [Lifetimes -> Nat]
  /\ row'.outcome # "absent" => row'.epoch \in 1 .. started
  /\ Agree(row', entry'[l], waiter'[l], published'[l], l) /\ Held(entry'[l], j)
  /\ \A m \in Lifetimes \ {l} :
       /\ entry'[m] = entry[m] /\ waiter'[m] = waiter[m] /\ published'[m] = published[m]
       /\ m \in up => Agree(row', entry'[m], waiter'[m], published'[m], m)
  /\ RowStep(row, row', l)
  /\ row.outcome \in Terminal => row'.outcome = row.outcome
  /\ waiter[l] \notin {"none", "waiting"} => waiter'[l] = waiter[l]
  /\ waiter'[l] = "none" <=> waiter[l] = "none"
  /\ Present(entry'[l]) => Present(entry[l]) /\ (entry[l].reused => entry'[l].reused)
  /\ l \in closed /\ row'.outcome \in Allows => row'.outcome = row.outcome

LEMMA Seen ==
  ASSUME BaseInv, LifeInv, NEW l \in up
  PROVE  /\ l \in Lifetimes /\ Good(View(l), l, Handlers(l)) /\ now \in 0 .. MaxTime
         /\ View(l).row = row /\ View(l).entry = entry[l] /\ View(l).waiter = waiter[l]
         /\ View(l).published = published[l] /\ View(l).result = "none"
         /\ Handlers(l) \in Nat
<1>1. l \in Lifetimes
  BY ApprovalsAssumption DEF BaseInv, Lifetimes
<1>2. View(l) \in ViewType
  BY <1>1 DEF BaseInv, View, ViewType, Results
<1> QED
  BY <1>1, <1>2, Counted DEF LifeInv, Good, View, BaseInv

LEMMA Becoming ==
  ASSUME BaseInv, LifeInv, NEW l \in up, NEW w, NEW j, Kept(View(l), w, l, j), Becomes(l, w)
  PROVE  Moved(l, j)
<1>1. l \in Lifetimes /\ w \in ViewType
  BY Seen DEF Kept, Good
<1>2. /\ row \in RowType /\ entry \in [Lifetimes -> EntryType]
      /\ waiter \in [Lifetimes -> WaiterType] /\ published \in [Lifetimes -> Nat]
      /\ row.outcome # "absent" => row.epoch \in 1 .. started
  BY DEF BaseInv
<1>3. /\ row' = w.row /\ entry'[l] = w.entry /\ waiter'[l] = w.waiter
      /\ published'[l] = w.published
      /\ \A m \in Lifetimes \ {l} :
           entry'[m] = entry[m] /\ waiter'[m] = waiter[m] /\ published'[m] = published[m]
  BY <1>1, <1>2 DEF Becomes
<1>4. /\ row' \in RowType /\ entry' \in [Lifetimes -> EntryType]
      /\ waiter' \in [Lifetimes -> WaiterType] /\ published' \in [Lifetimes -> Nat]
  BY <1>1, <1>2 DEF Becomes, ViewType
<1>5. /\ RowStep(row, row', l)
      /\ waiter[l] \notin {"none", "waiting"} => waiter'[l] = waiter[l]
      /\ Present(entry'[l]) => Present(entry[l]) /\ (entry[l].reused => entry'[l].reused)
      /\ l \in closed /\ row'.outcome \in Allows => row'.outcome = row.outcome
  BY <1>3, Seen DEF Kept, ViewStep
<1>6. /\ Agree(row', entry'[l], waiter'[l], published'[l], l) /\ Held(entry'[l], j)
      /\ Agree(row, entry[l], waiter[l], published[l], l)
  BY <1>1, <1>3 DEF Kept, Good, LifeInv
<1>7. row.outcome \in Terminal => row'.outcome = row.outcome
  BY <1>5, Facts DEF RowStep
<1>8. row'.outcome # "absent" => row'.epoch \in 1 .. started
  BY <1>2, <1>5 DEF RowStep
<1>9. waiter'[l] = "none" <=> waiter[l] = "none"
  BY <1>5, <1>6, Facts DEF Agree, Owned, RowStep
<1>10. \A m \in Lifetimes \ {l} : m \in up => Agree(row', entry'[m], waiter'[m], published'[m], m)
  <2> SUFFICES ASSUME NEW m \in Lifetimes \ {l}, m \in up
               PROVE  Agree(row', entry'[m], waiter'[m], published'[m], m)
    OBVIOUS
  <2>1. Agree(row, entry[m], waiter[m], published[m], m)
    BY DEF LifeInv
  <2> QED
    BY <1>2, <1>3, <1>4, <1>5, <2>1, OtherAgree
<1> QED
  BY <1>3, <1>4, <1>5, <1>6, <1>7, <1>8, <1>9, <1>10 DEF Moved

-----------------------------------------------------------------------------
(* What a step may do.                                                     *)

\* The steps that FirstAnswerStands, ClosedGrantsNothing and ImplementsApproval
\* allow.
Stands ==
  /\ row.outcome \in Terminal => row'.outcome = row.outcome
  /\ \A l \in Lifetimes : waiter[l] \notin {"none", "waiting"} /\ l \in up' =>
       waiter'[l] = waiter[l]
Ungranted ==
  \A l \in closed :
    /\ Owned(row', l) /\ row'.outcome \in Allows => row.outcome = row'.outcome
    /\ reply'[l] \in Allows => reply[l] \in Allows /\ req'[l] = req[l]
    /\ \A i \in Invokes : invoke[i].life = l /\ invoke'[i].pc = "running" =>
         invoke[i].pc = "running"
Lawful == Stands /\ Ungranted /\ [Promise!Next]_(Promise!vars)

\* No step but a dispatch runs a command.
LEMMA Answers ==
  ASSUME row \in RowType, row' \in RowType, Ran' = Ran,
         row.outcome \in Terminal => row'.outcome = row.outcome
  PROVE  [Promise!Next]_(Promise!vars)
<1>1. Cardinality(Ran)' = Cardinality(Ran)
  OBVIOUS
<1>2. CASE row'.outcome = row.outcome
  BY <1>1, <1>2 DEF Promise!vars
<1>3. CASE row'.outcome # row.outcome /\ row'.outcome \in {"absent", "pending"}
  BY <1>1, <1>3, Facts DEF Promise!vars, RowType, Outcomes
<1>4. CASE row'.outcome # row.outcome /\ row'.outcome \notin {"absent", "pending"}
  <2>1. row.outcome \in {"absent", "pending"} /\ row'.outcome \in Terminal
    BY <1>4 DEF RowType, Outcomes
  <2> QED
    BY <1>1, <2>1, Facts DEF Promise!Next, Promise!Answer
<1> QED
  BY <1>2, <1>3, <1>4

\* The grants stand as long as the row does, and what used them is not undone.
LEMMA GrantsStand ==
  ASSUME GrantInv,
         row.outcome \in Terminal => row'.outcome = row.outcome,
         row.spent => row'.spent,
         \A g : Uses(g)' \subseteq Uses(g),
         \A i \in Invokes : invoke'[i].pc = "idle" <=> invoke'[i].grant = "none",
         \A l \in up' : Uses("fallback") # {} /\ Present(entry'[l]) => entry'[l].reused
  PROVE  GrantInv'
<1>1. \A d \in Allows : Uses(d)' # {} => row'.outcome = d
  BY Facts DEF GrantInv
<1>2. Uses("fallback")' # {} => row'.outcome \in {"expired", "no-route"}
  BY Facts DEF GrantInv
<1>3. Uses("allow-once")' # {} => row'.spent
  BY DEF GrantInv
<1>4. \A l \in up' : Uses("fallback")' # {} /\ Present(entry'[l]) => entry'[l].reused
  OBVIOUS
<1>5. \A g \in {"allow-once", "fallback"} : \A i, j \in Uses(g)' : i = j
  BY DEF GrantInv
<1> QED
  BY <1>1, <1>2, <1>3, <1>4, <1>5 DEF GrantInv

\* A step of a handler of lifetime l, which calls its manager.
LEMMA Handled ==
  ASSUME IInv, NEW l \in up, NEW w, NEW j, Kept(View(l), w, l, j), Becomes(l, w),
         UNCHANGED <<up, started, now>>, closed \subseteq closed', closed' \subseteq Lifetimes,
         BaseInv => BaseInv',
         j = Handlers(l)',
         Told(l)',
         \A m \in Lifetimes \ {l} :
           req'[m] = req[m] /\ reply'[m] = reply[m] /\ Handlers(m)' = Handlers(m),
         InvokeInv'
  PROVE  BaseInv' /\ LifeInv' /\ InvokeInv' /\ Stands /\ Moved(l, j)
<1>1. Moved(l, j)
  BY Becoming DEF IInv
<1>2. l \in Lifetimes
  BY Seen DEF IInv
<1>3. ASSUME NEW m \in Lifetimes, m # l, m \in up
      PROVE  Agree(row', entry'[m], waiter'[m], published'[m], m) /\ Held(entry'[m], Handlers(m)')
             /\ Told(m)'
  <2>1. Held(entry[m], Handlers(m)) /\ Told(m)
    BY <1>3 DEF IInv, LifeInv
  <2>2. waiter'[m] = waiter[m] /\ entry'[m] = entry[m] /\ req'[m] = req[m] /\ reply'[m] = reply[m]
    BY <1>1, <1>3 DEF Moved
  <2>3. Told(m)'
    BY <2>1, <2>2 DEF Told
  <2> QED
    BY <1>1, <1>3, <2>1, <2>2, <2>3 DEF Moved
<1>4. ASSUME NEW m \in Lifetimes, m # l, m \notin up
      PROVE  Gone(m)'
  BY <1>1, <1>3, <1>4 DEF Gone, Moved, IInv, LifeInv
<1>5. LifeInv'
  <2>1. Agree(row', entry'[l], waiter'[l], published'[l], l) /\ Held(entry'[l], Handlers(l)') /\ Told(l)'
    BY <1>1 DEF Moved
  <2> QED
    BY <1>3, <1>4, <2>1 DEF LifeInv
<1>6. Stands
  BY <1>1, <1>2 DEF Stands, Moved
<1> QED
  BY <1>1, <1>5, <1>6 DEF IInv

\* A step of a lifetime grants nothing to one whose authority has closed, unless it
\* dispatches or answers.
LEMMA Withheld ==
  ASSUME BaseInv, NEW l \in Lifetimes, NEW j, Moved(l, j),
         \A m \in closed : reply'[m] \in Allows => reply[m] \in Allows /\ req'[m] = req[m],
         \A i \in Invokes : invoke[i].life \in closed /\ invoke'[i].pc = "running" =>
           invoke[i].pc = "running"
  PROVE  Ungranted
<1>1. ASSUME NEW m \in closed, Owned(row', m), row'.outcome \in Allows
      PROVE  row.outcome = row'.outcome
  <2>1. CASE m = l
    BY <1>1, <2>1 DEF Moved
  <2>2. CASE m # l
    BY <1>1, <2>2 DEF Moved, RowStep, Owned
  <2> QED
    BY <2>1, <2>2
<1> QED
  BY <1>1 DEF Ungranted

\* A handler that only calls the manager of l.
LEMMA Called ==
  ASSUME IInv, NEW l, NEW S, \A w \in S : Kept(View(l), w, l, Handlers(l)), Calls(l, S)
  PROVE  IInv' /\ Lawful
<1>1. PICK w \in S : Becomes(l, w)
  BY DEF Calls
<1>2. /\ l \in up /\ UNCHANGED <<req, reply, invoke, closed, up, started, now>>
      /\ Kept(View(l), w, l, Handlers(l)) /\ BaseInv /\ LifeInv /\ InvokeInv /\ GrantInv
  BY DEF Calls, IInv
<1>3. l \in Lifetimes /\ Moved(l, Handlers(l))
  BY <1>1, <1>2, Seen, Becoming
<1>4. BaseInv'
  BY <1>2, <1>3 DEF BaseInv, Moved
<1>5. \A m \in Lifetimes : Handlers(m)' = Handlers(m)
  BY <1>2, <1>4, Recounted DEF Holding
<1>6. Told(l)'
  <2>1. Told(l)
    BY <1>2, <1>3 DEF LifeInv
  <2> QED
    BY <1>2, <1>3, <2>1 DEF Told, Moved
<1>7. InvokeInv'
  BY <1>2 DEF InvokeInv
<1>8. LifeInv' /\ Stands
  BY <1>1, <1>2, <1>3, <1>4, <1>5, <1>6, <1>7, Handled DEF BaseInv, IInv
<1>9. GrantInv'
  <2>1. \A g : Uses(g)' = Uses(g)
    BY <1>2 DEF Uses
  <2>2. \A m \in up' : Uses("fallback") # {} /\ Present(entry'[m]) => entry'[m].reused
    <3> SUFFICES ASSUME NEW m \in up', Uses("fallback") # {}, Present(entry'[m])
                 PROVE  entry'[m].reused
      OBVIOUS
    <3>1. m \in up /\ m \in Lifetimes
      BY <1>2, Seen
    <3> QED
      BY <1>2, <1>3, <3>1 DEF Moved, GrantInv
  <2> QED
    BY <1>2, <1>3, <2>1, <2>2, GrantsStand DEF Moved, RowStep, GrantInv
<1>10. Ungranted
  BY <1>2, <1>3, Withheld
<1>11. [Promise!Next]_(Promise!vars)
  <2>1. Ran' = Ran
    BY <1>2 DEF Ran
  <2> QED
    BY <1>2, <1>3, <2>1, Answers DEF BaseInv, Moved
<1> QED
  BY <1>4, <1>7, <1>8, <1>9, <1>10, <1>11 DEF IInv, Lawful

-----------------------------------------------------------------------------
(* The actions that only call the manager.                                 *)

LEMMA ApprovalResolveStep ==
  ASSUME IInv, NEW l, NEW d, ApprovalResolve(l, d)
  PROVE  IInv' /\ Lawful
<1> DEFINE k == Handlers(l)
           R(v) == IF v.result = "found" /\ Open(v.row)
                   THEN IF d \in Allowed \union {"deny"} THEN Answered(v, l, d)
                                                         ELSE ForceDenied(v, l, "denied")
                   ELSE {v}
<1>1. Good(View(l), l, k) /\ now \in 0 .. MaxTime
  BY Seen DEF ApprovalResolve, Calls, IInv
<1> HIDE DEF k
<1>2. ASSUME NEW v \in Lookup(View(l), l), NEW w \in R(v)
      PROVE  Kept(View(l), w, l, k)
  <2>1. Kept(View(l), v, l, k)
    BY <1>1, LookingUp
  <2>2. Good(v, l, k)
    BY <2>1 DEF Kept
  <2>3. Kept(v, w, l, k)
    BY <1>1, <1>2, <2>2, Answering, Denying, KeptSame DEF Denials, Kept
  <2> QED
    BY <1>1, <2>1, <2>3, KeptTrans
<1>3. Calls(l, UNION {R(v) : v \in Lookup(View(l), l)})
  BY DEF ApprovalResolve
<1> HIDE DEF R
<1> QED
  BY <1>2, <1>3, Called DEF k

LEMMA ExecApprovalResolveStep ==
  ASSUME IInv, NEW l, NEW d, ExecApprovalResolve(l, d)
  PROVE  IInv' /\ Lawful
<1> DEFINE k == Handlers(l)
           R(v) == IF Open(v.entry) THEN Answered(v, l, d) ELSE {v}
<1>1. Good(View(l), l, k) /\ now \in 0 .. MaxTime
  BY Seen DEF ExecApprovalResolve, Calls, IInv
<1> HIDE DEF k
<1>2. ASSUME NEW v \in Snapshot(View(l), l), NEW w \in R(v)
      PROVE  Kept(View(l), w, l, k)
  <2>1. Kept(View(l), v, l, k)
    BY <1>1, Snapshotting
  <2>2. Good(v, l, k)
    BY <2>1 DEF Kept
  <2>3. Kept(v, w, l, k)
    BY <1>1, <1>2, <2>2, Answering, KeptSame
  <2> QED
    BY <1>1, <2>1, <2>3, KeptTrans
<1>3. Calls(l, UNION {R(v) : v \in Snapshot(View(l), l)})
  BY DEF ExecApprovalResolve
<1> HIDE DEF R
<1> QED
  BY <1>2, <1>3, Called DEF k

LEMMA WaitDecisionStep ==
  ASSUME IInv, NEW l, WaitDecision(l)
  PROVE  IInv' /\ Lawful
<1> DEFINE k == Handlers(l)
           R(v) == IF Present(v.entry) /\ v.result # "threw"
                   THEN UNION {Snapshot(w, l) : w \in Authorized(v, l)} ELSE {v}
<1>1. Good(View(l), l, k) /\ now \in 0 .. MaxTime
  BY Seen DEF WaitDecision, Calls, IInv
<1> HIDE DEF k
<1>2. ASSUME NEW v \in Snapshot(View(l), l), NEW w \in R(v)
      PROVE  Kept(View(l), w, l, k)
  <2>1. Kept(View(l), v, l, k)
    BY <1>1, Snapshotting
  <2>2. Good(v, l, k)
    BY <2>1 DEF Kept
  <2>3. ASSUME NEW x \in Authorized(v, l), w \in Snapshot(x, l)
        PROVE  Kept(v, w, l, k)
    <3>1. Kept(v, x, l, k)
      BY <1>1, <2>2, Authorizing
    <3>2. Kept(x, w, l, k)
      BY <1>1, <2>3, <3>1, Snapshotting DEF Kept
    <3> QED
      BY <2>2, <3>1, <3>2, KeptTrans
  <2>4. Kept(v, w, l, k)
    BY <1>2, <2>2, <2>3, KeptSame
  <2> QED
    BY <1>1, <2>1, <2>4, KeptTrans
<1>3. Calls(l, UNION {R(v) : v \in Snapshot(View(l), l)})
  BY DEF WaitDecision
<1> HIDE DEF R
<1> QED
  BY <1>2, <1>3, Called DEF k

LEMMA ReplayStep ==
  ASSUME IInv, NEW l, Replay(l)
  PROVE  IInv' /\ Lawful
<1> DEFINE u == [View(l) EXCEPT !.row = ExpireDue(row, now)]
<1>1. /\ Due(row, now)
      /\ Calls(l, {IF row.readable THEN Announced(u, l) ELSE u})
  BY DEF Replay
<1>2. /\ Good(View(l), l, Handlers(l)) /\ now \in 0 .. MaxTime /\ View(l).row = row
      /\ View(l).result = "none"
  BY <1>1, Seen DEF Calls, IInv
<1>3. Kept(View(l), u, l, Handlers(l)) /\ Kept(View(l), Announced(u, l), l, Handlers(l))
  BY <1>1, <1>2, Replaying
<1> HIDE DEF u
<1> QED
  BY <1>1, <1>3, Called

LEMMA CleanupStep ==
  ASSUME IInv, NEW l, Cleanup(l)
  PROVE  IInv' /\ Lawful
<1> DEFINE e == IF entry[l].retained = 0 /\ entry[l].outcome # "corrupt" THEN NoEntry
                ELSE [entry[l] EXCEPT !.cleanup = Never]
           u == [View(l) EXCEPT !.entry = e]
<1>1. entry[l].cleanup <= now /\ Calls(l, {u})
  BY DEF Cleanup, View
<1>2. /\ Good(View(l), l, Handlers(l)) /\ now \in 0 .. MaxTime /\ View(l).entry = entry[l]
  BY <1>1, Seen DEF Calls, IInv
<1>3. Kept(View(l), u, l, Handlers(l))
  BY <1>1, <1>2, Cleaning
<1> HIDE DEF u
<1> QED
  BY <1>1, <1>3, Called

LEMMA PlainSteps ==
  ASSUME IInv, NEW l, ApprovalGet(l) \/ Expire(l) \/ Fence(l) \/ Reads(l)
  PROVE  IInv' /\ Lawful
<1>1. l \in up
  BY DEF ApprovalGet, Expire, Fence, Reads, Calls
<1>2. Good(View(l), l, Handlers(l)) /\ now \in 0 .. MaxTime
  BY <1>1, Seen DEF IInv
<1>3. \A w \in Lookup(View(l), l) : Kept(View(l), w, l, Handlers(l))
  BY <1>2, LookingUp
<1>4. \A w \in ForceDenied(View(l), l, "expired") : Kept(View(l), w, l, Handlers(l))
  BY <1>2, Denying DEF Denials, Kept
<1>5. \A w \in Cancelled(View(l), l) : Kept(View(l), w, l, Handlers(l))
  BY <1>2, Cancelling
<1>6. \A w \in Snapshot(View(l), l) : Kept(View(l), w, l, Handlers(l))
  BY <1>2, Snapshotting
<1> QED
  BY <1>3, <1>4, <1>5, <1>6, Called DEF ApprovalGet, Expire, Fence, Reads

-----------------------------------------------------------------------------
(* The requester's handler.                                                *)

\* A step of the handler, which calls its manager and may give the binding back.
LEMMA Requesting ==
  ASSUME IInv, NEW l \in up, NEW w, NEW j, Kept(View(l), w, l, j), Becomes(l, w),
         UNCHANGED <<invoke, closed, up, started, now>>,
         BaseInv => BaseInv', req[l] \in Waiting,
         j = IF req'[l] \in Waiting THEN Handlers(l) ELSE Handlers(l) - 1,
         \A m \in Lifetimes \ {l} : req'[m] = req[m] /\ reply'[m] = reply[m],
         Told(l)',
         l \in closed /\ reply'[l] \in Allows => reply[l] \in Allows /\ req'[l] = req[l]
  PROVE  IInv' /\ Lawful
<1>1. BaseInv /\ LifeInv /\ InvokeInv /\ GrantInv
  BY DEF IInv
<1>2. l \in Lifetimes /\ Moved(l, j)
  BY <1>1, Seen, Becoming
<1>3. BaseInv'
  BY <1>1
<1>4. \A m \in Lifetimes : Holding(m)' = Holding(m)
  BY DEF Holding
<1>5. \A m \in Lifetimes \ {l} : Handlers(m)' = Handlers(m)
  BY <1>1, <1>3, <1>4, Recounted
<1>6. j = Handlers(l)'
  BY <1>1, <1>2, <1>3, <1>4, Recounted
<1>7. InvokeInv'
  BY <1>1 DEF InvokeInv
<1>8. LifeInv' /\ Stands
  BY <1>1, <1>3, <1>5, <1>6, <1>7, Handled DEF BaseInv
<1>9. GrantInv'
  <2>1. \A g : Uses(g)' = Uses(g)
    BY DEF Uses
  <2>2. \A m \in up' : Uses("fallback") # {} /\ Present(entry'[m]) => entry'[m].reused
    <3> SUFFICES ASSUME NEW m \in up', Uses("fallback") # {}, Present(entry'[m])
                 PROVE  entry'[m].reused
      OBVIOUS
    <3>1. m \in up /\ m \in Lifetimes
      BY <1>1, Seen
    <3> QED
      BY <1>1, <1>2, <3>1 DEF Moved, GrantInv
  <2> QED
    BY <1>1, <1>2, <2>1, <2>2, GrantsStand DEF Moved, RowStep, GrantInv
<1>10. Ungranted
  <2>1. \A m \in closed : reply'[m] \in Allows => reply[m] \in Allows /\ req'[m] = req[m]
    BY <1>1 DEF BaseInv
  <2> QED
    BY <1>1, <1>2, <2>1, Withheld
<1>11. [Promise!Next]_(Promise!vars)
  <2>1. Ran' = Ran
    BY DEF Ran
  <2> QED
    BY <1>1, <1>2, <2>1, Answers DEF BaseInv, Moved
<1> QED
  BY <1>3, <1>7, <1>8, <1>9, <1>10, <1>11 DEF IInv, Lawful

LEMMA RoutedStep ==
  ASSUME IInv, NEW l, Routed(l)
  PROVE  IInv' /\ Lawful
<1>1. /\ l \in up /\ req[l] = "delivering" /\ BaseInv /\ LifeInv
      /\ UNCHANGED <<row, entry, waiter, published, reply, invoke, closed, up, started, now>>
      /\ req' = [req EXCEPT ![l] = "deciding"]
  BY DEF Routed, IInv
<1>2. /\ l \in Lifetimes /\ Good(View(l), l, Handlers(l))
      /\ View(l).row = row /\ View(l).entry = entry[l] /\ View(l).waiter = waiter[l]
      /\ View(l).published = published[l]
  BY <1>1, Seen
<1>3. Kept(View(l), View(l), l, Handlers(l))
  BY <1>2, KeptSame
<1>4. Becomes(l, View(l))
  BY <1>1, <1>2 DEF Becomes, BaseInv
<1>5. BaseInv'
  BY <1>1, <1>2 DEF BaseInv
<1>6. /\ req'[l] = "deciding" /\ waiter'[l] = waiter[l] /\ reply'[l] = reply[l]
      /\ \A m \in Lifetimes \ {l} : req'[m] = req[m] /\ reply'[m] = reply[m]
  BY <1>1, <1>2 DEF BaseInv
<1>7. Told(l)' /\ reply[l] = "none"
  BY <1>1, <1>2, <1>6 DEF LifeInv, Told
<1> QED
  BY <1>1, <1>2, <1>3, <1>4, <1>5, <1>6, <1>7, Requesting, Facts DEF Waiting

\* The handler answers, and gives the binding back.
LEMMA Replying ==
  ASSUME IInv, NEW l \in up, req[l] \in Waiting, NEW v, Kept(View(l), v, l, Handlers(l)),
         Becomes(l, Released(v)),
         NEW d \in {"none", "deny", "null", "error"} \union Allows, Replies(l, d),
         UNCHANGED <<invoke, closed, up, started, now>>,
         v.waiter # "waiting",
         d \in Allows => d = v.waiter /\ l \notin closed,
         v.waiter \in Allows => d \in {v.waiter, "error"} \/ l \in closed
  PROVE  IInv' /\ Lawful
<1>1. BaseInv /\ LifeInv /\ l \in Lifetimes /\ Handlers(l) \in Nat /\ now \in 0 .. MaxTime
  BY Seen DEF IInv
<1>2. Handlers(l) # 0
  BY <1>1, Counted DEF Waiting
<1>3. /\ Kept(v, Released(v), l, Handlers(l) - 1) /\ Released(v).waiter = v.waiter
      /\ Good(View(l), l, Handlers(l))
  BY <1>1, <1>2, Seen, Releasing DEF Kept
<1>4. Kept(View(l), Released(v), l, Handlers(l) - 1)
  BY <1>3, KeptTrans
<1>5. Moved(l, Handlers(l) - 1)
  BY <1>1, <1>4, Becoming
<1>6. /\ req'[l] = "done" /\ reply'[l] = d /\ waiter'[l] = v.waiter
      /\ \A m \in Lifetimes \ {l} : req'[m] = req[m] /\ reply'[m] = reply[m]
  BY <1>1, <1>3 DEF Replies, Becomes, BaseInv
<1>7. BaseInv'
  BY <1>1, <1>5 DEF BaseInv, Moved, Replies
<1>8. Told(l)'
  <2>1. waiter[l] # "none"
    BY <1>1 DEF LifeInv, Told, Waiting
  <2> QED
    BY <1>5, <1>6, <2>1, Facts DEF Told, Moved
<1> QED
  BY <1>1, <1>4, <1>6, <1>7, <1>8, Requesting DEF Waiting

LEMMA NoRouteStep ==
  ASSUME IInv, NEW l, NoRoute(l)
  PROVE  IInv' /\ Lawful
<1>1. /\ l \in up /\ req[l] = "delivering" /\ BaseInv /\ LifeInv
      /\ UNCHANGED <<invoke, closed, up, started, now>>
  BY DEF NoRoute, IInv
<1>2. /\ l \in Lifetimes /\ Good(View(l), l, Handlers(l)) /\ now \in 0 .. MaxTime
  BY <1>1, Seen
<1>3. PICK v \in ForceDenied(View(l), l, "no-route") :
        IF v.result \in {"denied", "threw"}
        THEN /\ Becomes(l, Released(v))
             /\ Replies(l, IF v.result = "threw" THEN "error" ELSE "null")
        ELSE /\ Becomes(l, v)
             /\ req' = [req EXCEPT ![l] = "deciding"]
             /\ UNCHANGED reply
  BY DEF NoRoute
<1>4. /\ Kept(View(l), v, l, Handlers(l))
      /\ v.result = "threw" => v.waiter # "waiting"
      /\ v.result = "denied" => v.waiter # "waiting" /\ v.row.outcome \notin Allows
  BY <1>2, Denying DEF Denials, Kept
<1>5. CASE v.result \in {"denied", "threw"}
  <2> DEFINE d == IF v.result = "threw" THEN "error" ELSE "null"
  <2>1. v.result = "denied" => v.waiter \notin Allows
    <3>1. v \in ViewType /\ Agree(v.row, v.entry, v.waiter, v.published, l)
      BY <1>4 DEF Kept, Good
    <3>2. "none" \notin Allows
      BY Facts
    <3> QED
      BY <1>4, <3>1, <3>2, Agreed DEF ViewType
  <2>2. Replies(l, d) /\ Becomes(l, Released(v)) /\ d \notin Allows
        /\ (v.result = "threw" => d = "error") /\ d \in {"error", "null"}
    BY <1>3, <1>5, Facts
  <2> HIDE DEF d
  <2> QED
    BY <1>1, <1>4, <1>5, <2>1, <2>2, Replying DEF Waiting
<1>6. CASE v.result \notin {"denied", "threw"}
  <2>1. Becomes(l, v) /\ req' = [req EXCEPT ![l] = "deciding"] /\ UNCHANGED reply
    BY <1>3, <1>6
  <2>2. Moved(l, Handlers(l))
    BY <1>1, <1>4, <2>1, Becoming
  <2>3. BaseInv'
    BY <1>1, <2>1, <2>2 DEF BaseInv, Moved
  <2>4. /\ req'[l] = "deciding" /\ reply'[l] = reply[l]
        /\ \A m \in Lifetimes \ {l} : req'[m] = req[m] /\ reply'[m] = reply[m]
    BY <1>1, <1>2, <2>1 DEF BaseInv
  <2>5. Told(l)' /\ reply[l] = "none"
    BY <1>1, <1>2, <2>2, <2>4 DEF LifeInv, Told, Moved
  <2> QED
    BY <1>1, <1>4, <2>1, <2>3, <2>4, <2>5, Requesting, Facts DEF Waiting
<1> QED
  BY <1>5, <1>6

\* What a decision that is projected onto the binding tells.
LEMMA Projecting ==
  ASSUME IInv, NEW l \in up, req[l] \in {"deciding", "following"}, waiter[l] # "waiting",
         NEW d \in {"deny", "null", "error"} \union Allows,
         d \in Allows => d = waiter[l],
         NEW v \in Asked(View(l), l, d)
  PROVE  /\ Kept(View(l), v, l, Handlers(l)) /\ v.waiter = waiter[l]
         /\ Projected(v, l, d) \in {d, "null", "error"}
         /\ Projected(v, l, d) \in Allows => Projected(v, l, d) = waiter[l] /\ l \notin closed
         /\ d \in Allows => Projected(v, l, d) \in {d, "error"} \/ l \in closed
         /\ d \notin Allows => Projected(v, l, d) = d
<1>1. /\ l \in Lifetimes /\ Good(View(l), l, Handlers(l)) /\ now \in 0 .. MaxTime
      /\ View(l).entry = entry[l] /\ View(l).waiter = waiter[l] /\ View(l).result = "none"
      /\ Handlers(l) \in Nat
  BY Seen DEF IInv
<1>2. Handlers(l) # 0
  BY <1>1, Counted DEF Waiting
<1>3. Kept(View(l), v, l, Handlers(l))
  BY <1>1, Authorizing, KeptSame DEF Asked
<1>4. waiter[l] \notin {"none", "waiting"} /\ v.waiter = waiter[l]
  BY <1>1, <1>3 DEF IInv, LifeInv, Told, Kept, ViewStep
<1>5. Present(v.entry)
  <2>1. entry[l].retained = Handlers(l) /\ Present(entry[l])
    BY <1>1, <1>2 DEF IInv, LifeInv, Held, NoEntry
  <2> QED
    BY <1>1, <1>2, <1>3, <2>1 DEF Kept, ViewStep
<1>6. Active(v, l) <=> l \notin closed
  BY <1>5 DEF Active, Bound
<1>7. d \notin Allows => v = View(l)
  BY DEF Asked
<1> QED
  BY <1>1, <1>3, <1>4, <1>6, <1>7, Facts DEF Projected

LEMMA DecidedStep ==
  ASSUME IInv, NEW l, Decided(l)
  PROVE  IInv' /\ Lawful
<1>1. /\ l \in up /\ req[l] = "deciding" /\ waiter[l] # "waiting" /\ BaseInv /\ LifeInv
      /\ UNCHANGED <<invoke, closed, up, started, now>>
  BY DEF Decided, IInv
<1>2. l \in Lifetimes
  BY <1>1, Seen
<1>3. waiter[l] \in {"deny", "null", "error"} \union Allows
  BY <1>1, <1>2 DEF BaseInv, LifeInv, Told, WaiterType
<1>4. PICK v \in Asked(View(l), l, waiter[l]) :
        IF Projected(v, l, waiter[l]) = "error"
        THEN Becomes(l, Released(v)) /\ Replies(l, Projected(v, l, waiter[l]))
        ELSE /\ Becomes(l, v)
             /\ req' = [req EXCEPT ![l] = "following"]
             /\ reply' = [reply EXCEPT ![l] = Projected(v, l, waiter[l])]
  BY DEF Decided
<1> DEFINE d == Projected(v, l, waiter[l])
<1>5. /\ Kept(View(l), v, l, Handlers(l)) /\ v.waiter = waiter[l]
      /\ d \in {waiter[l], "null", "error"}
      /\ d \in Allows => d = waiter[l] /\ l \notin closed
      /\ waiter[l] \in Allows => d \in {waiter[l], "error"} \/ l \in closed
  BY <1>1, <1>3, Projecting
<1>6. d \in {"none", "deny", "null", "error"} \union Allows
  BY <1>3, <1>5
<1>7. CASE d = "error"
  BY <1>1, <1>4, <1>5, <1>6, <1>7, Replying, Facts DEF Waiting
<1>8. CASE d # "error"
  <2>1. /\ Becomes(l, v) /\ req' = [req EXCEPT ![l] = "following"]
        /\ reply' = [reply EXCEPT ![l] = d]
    BY <1>4, <1>8
  <2> HIDE DEF d
  <2>2. Moved(l, Handlers(l))
    BY <1>1, <1>5, <2>1, Becoming
  <2>3. BaseInv'
    BY <1>1, <1>3, <1>5, <2>1, <2>2 DEF BaseInv, Moved
  <2>4. /\ req'[l] = "following" /\ reply'[l] = d
        /\ \A m \in Lifetimes \ {l} : req'[m] = req[m] /\ reply'[m] = reply[m]
    BY <1>1, <1>2, <2>1 DEF BaseInv
  <2>5. waiter[l] # "none"
    BY <1>1, <1>2 DEF LifeInv, Told
  <2>6. Told(l)'
    BY <1>1, <1>5, <2>2, <2>4, <2>5 DEF Told, Moved
  <2> QED
    BY <1>1, <1>5, <2>1, <2>3, <2>4, <2>6, Requesting DEF Waiting
<1> QED
  BY <1>7, <1>8

LEMMA RespondsStep ==
  ASSUME IInv, NEW l, Responds(l)
  PROVE  IInv' /\ Lawful
<1>1. /\ l \in up /\ req[l] = "following" /\ BaseInv /\ LifeInv
      /\ UNCHANGED <<invoke, closed, up, started, now>>
  BY DEF Responds, IInv
<1>2. l \in Lifetimes
  BY <1>1, Seen
<1>3. PICK v \in Asked(View(l), l, reply[l]) :
        Becomes(l, Released(v)) /\ Replies(l, Projected(v, l, reply[l]))
  BY DEF Responds
<1>4. Told(l) /\ waiter[l] # "waiting" /\ (reply[l] \in Allows => reply[l] = waiter[l])
      /\ (waiter[l] \in Allows => reply[l] \in {waiter[l], "error"} \/ l \in closed)
  BY <1>1, <1>2 DEF LifeInv, Told
<1> DEFINE d == Projected(v, l, reply[l])
<1>5. CASE reply[l] = "none"
  <2>1. v = View(l) /\ d = "none"
    BY <1>1, <1>5, Seen, Facts DEF Asked, Projected
  <2>2. Kept(View(l), v, l, Handlers(l)) /\ v.waiter = waiter[l]
    BY <1>1, <2>1, Seen, KeptSame
  <2>3. Becomes(l, Released(v)) /\ Replies(l, "none")
    BY <1>3, <2>1
  <2> HIDE DEF d
  <2> QED
    BY <1>1, <1>4, <1>5, <2>2, <2>3, Replying, Facts DEF Waiting
<1>6. CASE reply[l] # "none"
  <2>1. reply[l] \in {"deny", "null", "error"} \union Allows
    BY <1>1, <1>2, <1>6 DEF BaseInv
  <2>2. /\ Kept(View(l), v, l, Handlers(l)) /\ v.waiter = waiter[l]
        /\ d \in {reply[l], "null", "error"}
        /\ d \in Allows => d = waiter[l] /\ l \notin closed
        /\ reply[l] \in Allows => d \in {reply[l], "error"} \/ l \in closed
        /\ reply[l] \notin Allows => d = reply[l]
    BY <1>1, <1>4, <2>1, Projecting
  <2>3. d \in {"none", "deny", "null", "error"} \union Allows
    BY <2>1, <2>2
  <2>4. Becomes(l, Released(v)) /\ Replies(l, d)
    BY <1>3
  <2>5. waiter[l] \in Allows => d \in {waiter[l], "error"} \/ l \in closed
    BY <1>4, <2>2, Facts
  <2> HIDE DEF d
  <2> QED
    BY <1>1, <1>4, <2>2, <2>3, <2>4, <2>5, Replying DEF Waiting
<1> QED
  BY <1>5, <1>6

\* The authority of the requester closes.
LEMMA CloseAuthorityStep ==
  ASSUME IInv, NEW l, CloseAuthority(l)
  PROVE  IInv' /\ Lawful
<1>1. /\ l \in up /\ closed' = closed \union {l} /\ UNCHANGED <<req, reply, invoke, up, started, now>>
      /\ BaseInv /\ LifeInv /\ InvokeInv /\ GrantInv
  BY DEF CloseAuthority, IInv
<1>2. l \in Lifetimes /\ Good(View(l), l, Handlers(l)) /\ now \in 0 .. MaxTime
  BY <1>1, Seen
<1>3. PICK w \in Cancelled(View(l), l) : Becomes(l, w)
  BY DEF CloseAuthority
<1>4. Kept(View(l), w, l, Handlers(l))
  BY <1>2, Cancelling
<1>5. Moved(l, Handlers(l))
  BY <1>1, <1>3, <1>4, Becoming
<1>6. BaseInv'
  BY <1>1, <1>2, <1>5 DEF BaseInv, Moved
<1>7. \A m \in Lifetimes : Handlers(m)' = Handlers(m)
  BY <1>1, <1>6, Recounted DEF Holding
<1>8. Told(l)'
  BY <1>1, <1>2, <1>5 DEF Told, Moved, LifeInv
<1>9. InvokeInv'
  BY <1>1 DEF InvokeInv
<1>10. LifeInv' /\ Stands
  BY <1>1, <1>2, <1>3, <1>4, <1>6, <1>7, <1>8, <1>9, Handled DEF BaseInv
<1>11. GrantInv'
  <2>1. \A g : Uses(g)' = Uses(g)
    BY <1>1 DEF Uses
  <2>2. \A m \in up' : Uses("fallback") # {} /\ Present(entry'[m]) => entry'[m].reused
    <3> SUFFICES ASSUME NEW m \in up', Uses("fallback") # {}, Present(entry'[m])
                 PROVE  entry'[m].reused
      OBVIOUS
    <3>1. m \in up /\ m \in Lifetimes
      BY <1>1, Seen
    <3> QED
      BY <1>1, <1>5, <3>1 DEF Moved, GrantInv
  <2> QED
    BY <1>1, <1>5, <2>1, <2>2, GrantsStand DEF Moved, RowStep, GrantInv
<1>12. Ungranted
  BY <1>1, <1>2, <1>5, Withheld
<1>13. [Promise!Next]_(Promise!vars)
  <2>1. Ran' = Ran
    BY <1>1 DEF Ran
  <2> QED
    BY <1>1, <1>5, <2>1, Answers DEF BaseInv, Moved
<1> QED
  BY <1>6, <1>9, <1>10, <1>11, <1>12, <1>13 DEF IInv, Lawful

-----------------------------------------------------------------------------
(* Redeeming the answer.                                                   *)

\* A step of a call that holds, takes or gives back a binding of l.
LEMMA Redeeming ==
  ASSUME IInv, NEW l \in up, NEW w, NEW j, Kept(View(l), w, l, j), Becomes(l, w),
         UNCHANGED <<req, reply, closed, up, started, now>>,
         BaseInv => BaseInv', j = Handlers(l)',
         \A m \in Lifetimes \ {l} : Handlers(m)' = Handlers(m), InvokeInv',
         \A i \in Invokes : invoke[i].life \in closed /\ invoke'[i].pc = "running" =>
           invoke[i].pc = "running"
  PROVE  BaseInv' /\ LifeInv' /\ InvokeInv' /\ Stands /\ Ungranted /\ Moved(l, j)
<1>1. BaseInv /\ LifeInv
  BY DEF IInv
<1>2. l \in Lifetimes /\ Moved(l, j)
  BY <1>1, Seen, Becoming
<1>3. Told(l)'
  <2>1. Told(l)
    BY <1>1, <1>2 DEF LifeInv
  <2> QED
    BY <1>2, <2>1 DEF Told, Moved
<1>4. BaseInv' /\ LifeInv' /\ InvokeInv' /\ Stands
  BY <1>1, <1>3, Handled DEF BaseInv
<1>5. Ungranted
  BY <1>1, <1>2, Withheld
<1> QED
  BY <1>2, <1>4, <1>5

\* How a call in flight goes on.
LEMMA Ending ==
  ASSUME BaseInv, BaseInv', InvokeInv, GrantInv, NEW i \in Invokes,
         NEW l, invoke[i].life = l, invoke[i].pc \in {"forwarded", "running"},
         NEW p \in {"running", "refused", "ran"}, Ends(i, p), UNCHANGED <<req, up>>
  PROVE  /\ \A m \in Lifetimes \ {l} : Handlers(m)' = Handlers(m)
         /\ p = "running" => Handlers(l)' = Handlers(l)
         /\ p # "running" => /\ Handlers(l)' = Handlers(l) - 1
                             /\ Handlers(l) # 0
         /\ InvokeInv'
         /\ \A g : Uses(g)' \subseteq Uses(g)
         /\ \A m \in Invokes : invoke'[m].pc = "idle" <=> invoke'[m].grant = "none"
         /\ \A m \in Invokes \ {i} : invoke'[m] = invoke[m]
         /\ invoke'[i].pc = p
<1>1. /\ l \in Lifetimes
      /\ invoke'[i].pc = p /\ invoke'[i].life = l /\ invoke'[i].grant = invoke[i].grant
      /\ \A m \in Invokes \ {i} : invoke'[m] = invoke[m]
  BY DEF BaseInv, Ends
<1>2. \A m \in Lifetimes \ {l} : Holding(m)' = Holding(m)
  BY <1>1 DEF Holding
<1>3. p = "running" => Holding(l)' = Holding(l)
  BY <1>1 DEF Holding
<1>4. p # "running" => i \in Holding(l) /\ Holding(l)' = Holding(l) \ {i}
  BY <1>1 DEF Holding
<1>5. \A m \in Lifetimes \ {l} : Handlers(m)' = Handlers(m)
  BY <1>2, Recounted
<1>6. p = "running" => Handlers(l)' = Handlers(l)
  BY <1>1, <1>3, Recounted
<1>7. p # "running" => Handlers(l)' = Handlers(l) - 1 /\ Handlers(l) # 0
  BY <1>1, <1>4, Recounted
<1>8. InvokeInv'
  BY <1>1 DEF InvokeInv
<1>9. \A g : Uses(g)' \subseteq Uses(g)
  BY <1>1 DEF Uses
<1>10. \A m \in Invokes : invoke'[m].pc = "idle" <=> invoke'[m].grant = "none"
  BY <1>1 DEF GrantInv
<1> QED
  BY <1>1, <1>5, <1>6, <1>7, <1>8, <1>9, <1>10

\* ... and what it leaves of the grants.
LEMMA GrantsLeft ==
  ASSUME IInv, NEW l \in Lifetimes, NEW j, Moved(l, j), UNCHANGED up,
         \A g : Uses(g)' \subseteq Uses(g),
         \A m \in Invokes : invoke'[m].pc = "idle" <=> invoke'[m].grant = "none"
  PROVE  GrantInv'
<1>1. \A m \in up' : Uses("fallback") # {} /\ Present(entry'[m]) => entry'[m].reused
  <2> SUFFICES ASSUME NEW m \in up', Uses("fallback") # {}, Present(entry'[m])
               PROVE  entry'[m].reused
    OBVIOUS
  <2>1. m \in up /\ m \in Lifetimes
    BY Seen DEF IInv
  <2> QED
    BY <2>1 DEF Moved, IInv, GrantInv
<1> QED
  BY <1>1, GrantsStand DEF Moved, RowStep, IInv

\* A call that ends gives the binding back.
LEMMA EndingStep ==
  ASSUME IInv, NEW i \in Invokes, NEW l, invoke[i].life = l,
         invoke[i].pc \in {"forwarded", "running"},
         NEW p \in {"refused", "ran"}, Ends(i, p), UNCHANGED <<req, reply, closed, up, started, now>>,
         NEW v, Kept(View(l), v, l, Handlers(l)), Becomes(l, Released(v)),
         p = "ran" <=> invoke[i].pc = "running"
  PROVE  IInv' /\ Lawful
<1> DEFINE k == Handlers(l)
<1>1. BaseInv /\ LifeInv /\ InvokeInv /\ GrantInv /\ l \in up
  BY DEF IInv, InvokeInv
<1>2. /\ l \in Lifetimes /\ Good(View(l), l, k) /\ now \in 0 .. MaxTime /\ k \in Nat
  BY <1>1, Seen
<1>3. k # 0
  <2>1. i \in Holding(l)
    BY DEF Holding
  <2>2. Cardinality(Holding(l)) # 0
    BY <2>1, Counted, FS_EmptySet
  <2> QED
    BY <2>2, Counted
<1>4. Kept(View(l), Released(v), l, k - 1)
  <2>1. Kept(v, Released(v), l, k - 1)
    BY <1>2, <1>3, Releasing DEF Kept
  <2> QED
    BY <1>2, <2>1, KeptTrans
<1>5. Moved(l, k - 1)
  BY <1>1, <1>4, Becoming
<1>6. BaseInv'
  <2>1. invoke' \in [Invokes -> [pc : {"idle", "forwarded", "running", "refused", "ran"},
                                 life : Lifetimes, grant : Grants \union {"none"}]]
    BY <1>1 DEF BaseInv, Ends
  <2> QED
    BY <1>1, <1>5, <2>1 DEF BaseInv, Moved
<1>7. /\ \A m \in Lifetimes \ {l} : Handlers(m)' = Handlers(m)
      /\ Handlers(l)' = k - 1
      /\ InvokeInv'
      /\ \A g : Uses(g)' \subseteq Uses(g)
      /\ \A m \in Invokes : invoke'[m].pc = "idle" <=> invoke'[m].grant = "none"
      /\ \A m \in Invokes \ {i} : invoke'[m] = invoke[m]
      /\ invoke'[i].pc = p
  BY <1>1, <1>6, Ending
<1>8. LifeInv' /\ Stands /\ Ungranted
  <2>1. \A m \in Invokes : invoke[m].life \in closed /\ invoke'[m].pc = "running" =>
          invoke[m].pc = "running"
    BY <1>7
  <2>2. Handlers(l)' = k - 1
    BY <1>7
  <2> HIDE DEF k
  <2> QED
    BY <1>1, <1>4, <1>6, <1>7, <2>1, <2>2, Redeeming
<1>9. GrantInv'
  BY <1>2, <1>5, <1>7, GrantsLeft
<1>10. [Promise!Next]_(Promise!vars)
  <2>1. Ran' = Ran
    BY <1>7 DEF Ran
  <2> QED
    BY <1>1, <1>5, <1>6, <2>1, Answers DEF BaseInv, Moved
<1> QED
  BY <1>6, <1>7, <1>8, <1>9, <1>10 DEF IInv, Lawful

LEMMA RefuseStep ==
  ASSUME IInv, NEW i \in Invokes, Refuse(i) \/ Returns(i)
  PROVE  IInv' /\ Lawful
<1>1. /\ invoke[i].pc \in {"forwarded", "running"} /\ UNCHANGED <<req, reply, closed, up, started, now>>
      /\ Becomes(invoke[i].life, Released(View(invoke[i].life)))
  BY DEF Refuse, Returns
<1>2. PICK l \in up : invoke[i].life = l
  BY <1>1 DEF IInv, InvokeInv
<1>3. Kept(View(l), View(l), l, Handlers(l))
  BY Seen, KeptSame DEF IInv
<1>4. CASE Refuse(i)
  BY <1>1, <1>2, <1>3, <1>4, EndingStep DEF Refuse
<1>5. CASE Returns(i)
  BY <1>1, <1>2, <1>3, <1>5, EndingStep DEF Returns
<1> QED
  BY <1>4, <1>5

\* A dispatch runs the command under the answer of the row, and if that is used up
\* by a run it is the first.
LEMMA DispatchStep ==
  ASSUME IInv, NEW i \in Invokes, Dispatch(i)
  PROVE  IInv' /\ Lawful
<1>1. /\ invoke[i].pc = "forwarded" /\ UNCHANGED <<req, reply, closed, up, started, now>>
      /\ BaseInv /\ LifeInv /\ InvokeInv /\ GrantInv
  BY DEF Dispatch, IInv
<1>2. PICK l \in up : invoke[i].life = l
  BY <1>1 DEF InvokeInv
<1>3. /\ l \in Lifetimes /\ Good(View(l), l, Handlers(l)) /\ now \in 0 .. MaxTime
      /\ View(l).row = row
  BY <1>1, <1>2, Seen
<1>4. PICK v \in Authorized(View(l), l) :
        IF Active(v, l) THEN Becomes(l, v) /\ Ends(i, "running")
                        ELSE Becomes(l, Released(v)) /\ Ends(i, "refused")
  BY <1>2 DEF Dispatch
<1>5. Kept(View(l), v, l, Handlers(l))
  BY <1>3, Authorizing
<1>6. CASE ~Active(v, l)
  BY <1>1, <1>2, <1>4, <1>5, <1>6, EndingStep
<1>7. CASE Active(v, l)
  <2>1. l \notin closed
    BY <1>7 DEF Active, Bound
  <2>2. v = View(l) /\ Becomes(l, v) /\ Ends(i, "running")
    BY <1>4, <1>7, <2>1 DEF Authorized, Bound
  <2>3. Moved(l, Handlers(l))
    BY <1>1, <1>5, <2>2, Becoming
  <2>4. BaseInv'
    <3>1. invoke' \in [Invokes -> [pc : {"idle", "forwarded", "running", "refused", "ran"},
                                   life : Lifetimes, grant : Grants \union {"none"}]]
      BY <1>1, <2>2 DEF BaseInv, Ends
    <3> QED
      BY <1>1, <2>3, <3>1 DEF BaseInv, Moved
  <2>5. /\ \A m \in Lifetimes \ {l} : Handlers(m)' = Handlers(m)
        /\ Handlers(l)' = Handlers(l)
        /\ InvokeInv'
        /\ \A g : Uses(g)' \subseteq Uses(g)
        /\ \A m \in Invokes : invoke'[m].pc = "idle" <=> invoke'[m].grant = "none"
        /\ \A m \in Invokes \ {i} : invoke'[m] = invoke[m]
        /\ invoke'[i].pc = "running"
    BY <1>1, <1>2, <2>2, <2>4, Ending
  <2>6. LifeInv' /\ Stands /\ Ungranted
    <3>1. \A m \in Invokes : invoke[m].life \in closed /\ invoke'[m].pc = "running" =>
            invoke[m].pc = "running"
      BY <1>2, <2>1, <2>5
    <3> QED
      BY <1>1, <1>2, <1>5, <2>2, <2>4, <2>5, <3>1, Redeeming
  <2>7. GrantInv'
    BY <1>1, <1>3, <2>3, <2>5, GrantsLeft
  <2>8. [Promise!Next]_(Promise!vars)
    <3>1. row' = row
      BY <1>3, <2>2 DEF Becomes
    <3>2. Ran' = Ran \union {i} /\ i \notin Ran
      BY <1>1, <2>5 DEF Ran
    <3>3. IsFiniteSet(Ran)
      BY ApprovalsAssumption, FS_Subset DEF Ran
    <3>4. Cardinality(Ran)' = Cardinality(Ran) + 1
      BY <3>2, <3>3, FS_AddElement
    <3>5. /\ invoke[i].grant \in Grants /\ i \in Uses(invoke[i].grant)
          /\ \A m \in Ran : invoke[m].grant \in Grants /\ m \in Uses(invoke[m].grant)
      BY <1>1 DEF BaseInv, GrantInv, Uses, Ran
    <3>6. CASE invoke[i].grant = "allow-always"
      <4>1. row.outcome = "allow-always"
        BY <1>1, <3>5, <3>6, Facts DEF GrantInv
      <4> QED
        BY <3>1, <3>4, <4>1, Facts DEF Promise!Next, Promise!Run
    <3>7. CASE invoke[i].grant = "allow-once"
      <4>1. row.outcome = "allow-once"
        BY <1>1, <3>5, <3>7, Facts DEF GrantInv
      <4>2. \A m \in Ran : invoke[m].grant = "allow-once"
        BY <1>1, <3>5, <4>1, Facts DEF GrantInv, Grants
      <4>3. Ran = {}
        BY <1>1, <3>2, <3>5, <3>7, <4>2 DEF GrantInv
      <4>4. Cardinality(Ran) = 0
        BY <4>3, FS_EmptySet
      <4> QED
        BY <3>1, <3>4, <4>1, <4>4, Facts DEF Promise!Next, Promise!Run
    <3>8. CASE invoke[i].grant = "fallback"
      <4>1. row.outcome \in {"expired", "no-route"}
        BY <1>1, <3>5, <3>8 DEF GrantInv
      <4>2. \A m \in Ran : invoke[m].grant = "fallback"
        BY <1>1, <3>5, <4>1, Facts DEF GrantInv, Grants
      <4>3. Ran = {}
        BY <1>1, <3>2, <3>5, <3>8, <4>2 DEF GrantInv
      <4>4. Cardinality(Ran) = 0
        BY <4>3, FS_EmptySet
      <4> QED
        BY <3>1, <3>4, <4>1, <4>4, Facts DEF Promise!Next, Promise!Run
    <3> QED
      BY <3>5, <3>6, <3>7, <3>8, Facts DEF Grants
  <2> QED
    BY <2>4, <2>5, <2>6, <2>7, <2>8 DEF IInv, Lawful
<1> QED
  BY <1>6, <1>7

\* A call is let in by the answer, and takes the binding.
LEMMA ForwardStep ==
  ASSUME IInv, NEW i \in Invokes, NEW l, NEW grant \in Grants, NEW expired \in BOOLEAN,
         Forward(i, l, grant, expired)
  PROVE  IInv' /\ Lawful
<1>1. /\ l \in up /\ invoke[i].pc = "idle" /\ UNCHANGED <<req, reply, closed, up, started, now>>
      /\ BaseInv /\ LifeInv /\ InvokeInv /\ GrantInv
  BY DEF Forward, IInv
<1> DEFINE k == Handlers(l)
<1>2. /\ l \in Lifetimes /\ Good(View(l), l, k) /\ now \in 0 .. MaxTime
      /\ View(l).row = row /\ View(l).entry = entry[l] /\ k \in Nat
  BY <1>1, Seen
<1> DEFINE Lets(v) ==
        IF expired \/ ~Present(Retained(v.entry))
        THEN /\ Becomes(l, IF expired THEN v ELSE [v EXCEPT !.entry = Retained(v.entry)])
             /\ invoke' = [invoke EXCEPT ![i] = [pc |-> "refused", life |-> l, grant |-> grant]]
        ELSE /\ Becomes(l, [v EXCEPT !.entry = Retained(v.entry)])
             /\ invoke' = [invoke EXCEPT ![i] = [pc |-> "forwarded", life |-> l, grant |-> grant]]
<1>3. PICK w \in Snapshot(View(l), l) : \E v \in Admitted(w, l, grant) : Lets(v)
  BY DEF Forward
<1>4. PICK v \in Admitted(w, l, grant) : Lets(v)
  BY <1>3
<1> DEFINE x == [v EXCEPT !.entry = Retained(v.entry)]
<1>5. Kept(View(l), w, l, k)
  BY <1>2, Snapshotting
<1>6. /\ Kept(w, v, l, k) /\ Present(w.entry)
      /\ grant \in Allows => v.row.outcome = grant
      /\ grant = "allow-once" => v.row.spent /\ ~w.row.spent
      /\ grant = "fallback" => /\ v.row.outcome \in {"expired", "no-route"}
                               /\ v.entry.reused /\ ~w.entry.reused
  BY <1>2, <1>5, Admitting DEF Kept
<1>7. Kept(View(l), v, l, k)
  BY <1>2, <1>5, <1>6, KeptTrans
<1>8. /\ Present(Retained(v.entry)) => Kept(v, x, l, k + 1) /\ Retained(v.entry).reused = v.entry.reused
      /\ ~Present(Retained(v.entry)) => Kept(v, x, l, k)
      /\ x.row = v.row /\ x.entry = Retained(v.entry)
  <2>1. v \in ViewType
    BY <1>7 DEF Kept, Good
  <2> QED
    BY <1>2, <1>7, <2>1, Retaining DEF Kept, ViewType
<1> HIDE DEF x
<1>9. ASSUME NEW y, NEW j, Kept(View(l), y, l, j), Becomes(l, y),
             NEW p \in {"refused", "forwarded"},
             invoke' = [invoke EXCEPT ![i] = [pc |-> p, life |-> l, grant |-> grant]],
             j = IF p = "refused" THEN k ELSE k + 1
      PROVE  BaseInv' /\ LifeInv' /\ InvokeInv' /\ Lawful /\ Moved(l, j)
  <2>1. Moved(l, j)
    BY <1>1, <1>9, Becoming
  <2>2. /\ invoke' \in [Invokes -> [pc : {"idle", "forwarded", "running", "refused", "ran"},
                                    life : Lifetimes, grant : Grants \union {"none"}]]
        /\ invoke'[i] = [pc |-> p, life |-> l, grant |-> grant]
        /\ \A m \in Invokes \ {i} : invoke'[m] = invoke[m]
    BY <1>1, <1>2, <1>9 DEF BaseInv
  <2>3. BaseInv'
    BY <1>1, <2>1, <2>2 DEF BaseInv, Moved
  <2>4. \A m \in Lifetimes \ {l} : Holding(m)' = Holding(m)
    BY <1>1, <2>2 DEF Holding
  <2>5. /\ i \notin Holding(l)
        /\ p = "refused" => Holding(l)' = Holding(l)
        /\ p = "forwarded" => Holding(l)' = Holding(l) \union {i}
    BY <1>1, <2>2 DEF Holding
  <2>6. \A m \in Lifetimes \ {l} : Handlers(m)' = Handlers(m)
    BY <1>1, <2>3, <2>4, Recounted
  <2>7. j = Handlers(l)'
    BY <1>1, <1>9, <2>3, <2>5, Recounted
  <2>8. InvokeInv'
    BY <1>1, <2>2 DEF InvokeInv
  <2>9. \A m \in Invokes : invoke'[m].pc = "running" => invoke[m].pc = "running"
    BY <2>2
  <2> HIDE DEF k
  <2>10. LifeInv' /\ Stands /\ Ungranted
    BY <1>1, <1>9, <2>3, <2>6, <2>7, <2>8, <2>9, Redeeming
  <2>11. [Promise!Next]_(Promise!vars)
    <3>1. Ran' = Ran
      BY <1>1, <2>2 DEF Ran
    <3> QED
      BY <1>1, <2>1, <3>1, Answers DEF BaseInv, Moved
  <2> QED
    BY <2>1, <2>3, <2>8, <2>10, <2>11 DEF Lawful
<1>10. CASE expired \/ ~Present(Retained(v.entry))
  <2> DEFINE y == IF expired THEN v ELSE x
  <2>1. Kept(View(l), y, l, k)
    BY <1>2, <1>7, <1>8, <1>10, KeptTrans
  <2>2. /\ Becomes(l, y)
        /\ invoke' = [invoke EXCEPT ![i] = [pc |-> "refused", life |-> l, grant |-> grant]]
    BY <1>4, <1>10 DEF x
  <2> HIDE DEF y, k
  <2>3. BaseInv' /\ LifeInv' /\ InvokeInv' /\ Lawful /\ Moved(l, k)
    BY <1>9, <2>1, <2>2
  <2>4. GrantInv'
    <3>1. /\ invoke'[i].pc = "refused" /\ invoke'[i].grant = grant
          /\ \A m \in Invokes \ {i} : invoke'[m] = invoke[m]
      BY <1>1, <2>2 DEF BaseInv
    <3>2. \A g : Uses(g)' \subseteq Uses(g)
      BY <3>1 DEF Uses
    <3>3. \A m \in Invokes : invoke'[m].pc = "idle" <=> invoke'[m].grant = "none"
      BY <1>1, <3>1, Facts DEF GrantInv, Grants
    <3> QED
      BY <1>1, <1>2, <2>3, <3>2, <3>3, GrantsLeft
  <2> QED
    BY <2>3, <2>4 DEF IInv
<1>11. CASE ~(expired \/ ~Present(Retained(v.entry)))
  <2>1. Kept(View(l), x, l, k + 1)
    BY <1>2, <1>7, <1>8, <1>11, KeptTrans
  <2>2. /\ Becomes(l, x)
        /\ invoke' = [invoke EXCEPT ![i] = [pc |-> "forwarded", life |-> l, grant |-> grant]]
    BY <1>4, <1>11 DEF x
  <2>3. BaseInv' /\ LifeInv' /\ InvokeInv' /\ Lawful /\ Moved(l, k + 1)
    <3> HIDE DEF k
    <3> QED
      BY <1>9, <2>1, <2>2
  <2>4. GrantInv'
    <3>1. /\ invoke'[i].pc = "forwarded" /\ invoke'[i].grant = grant
          /\ \A m \in Invokes \ {i} : invoke'[m] = invoke[m]
      BY <1>1, <2>2 DEF BaseInv
    <3>2. Uses(grant)' = Uses(grant) \union {i} /\ \A g : g # grant => Uses(g)' = Uses(g)
      BY <3>1, <1>1, Facts DEF Uses, GrantInv
    <3>3. \A m \in Invokes : invoke'[m].pc = "idle" <=> invoke'[m].grant = "none"
      BY <1>1, <3>1, Facts DEF GrantInv, Grants
    <3>4. row' = v.row /\ entry'[l] = Retained(v.entry)
      BY <1>1, <1>2, <1>8, <2>2 DEF Becomes, BaseInv
    <3>5. /\ row.outcome \in Terminal => row'.outcome = row.outcome
          /\ row.spent => row'.spent
          /\ Present(entry'[l]) => Present(entry[l]) /\ (entry[l].reused => entry'[l].reused)
      BY <2>3 DEF Moved, RowStep
    <3>6. grant = "allow-once" => ~row.spent
      BY <1>2, <1>5, <1>6 DEF Kept, ViewStep, RowStep
    <3>7. grant = "fallback" => Uses("fallback") = {}
      <4>1. Present(entry[l]) /\ (entry[l].reused => w.entry.reused)
        BY <1>2, <1>5, <1>6 DEF Kept, ViewStep
      <4> QED
        BY <1>1, <1>6, <4>1 DEF GrantInv
    <3>8. grant = "allow-once" => Uses("allow-once") = {}
      BY <1>1, <3>6 DEF GrantInv
    <3>9. \A d \in Allows : Uses(d)' # {} => row'.outcome = d
      BY <1>1, <1>6, <3>2, <3>4, <3>5, Facts DEF GrantInv
    <3>10. Uses("fallback")' # {} => row'.outcome \in {"expired", "no-route"}
      BY <1>1, <1>6, <3>2, <3>4, <3>5, Facts DEF GrantInv
    <3>11. Uses("allow-once")' # {} => row'.spent
      BY <1>1, <1>6, <3>2, <3>4, <3>5, Facts DEF GrantInv
    <3>12. ASSUME NEW m \in up', Uses("fallback")' # {}, Present(entry'[m])
           PROVE  entry'[m].reused
      <4>1. m \in up /\ m \in Lifetimes
        BY <1>1, Seen
      <4>2. CASE grant # "fallback"
        BY <1>1, <2>3, <3>2, <3>5, <3>12, <4>1, <4>2 DEF Moved, GrantInv
      <4>3. CASE grant = "fallback" /\ m = l
        BY <1>6, <1>8, <1>11, <3>4, <4>3
      <4>4. CASE grant = "fallback" /\ m # l
        <5>1. Agree(row', entry'[m], waiter'[m], published'[m], m)
              /\ Agree(row', entry'[l], waiter'[l], published'[l], l)
          BY <2>3, <4>1, <4>4 DEF Moved
        <5>2. Owned(row', m) /\ Owned(row', l)
          BY <1>11, <3>4, <3>12, <5>1 DEF Agree
        <5> QED
          BY <4>4, <5>2 DEF Owned
      <4> QED
        BY <4>2, <4>3, <4>4
    <3>13. \A g \in {"allow-once", "fallback"} : \A a, b \in Uses(g)' : a = b
      BY <1>1, <3>2, <3>7, <3>8 DEF GrantInv
    <3> QED
      BY <3>3, <3>9, <3>10, <3>11, <3>12, <3>13 DEF GrantInv
  <2> QED
    BY <2>3, <2>4 DEF IInv
<1> QED
  BY <1>10, <1>11

-----------------------------------------------------------------------------
(* Registration, and the lifetimes of the gateway.                         *)

\* Steps that leave the requests, the calls and what they hold alone.
LEMMA Unheld ==
  ASSUME UNCHANGED <<req, invoke>>, NEW l
  PROVE  Handlers(l)' = Handlers(l) /\ Ran' = Ran /\ \A g : Uses(g)' = Uses(g)
<1>1. req' = req /\ invoke' = invoke
  OBVIOUS
<1>2. Handlers(l)' = Handlers(l)
  BY <1>1 DEF Handlers
<1>3. Ran' = Ran
  BY <1>1 DEF Ran
<1>4. \A g : Uses(g)' = Uses(g)
  BY <1>1 DEF Uses
<1> QED
  BY <1>2, <1>3, <1>4

\* Only the outcome and the epoch of a row have to agree with the rest.
LEMMA AgreeRow ==
  ASSUME NEW r, NEW q, q.outcome = r.outcome, q.epoch = r.epoch,
         NEW e, NEW p, NEW n, NEW l, Agree(r, e, p, n, l)
  PROVE  Agree(q, e, p, n, l)
BY DEF Agree, Owned

LEMMA TickStep ==
  ASSUME IInv, Tick \/ Rot
  PROVE  IInv' /\ Lawful
<1>1. /\ UNCHANGED <<entry, waiter, published, req, reply, invoke, closed, up, started>>
      /\ row'.outcome = row.outcome /\ row'.epoch = row.epoch /\ row'.spent = row.spent
      /\ row' \in RowType /\ now' \in 0 .. MaxTime
      /\ BaseInv /\ LifeInv /\ InvokeInv /\ GrantInv
  <2>1. BaseInv /\ LifeInv /\ InvokeInv /\ GrantInv
    BY DEF IInv
  <2>2. row \in RowType /\ now \in 0 .. MaxTime
    BY <2>1 DEF BaseInv
  <2>3. CASE Tick
    BY <2>1, <2>2, <2>3, Facts DEF Tick
  <2>4. CASE Rot
    BY <2>1, <2>2, <2>4 DEF Rot, RowType
  <2> QED
    BY <2>3, <2>4
<1>2. BaseInv'
  BY <1>1 DEF BaseInv
<1>3. InvokeInv'
  BY <1>1 DEF InvokeInv
<1>4. LifeInv'
  <2> SUFFICES ASSUME NEW l \in Lifetimes
               PROVE  IF l \in up' THEN Agree(row', entry'[l], waiter'[l], published'[l], l)
                                        /\ Held(entry'[l], Handlers(l)') /\ Told(l)'
                                   ELSE Gone(l)'
    BY DEF LifeInv
  <2>1. Handlers(l)' = Handlers(l)
    BY <1>1, Unheld
  <2>2. CASE l \in up
    <3>1. Agree(row', entry[l], waiter[l], published[l], l)
      BY <1>1, <2>2, AgreeRow DEF LifeInv
    <3>2. Held(entry[l], Handlers(l)) /\ Told(l)
      BY <1>1, <2>2 DEF LifeInv
    <3>3. Told(l)'
      BY <1>1, <3>2 DEF Told
    <3> QED
      BY <1>1, <2>1, <2>2, <3>1, <3>2, <3>3
  <2>3. CASE l \notin up
    BY <1>1, <2>3 DEF LifeInv, Gone
  <2> QED
    BY <2>2, <2>3
<1>5. GrantInv'
  <2>1. \A g : Uses(g)' = Uses(g)
    BY <1>1, Unheld
  <2> QED
    BY <1>1, <2>1, GrantsStand DEF GrantInv
<1>6. Stands /\ Ungranted
  BY <1>1 DEF Stands, Ungranted
<1>7. [Promise!Next]_(Promise!vars)
  <2>1. Ran' = Ran
    BY <1>1, Unheld
  <2> QED
    BY <1>1, <2>1, Answers DEF BaseInv
<1> QED
  BY <1>2, <1>3, <1>4, <1>5, <1>6, <1>7 DEF IInv, Lawful

\* The process dies.
LEMMA CrashStep ==
  ASSUME IInv, Crash
  PROVE  IInv' /\ Lawful
<1>1. /\ up' = {} /\ UNCHANGED <<row, published, closed, started, now>>
      /\ entry' = [l \in Lifetimes |-> NoEntry]
      /\ waiter' = [l \in Lifetimes |-> "none"] /\ req' = [l \in Lifetimes |-> "none"]
      /\ reply' = [l \in Lifetimes |-> "none"]
      /\ BaseInv /\ LifeInv /\ InvokeInv /\ GrantInv
  BY DEF Crash, IInv
<1>2. \A i \in Invokes :
        /\ invoke'[i].life = invoke[i].life /\ invoke'[i].grant = invoke[i].grant
        /\ invoke'[i].pc \notin {"forwarded", "running"}
        /\ invoke'[i].pc \in {"idle", "forwarded", "running", "refused", "ran"}
        /\ invoke'[i].pc = "ran" <=> invoke[i].pc \in {"running", "ran"}
        /\ invoke'[i].pc = "idle" <=> invoke[i].pc = "idle"
        /\ invoke'[i].pc # "refused" /\ invoke'[i].pc # "idle" =>
             invoke[i].pc # "refused" /\ invoke[i].pc # "idle"
        /\ invoke'[i] \in [pc : {"idle", "forwarded", "running", "refused", "ran"},
                           life : Lifetimes, grant : Grants \union {"none"}]
  <2> TAKE i \in Invokes
  <2>1. invoke'[i] = CASE invoke[i].pc = "forwarded" -> [invoke[i] EXCEPT !.pc = "refused"]
                       [] invoke[i].pc = "running" -> [invoke[i] EXCEPT !.pc = "ran"]
                       [] OTHER -> invoke[i]
    BY DEF Crash
  <2>2. invoke[i] \in [pc : {"idle", "forwarded", "running", "refused", "ran"},
                       life : Lifetimes, grant : Grants \union {"none"}]
    BY <1>1 DEF BaseInv
  <2> QED
    BY <2>1, <2>2
<1>3. invoke' \in [Invokes -> [pc : {"idle", "forwarded", "running", "refused", "ran"},
                               life : Lifetimes, grant : Grants \union {"none"}]]
  <2>1. invoke' = [i \in Invokes |-> invoke'[i]]
    BY DEF Crash
  <2> QED
    BY <1>2, <2>1
<1>4. NoEntry \in EntryType
  BY Facts DEF NoEntry, EntryType, Outcomes
<1>5. BaseInv'
  BY <1>1, <1>3, <1>4, Facts DEF BaseInv, WaiterType
<1>6. LifeInv'
  <2>1. \A l \in Lifetimes : published[l] <= 1 /\ (published[l] = 1 => row.outcome \in Terminal)
    BY <1>1 DEF LifeInv, Agree, Gone
  <2> QED
    BY <1>1, <2>1 DEF LifeInv, Gone
<1>7. InvokeInv'
  BY <1>2 DEF InvokeInv
<1>8. GrantInv'
  <2>1. \A g : Uses(g)' \subseteq Uses(g)
    BY <1>2 DEF Uses
  <2>2. \A i \in Invokes : invoke'[i].pc = "idle" <=> invoke'[i].grant = "none"
    BY <1>1, <1>2 DEF GrantInv
  <2> QED
    BY <1>1, <2>1, <2>2, GrantsStand
<1>9. Stands /\ Ungranted
  <2>1. \A l \in closed : reply'[l] = "none" /\ row' = row
    BY <1>1 DEF BaseInv
  <2> QED
    BY <1>1, <1>2, <2>1, Facts DEF Stands, Ungranted
<1>10. [Promise!Next]_(Promise!vars)
  <2>1. Ran' = Ran
    BY <1>2 DEF Ran
  <2> QED
    BY <1>1, <2>1, Answers DEF BaseInv
<1> QED
  BY <1>5, <1>6, <1>7, <1>8, <1>9, <1>10 DEF IInv, Lawful

\* A lifetime starts: it closes the row that no lifetime will answer.
LEMMA StartStep ==
  ASSUME IInv, Start
  PROVE  IInv' /\ Lawful
<1>1. PICK l \in 1 .. MaxLifetimes :
        /\ l = started + 1 /\ started' = l /\ up' = up \union {l}
        /\ row' = CloseOrphaned(row, l, now)
        /\ UNCHANGED <<entry, waiter, published, req, reply, invoke, closed, now>>
        /\ BaseInv /\ LifeInv /\ InvokeInv /\ GrantInv
  BY ApprovalsAssumption DEF Start, IInv, BaseInv
<1>2. /\ l \in Lifetimes /\ l \notin up /\ row \in RowType /\ now \in 0 .. MaxTime
      /\ (row.outcome # "absent" => row.epoch # l)
  BY <1>1 DEF BaseInv, Lifetimes
<1>3. /\ row' \in RowType /\ row'.epoch = row.epoch /\ row'.spent = row.spent
      /\ row'.outcome = "absent" <=> row.outcome = "absent"
      /\ row'.outcome = row.outcome \/ row'.outcome = "cancelled"
      /\ row.outcome \in Terminal => row'.outcome = row.outcome
      /\ RowStep(row, row', l)
  <2>1. "cancelled" \in Terminal /\ "cancelled" \notin Allows
    BY Facts
  <2>2. RowStep(row, row, l)
    BY DEF RowStep
  <2>3. CASE row.epoch # l
    <3>1. row' = Settle(row, "cancelled", now)
      BY <1>1, <2>3 DEF CloseOrphaned
    <3>2. CASE row.outcome = "pending"
      BY <1>2, <2>1, <3>1, <3>2, Settled, Facts
    <3>3. CASE row.outcome # "pending"
      BY <1>2, <2>2, <3>1, <3>3 DEF Settle
    <3> QED
      BY <3>2, <3>3
  <2>4. CASE row.epoch = l
    BY <1>1, <1>2, <2>2, <2>4 DEF CloseOrphaned
  <2> QED
    BY <2>3, <2>4
<1>4. BaseInv'
  <2>1. up' \subseteq 1 .. started' /\ started' \in 0 .. MaxLifetimes
    BY <1>1, ApprovalsAssumption DEF BaseInv
  <2>2. row'.outcome # "absent" => row'.epoch \in 1 .. started'
    BY <1>1, <1>3 DEF BaseInv
  <2> QED
    BY <1>1, <1>3, <2>1, <2>2 DEF BaseInv
<1>5. InvokeInv'
  BY <1>1 DEF InvokeInv
<1>6. Gone(l) /\ Handlers(l) = 0
  <2>1. Gone(l)
    BY <1>1, <1>2 DEF LifeInv
  <2>2. Holding(l) = {} /\ req[l] \notin Waiting
    BY <1>1, <1>2, <2>1 DEF Holding, InvokeInv, Gone, Waiting
  <2> QED
    BY <2>1, <2>2, Counted, FS_EmptySet
<1>7. LifeInv'
  <2> SUFFICES ASSUME NEW m \in Lifetimes
               PROVE  IF m \in up' THEN Agree(row', entry'[m], waiter'[m], published'[m], m)
                                        /\ Held(entry'[m], Handlers(m)') /\ Told(m)'
                                   ELSE Gone(m)'
    BY DEF LifeInv
  <2>1. Handlers(m)' = Handlers(m)
    BY <1>1, Unheld
  <2>2. CASE m = l
    <3>1. /\ entry'[m] = NoEntry /\ waiter'[m] = "none" /\ req'[m] = "none" /\ reply'[m] = "none"
          /\ published'[m] <= 1 /\ (published'[m] = 1 => row'.outcome \in Terminal)
      BY <1>1, <1>3, <1>6, <2>2 DEF Gone
    <3>2. ~Owned(row', m)
      BY <1>2, <1>3, <2>2 DEF Owned
    <3>3. Agree(row', entry'[m], waiter'[m], published'[m], m)
      BY <3>1, <3>2, Facts DEF Agree, NoEntry, Present, Open, Resolved, Answerable
    <3>4. Held(entry'[m], Handlers(m)')
      BY <1>6, <2>1, <2>2, <3>1, Facts DEF Held, NoEntry, Resolved, Present
    <3>5. Told(m)'
      BY <3>1, Facts DEF Told
    <3> QED
      BY <1>1, <2>2, <3>3, <3>4, <3>5
  <2>3. CASE m # l /\ m \in up
    <3>1. Agree(row', entry[m], waiter[m], published[m], m)
      BY <1>1, <1>2, <1>3, <2>3, OtherAgree DEF LifeInv
    <3>2. Held(entry[m], Handlers(m)) /\ Told(m)
      BY <1>1, <2>3 DEF LifeInv
    <3>3. Told(m)'
      BY <1>1, <3>2 DEF Told
    <3> QED
      BY <1>1, <2>1, <2>3, <3>1, <3>2, <3>3
  <2>4. CASE m # l /\ m \notin up
    BY <1>1, <1>3, <2>4 DEF LifeInv, Gone
  <2> QED
    BY <2>2, <2>3, <2>4
<1>8. GrantInv'
  <2>1. \A g : Uses(g)' = Uses(g)
    BY <1>1, Unheld
  <2>2. ~Present(entry[l])
    BY <1>6 DEF Gone, Present, NoEntry
  <2> QED
    BY <1>1, <1>3, <2>1, <2>2, GrantsStand DEF GrantInv
<1>9. Stands /\ Ungranted
  BY <1>1, <1>3, Facts DEF Stands, Ungranted
<1>10. [Promise!Next]_(Promise!vars)
  <2>1. Ran' = Ran
    BY <1>1, Unheld
  <2> QED
    BY <1>2, <1>3, <2>1, Answers
<1> QED
  BY <1>4, <1>5, <1>7, <1>8, <1>9, <1>10 DEF IInv, Lawful

\* The approval is registered, and its binding retained.
LEMMA RequestStep ==
  ASSUME IInv, NEW l, Request(l)
  PROVE  IInv' /\ Lawful
<1> DEFINE e == [NoEntry EXCEPT !.outcome = "pending", !.expires = now + Timeout]
<1>1. /\ l \in up /\ l \notin closed /\ row.outcome = "absent" /\ now + Timeout <= MaxTime
      /\ row' = Inserted(l, now, Timeout)
      /\ entry' = [entry EXCEPT ![l] = Retained(e)]
      /\ waiter' = [waiter EXCEPT ![l] = "waiting"]
      /\ req' = [req EXCEPT ![l] = "delivering"]
      /\ UNCHANGED <<published, reply, invoke, closed, up, started, now>>
      /\ BaseInv /\ LifeInv /\ InvokeInv /\ GrantInv
  BY DEF Request, IInv
<1>2. l \in Lifetimes /\ now \in 0 .. MaxTime /\ now + Timeout \in 0 .. MaxTime /\ l \in 1 .. started
      /\ l \in 0 .. MaxLifetimes
  BY <1>1, ApprovalsAssumption, Seen DEF BaseInv
<1>3. ASSUME NEW m \in up
      PROVE  /\ m \in Lifetimes /\ waiter[m] = "none" /\ entry[m] = NoEntry /\ req[m] = "none"
             /\ reply[m] = "none" /\ Handlers(m) = 0 /\ published[m] # 1 /\ published[m] <= 1
  <2>1. m \in Lifetimes
    BY <1>1, Seen
  <2>2. Agree(row, entry[m], waiter[m], published[m], m) /\ Held(entry[m], Handlers(m)) /\ Told(m)
    BY <1>1, <2>1 DEF LifeInv
  <2>3. waiter[m] = "none" /\ published[m] # 1 /\ published[m] <= 1
    BY <1>1, <2>2, Facts DEF Agree, Owned
  <2>4. entry[m] = NoEntry /\ entry[m].retained = Handlers(m)
    BY <2>2, <2>3 DEF Agree, Held
  <2> QED
    BY <2>1, <2>2, <2>3, <2>4 DEF Told, NoEntry
<1>4. /\ e \in EntryType /\ e.outcome = "pending" /\ e.retained = 0 /\ ~e.reused
  <2>1. /\ NoEntry \in EntryType /\ NoEntry.retained = 0 /\ ~NoEntry.reused
    BY Facts DEF NoEntry, EntryType, Outcomes
  <2>2. "pending" \in Outcomes
    BY DEF Outcomes
  <2> QED
    BY <1>2, <2>1, <2>2 DEF EntryType
<1> HIDE DEF e
<1>5. /\ Retained(e) \in EntryType /\ Retained(e).outcome = "pending" /\ Retained(e).retained = 1
      /\ Retained(e).cleanup = Never
  <2>1. ~Lapsed(e) /\ Present(e)
    BY <1>4, Facts DEF Lapsed, Resolved, Present
  <2>2. Retained(e) = [e EXCEPT !.retained = @ + 1, !.cleanup = Never]
    BY <2>1 DEF Retained
  <2>3. e.retained + 1 = 1
    BY <1>4
  <2>4. Retained(e) = [e EXCEPT !.retained = 1, !.cleanup = Never]
    BY <1>4, <2>2, <2>3 DEF EntryType
  <2> DEFINE f == Retained(e)
  <2>5. f = [e EXCEPT !.retained = 1, !.cleanup = Never] /\ 1 \in Nat
    BY <2>4
  <2> HIDE DEF f
  <2>6. f \in EntryType /\ f.outcome = "pending" /\ f.retained = 1 /\ f.cleanup = Never
    BY <1>4, <2>5 DEF EntryType
  <2> QED
    BY <2>6 DEF f
<1>6. /\ row' \in RowType /\ row'.outcome = "pending" /\ row'.epoch = l
  <2>1. row' = [outcome |-> "pending", epoch |-> l, expires |-> now + Timeout, resolved |-> 0,
                spent |-> FALSE, readable |-> TRUE]
    BY <1>1 DEF Inserted, NoRow
  <2>2. "pending" \in Outcomes /\ 0 \in 0 .. MaxTime
    BY Facts DEF Outcomes
  <2> QED
    BY <1>2, <2>1, <2>2 DEF RowType
<1>7. /\ entry'[l] = Retained(e) /\ waiter'[l] = "waiting" /\ req'[l] = "delivering"
      /\ \A m \in Lifetimes \ {l} :
           entry'[m] = entry[m] /\ waiter'[m] = waiter[m] /\ req'[m] = req[m]
  BY <1>1, <1>2 DEF BaseInv
<1>8. BaseInv'
  <2>1. entry' \in [Lifetimes -> EntryType]
    BY <1>1, <1>2, <1>5 DEF BaseInv
  <2>2. waiter' \in [Lifetimes -> WaiterType]
    BY <1>1, <1>2 DEF BaseInv, WaiterType
  <2>3. row'.epoch \in 1 .. started'
    BY <1>1, <1>2, <1>6
  <2> QED
    BY <1>1, <1>2, <1>6, <2>1, <2>2, <2>3 DEF BaseInv
<1>9. InvokeInv'
  BY <1>1 DEF InvokeInv
<1>10. /\ Handlers(l)' = 1
       /\ \A m \in Lifetimes \ {l} : Handlers(m)' = Handlers(m)
  <2>1. \A m \in Lifetimes : Holding(m)' = Holding(m)
    BY <1>1 DEF Holding
  <2>2. req[l] \notin Waiting /\ req'[l] \in Waiting
    BY <1>1, <1>3, <1>7 DEF Waiting
  <2>3. Handlers(l)' = Handlers(l) + 1
    BY <1>1, <1>2, <1>8, <2>1, <2>2, Recounted
  <2>4. ASSUME NEW m \in Lifetimes, m # l
        PROVE  Handlers(m)' = Handlers(m)
    <3>1. Holding(m)' = Holding(m) /\ req'[m] = req[m]
      BY <1>7, <2>1, <2>4
    <3> QED
      BY <1>1, <1>8, <3>1, Recounted
  <2> QED
    BY <1>1, <1>3, <2>3, <2>4
<1>11. LifeInv'
  <2> SUFFICES ASSUME NEW m \in Lifetimes
               PROVE  IF m \in up' THEN Agree(row', entry'[m], waiter'[m], published'[m], m)
                                        /\ Held(entry'[m], Handlers(m)') /\ Told(m)'
                                   ELSE Gone(m)'
    BY DEF LifeInv
  <2>1. CASE m = l
    <3>1. published'[l] = published[l] /\ reply'[l] = "none" /\ published[l] = 0
      BY <1>1, <1>2, <1>3 DEF BaseInv
    <3>2. Agree(row', entry'[l], waiter'[l], published'[l], l)
      BY <1>5, <1>6, <1>7, <3>1, Facts
         DEF Agree, Owned, Open, Present, Resolved, Answerable
    <3>3. Held(entry'[l], Handlers(l)')
      BY <1>5, <1>7, <1>10, Facts DEF Held, Present, Resolved
    <3>4. Told(l)'
      BY <1>7, <3>1 DEF Told
    <3> QED
      BY <1>1, <2>1, <3>2, <3>3, <3>4
  <2>2. CASE m # l /\ m \in up
    <3>1. /\ waiter'[m] = "none" /\ entry'[m] = NoEntry /\ req'[m] = "none" /\ reply'[m] = "none"
          /\ Handlers(m)' = 0 /\ published'[m] # 1 /\ published'[m] <= 1
      BY <1>1, <1>3, <1>7, <1>10, <2>2
    <3>2. Agree(row', entry'[m], waiter'[m], published'[m], m)
      BY <1>6, <2>2, <3>1, Facts DEF Agree, Owned, NoEntry, Open, Present, Resolved, Answerable
    <3>3. Held(entry'[m], Handlers(m)')
      BY <3>1, Facts DEF Held, NoEntry, Present, Resolved
    <3>4. Told(m)'
      BY <3>1, Facts DEF Told
    <3> QED
      BY <1>1, <2>2, <3>2, <3>3, <3>4
  <2>3. CASE m # l /\ m \notin up
    <3>1. Gone(m) /\ published[m] # 1
      BY <1>1, <2>3, Facts DEF LifeInv, Gone
    <3> QED
      BY <1>1, <1>7, <2>3, <3>1 DEF Gone
  <2> QED
    BY <2>1, <2>2, <2>3
<1>12. \A g : Uses(g)' = Uses(g)
  BY <1>1 DEF Uses
<1>13. GrantInv'
  <2>1. \A d \in Allows : Uses(d) = {}
    BY <1>1, Facts DEF GrantInv
  <2>2. Uses("fallback") = {}
    BY <1>1 DEF GrantInv
  <2>3. Uses("allow-once") = {}
    BY <2>1, Facts
  <2>4. \A i \in Invokes : invoke'[i].pc = "idle" <=> invoke'[i].grant = "none"
    BY <1>1 DEF GrantInv
  <2> QED
    BY <1>12, <2>1, <2>2, <2>3, <2>4 DEF GrantInv
<1>14. Stands
  <2> SUFFICES ASSUME NEW m \in Lifetimes, waiter[m] \notin {"none", "waiting"}, m \in up'
               PROVE  waiter'[m] = waiter[m]
    BY <1>1, Facts DEF Stands
  <2> QED
    BY <1>1, <1>3, <1>7
<1>15. Ungranted
  BY <1>1, <1>6, <1>7, Facts DEF Ungranted, BaseInv
<1>16. [Promise!Next]_(Promise!vars)
  <2>1. Ran' = Ran
    BY <1>1 DEF Ran
  <2> QED
    BY <1>1, <1>6, <2>1, Answers, Facts DEF BaseInv
<1> QED
  BY <1>8, <1>9, <1>11, <1>13, <1>14, <1>15, <1>16 DEF IInv, Lawful

-----------------------------------------------------------------------------
(* The theorems.                                                           *)

LEMMA Initially == Init => IInv
<1> SUFFICES ASSUME Init PROVE IInv
  OBVIOUS
<1>1. NoRow \in RowType /\ ~Owned(NoRow, 0) /\ NoRow.outcome = "absent"
  BY ApprovalsAssumption, Facts DEF NoRow, RowType, Outcomes, Owned
<1>2. NoEntry \in EntryType
  BY Facts DEF NoEntry, EntryType, Outcomes
<1>3. NoInvoke \in [pc : {"idle", "forwarded", "running", "refused", "ran"},
                    life : Lifetimes, grant : Grants \union {"none"}]
  BY ApprovalsAssumption DEF NoInvoke, Lifetimes
<1>4. BaseInv
  BY <1>1, <1>2, <1>3, ApprovalsAssumption DEF Init, BaseInv, WaiterType
<1>5. LifeInv
  BY Facts DEF Init, LifeInv, Gone
<1>6. InvokeInv
  BY DEF Init, InvokeInv, NoInvoke
<1>7. GrantInv
  <2>1. \A g : Uses(g) = {}
    BY DEF Init, Uses, NoInvoke
  <2> QED
    BY <2>1 DEF Init, GrantInv, NoInvoke
<1> QED
  BY <1>4, <1>5, <1>6, <1>7 DEF IInv

\* Every step keeps the invariant and is lawful.
LEMMA Stepping ==
  ASSUME IInv, [Next]_vars
  PROVE  IInv' /\ Lawful
<1>1. CASE UNCHANGED vars
  <2>0. /\ row' = row /\ entry' = entry /\ waiter' = waiter /\ published' = published
        /\ req' = req /\ reply' = reply /\ invoke' = invoke /\ closed' = closed /\ up' = up
        /\ started' = started /\ now' = now
    BY <1>1 DEF vars
  <2>1. BaseInv' /\ InvokeInv'
    BY <2>0 DEF IInv, BaseInv, InvokeInv
  <2>2. LifeInv'
    <3>1. \A l \in Lifetimes : Handlers(l)' = Handlers(l)
      BY <2>0, Unheld
    <3>2. \A l \in Lifetimes : Told(l)' <=> Told(l)
      BY <2>0 DEF Told
    <3>3. \A l \in Lifetimes : Gone(l)' <=> Gone(l)
      BY <2>0 DEF Gone
    <3> QED
      BY <2>0, <3>1, <3>2, <3>3 DEF IInv, LifeInv
  <2>3. GrantInv'
    <3>1. \A g : Uses(g)' = Uses(g)
      BY <2>0, Unheld
    <3> QED
      BY <2>0, <3>1 DEF IInv, GrantInv
  <2>4. Stands /\ Ungranted
    BY <2>0 DEF Stands, Ungranted
  <2>5. [Promise!Next]_(Promise!vars)
    BY <2>0 DEF Promise!vars, Ran
  <2> QED
    BY <2>1, <2>2, <2>3, <2>4, <2>5 DEF IInv, Lawful
<1>2. CASE Start \/ Crash \/ Tick \/ Rot
  BY <1>2, StartStep, CrashStep, TickStep
<1>3. ASSUME NEW l \in Lifetimes,
             Request(l) \/ Routed(l) \/ NoRoute(l) \/ Decided(l) \/ Responds(l)
      PROVE  IInv' /\ Lawful
  BY <1>3, RequestStep, RoutedStep, NoRouteStep, DecidedStep, RespondsStep
<1>4. ASSUME NEW l \in Lifetimes, NEW d, ApprovalResolve(l, d) \/ ExecApprovalResolve(l, d)
      PROVE  IInv' /\ Lawful
  BY <1>4, ApprovalResolveStep, ExecApprovalResolveStep
<1>5. ASSUME NEW l \in Lifetimes,
             \/ ApprovalGet(l) \/ Expire(l) \/ Replay(l) \/ CloseAuthority(l) \/ Fence(l)
             \/ WaitDecision(l) \/ Reads(l) \/ Cleanup(l)
      PROVE  IInv' /\ Lawful
  BY <1>5, PlainSteps, ReplayStep, CloseAuthorityStep, WaitDecisionStep, CleanupStep
<1>6. ASSUME NEW l \in Lifetimes, NEW i \in Invokes, NEW grant \in Grants, NEW expired \in BOOLEAN,
             Forward(i, l, grant, expired)
      PROVE  IInv' /\ Lawful
  BY <1>6, ForwardStep
<1>7. ASSUME NEW i \in Invokes, Dispatch(i) \/ Refuse(i) \/ Returns(i)
      PROVE  IInv' /\ Lawful
  BY <1>7, DispatchStep, RefuseStep
<1> QED
  BY <1>1, <1>2, <1>3, <1>4, <1>5, <1>6, <1>7 DEF Next

LEMMA Invariance == Spec => []IInv
<1>1. IInv /\ [Next]_vars => IInv'
  BY Stepping
<1> QED
  BY <1>1, Initially, PTL DEF Spec

\* Types, with the bound on how many handlers hold a binding: a call each, and the
\* requester's own.
THEOREM TypeCorrect == Spec => []TypeOK
<1>1. IInv => TypeOK
  <2> SUFFICES ASSUME IInv PROVE TypeOK
    OBVIOUS
  <2>1. BaseInv /\ LifeInv
    BY DEF IInv
  <2>2. \A l \in Lifetimes : entry[l].retained \in 0 .. 1 + Cardinality(Invokes)
    <3> TAKE l \in Lifetimes
    <3>1. Cardinality(Invokes) \in Nat
      BY ApprovalsAssumption, FS_CardinalityType
    <3>2. CASE l \in up
      BY <2>1, <3>1, <3>2, Counted DEF LifeInv, Held
    <3>3. CASE l \notin up
      BY <2>1, <3>1, <3>3 DEF LifeInv, Gone, NoEntry
    <3> QED
      BY <3>2, <3>3
  <2>3. entry \in [Lifetimes -> [outcome : {"absent", "pending"} \union Terminal,
                                 at : 0 .. MaxTime, expires : 0 .. MaxTime,
                                 retained : 0 .. 1 + Cardinality(Invokes),
                                 released : 0 .. MaxTime \union {Never},
                                 cleanup : 0 .. MaxTime + Grace \union {Never},
                                 spent : BOOLEAN, reused : BOOLEAN]]
    <3> SUFFICES ASSUME NEW l \in Lifetimes
                 PROVE  entry[l] \in [outcome : {"absent", "pending"} \union Terminal,
                                      at : 0 .. MaxTime, expires : 0 .. MaxTime,
                                      retained : 0 .. 1 + Cardinality(Invokes),
                                      released : 0 .. MaxTime \union {Never},
                                      cleanup : 0 .. MaxTime + Grace \union {Never},
                                      spent : BOOLEAN, reused : BOOLEAN]
      BY <2>1 DEF BaseInv
    <3> QED
      BY <2>1, <2>2 DEF BaseInv, EntryType, Outcomes
  <2> QED
    BY <2>1, <2>3 DEF TypeOK, BaseInv, RowType, WaiterType, Outcomes
<1> QED
  BY <1>1, Invariance, PTL

\* A running lifetime sees its own binding, its waiter and the row agree.
LEMMA Living ==
  ASSUME IInv, NEW l \in up
  PROVE  /\ l \in Lifetimes /\ row \in RowType /\ entry[l] \in EntryType
         /\ Agree(row, entry[l], waiter[l], published[l], l)
         /\ Held(entry[l], Handlers(l)) /\ Told(l)
BY Seen DEF IInv, BaseInv, LifeInv

\* The parked requester and the durable record never disagree on whether the command
\* may run, however transactions fail and lifetimes overlap.
THEOREM OneAnswerReached == Spec => []OneAnswer
<1>1. IInv => OneAnswer
  <2> SUFFICES ASSUME IInv, NEW l \in up, waiter[l] # "none"
               PROVE  \A d \in Allows : waiter[l] = d <=> row.outcome = d
    BY DEF OneAnswer
  <2> QED
    BY Living, Agreed
<1> QED
  BY <1>1, Invariance, PTL

\* The handoff count is the number of handlers, for any number of calls; the binding
\* is there while one holds it, and left to its timer once none does.
THEOREM HandoffKept == Spec => []HandoffKeepsBinding
<1>1. IInv => HandoffKeepsBinding
  BY Living DEF HandoffKeepsBinding, Held
<1> QED
  BY <1>1, Invariance, PTL

\* A requester is told the allow that was reached, and no other.
THEOREM AllowTold == Spec => []TellsTheAllow
<1>1. IInv => TellsTheAllow
  BY Living DEF TellsTheAllow, Told
<1> QED
  BY <1>1, Invariance, PTL

\* A lifetime publishes the terminal event once, whoever settles its waiter.
THEOREM TerminalPublishedOnce == Spec => []PublishedOnce
<1>1. IInv => PublishedOnce
  BY Living DEF PublishedOnce, Agree
<1> QED
  BY <1>1, Invariance, PTL

\* What settled first stands: the outcome of the row, and the value of the promise.
THEOREM FirstAnswer == Spec => FirstAnswerStands
<1>1. IInv /\ [Next]_vars => Stands
  BY Stepping DEF Lawful
<1> QED
  BY <1>1, Invariance, PTL DEF Spec, FirstAnswerStands, Stands

\* Nothing is granted under an authority that has closed, whatever races with its
\* closing.
THEOREM NothingGrantedClosed == Spec => ClosedGrantsNothing
<1>1. IInv /\ [Next]_vars => Ungranted
  BY Stepping DEF Lawful
<1> QED
  BY <1>1, Invariance, PTL DEF Spec, ClosedGrantsNothing, Ungranted

\* The manager, its row and the calls implement the abstract approval: one answer for
\* good, and runs only under an answer that lets them, once unless it stands.
THEOREM ApprovalImplemented == Spec => ImplementsApproval
<1>1. Init => Promise!Init
  <2> SUFFICES ASSUME Init PROVE Promise!Init
    OBVIOUS
  <2>1. Ran = {} /\ row.outcome = "absent"
    BY DEF Init, Ran, NoInvoke, NoRow
  <2>2. Cardinality(Ran) = 0
    BY <2>1, FS_EmptySet
  <2> QED
    BY <2>1, <2>2, Facts DEF Promise!Init
<1>2. IInv /\ [Next]_vars => [Promise!Next]_(Promise!vars)
  BY Stepping DEF Lawful
<1> QED
  BY <1>1, <1>2, Invariance, PTL DEF Spec, ImplementsApproval, Promise!Spec
=============================================================================
