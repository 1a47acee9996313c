------------------------- MODULE RestartSignalProofs -------------------------
(***************************************************************************)
(* TLAPS proofs about RestartSignal: every reachable state is well typed,  *)
(* the restart fence is never left behind, nor is a sentinel, and a        *)
(* restart that is prepared is pursued until it is settled.                *)
(***************************************************************************)
EXTENDS RestartSignal, TLAPS

\* What the variable s keeps to by itself.  A signal that was emitted has a
\* handler until a drain begins, the drain drops the fence, and a lease closes
\* the fence it was taken for.
StateInv(t) ==
  /\ t \in State
  /\ ~t.unconsumed => t.handlers <= 1
  /\ t.unconsumed /\ ~t.drain => t.handlers > 0
  /\ t.drain => t.fence = None
  /\ t.lease # None /\ ~t.drain => t.fence = t.lease

\* An attempt that prepares has created the lease it holds: it was admitted
\* through an open fence, and an open fence has no lease.
Prepares(a) == a.pc \in {"caller", "hook"}
AttemptInv(a) == a \in Attempt /\ (Prepares(a) => a.owns)

\* A fence that no signal keeps belongs to an attempt that is still at it.
FenceInv(t, A) ==
  t.fence # None /\ ~t.unconsumed =>
    t.fence \in Attempts /\ Prepares(A[t.fence]) /\ A[t.fence].current

\* Whatever is in the slot or prepared was offered.
OfferedInv ==
  /\ late \subseteq Deferrals /\ work \in BOOLEAN
  /\ used \subseteq Hooks /\ written \subseteq used /\ carried \subseteq used
  /\ s.slot \in used \union {None}
  /\ \A x \in Attempts : att[x].held \in used \union {None}

IInv ==
  /\ StateInv(s)
  /\ att \in [Attempts -> Attempt] /\ \A x \in Attempts : AttemptInv(att[x])
  /\ FenceInv(s, att)
  /\ OfferedInv

-----------------------------------------------------------------------------
(* Operators.                                                              *)

\* The session of an offered hook, or of none, is one the state may record.
LEMMA SessionType ==
  ASSUME NEW h \in Hooks \union {None}
  PROVE  Session(h) \in {Session(g) : g \in Hooks} \union {None}
  BY DEF Session

\* What only concerns the schedule keeps the fence and the signal as they are.
LEMMA SameSignal ==
  ASSUME NEW t, StateInv(t), NEW u \in State, u.fence = t.fence, u.lease = t.lease,
         u.unconsumed = t.unconsumed, u.drain = t.drain, u.handlers = t.handlers
  PROVE  StateInv(u)
BY DEF StateInv

\* Clearing what is scheduled touches neither the fence nor the signal.
LEMMA UnscheduledInv ==
  ASSUME NEW t, StateInv(t)
  PROVE  /\ StateInv(Unscheduled(t)) /\ Unscheduled(t).slot = None
         /\ Unscheduled(t).fence = t.fence /\ Unscheduled(t).lease = t.lease
         /\ Unscheduled(t).unconsumed = t.unconsumed /\ Unscheduled(t).drain = t.drain
         /\ Unscheduled(t).handlers = t.handlers
         /\ Unscheduled(t).authorized = t.authorized
<1>1. t \in State
  BY DEF StateInv
<1>2. PICK a : a = [t EXCEPT !.timer = FALSE, !.skip = FALSE, !.preparing = FALSE]
  OBVIOUS
<1>3. a \in State
  BY <1>1, <1>2 DEF State
<1>4. Unscheduled(t) = [a EXCEPT !.slot = None, !.session = None]
  BY <1>2 DEF Unscheduled
<1>5. Unscheduled(t) \in State
  BY <1>3, <1>4 DEF State
<1>6. /\ Unscheduled(t).slot = None /\ Unscheduled(t).fence = t.fence
      /\ Unscheduled(t).lease = t.lease /\ Unscheduled(t).unconsumed = t.unconsumed
      /\ Unscheduled(t).drain = t.drain /\ Unscheduled(t).handlers = t.handlers
      /\ Unscheduled(t).authorized = t.authorized
  BY <1>1 DEF Unscheduled, State
<1> QED
  BY <1>5, <1>6, SameSignal

\* Acquiring a lease closes the fence under it, or finds it so.
LEMMA AcquiredInv ==
  ASSUME NEW t, StateInv(t), NEW x \in Attempts \union {Direct}, Acquires(t)
  PROVE  /\ StateInv(Acquired(t, x))
         /\ Acquired(t, x).unconsumed = t.unconsumed
         /\ Acquired(t, x).slot = t.slot
         /\ ~t.unconsumed => Acquired(t, x).handlers <= 1
<1>1. CASE t.lease # None
  BY <1>1 DEF StateInv, Acquired
<1>2. CASE t.lease = None
  <2>1. Acquired(t, x) = [t EXCEPT !.fence = x, !.lease = x]
    BY <1>2 DEF Acquired
  <2>2. ~t.drain
    BY <1>2 DEF Acquires
  <2> QED
    BY <2>1, <2>2 DEF StateInv, State
<1> QED
  BY <1>1, <1>2

\* An emission that was not delivered leaves no fence of its own: the fence is
\* as before, open, or kept by a signal in flight.
LEMMA EmissionsInv ==
  ASSUME NEW t, StateInv(t), NEW x \in Attempts \union {Direct},
         NEW e \in Emissions(t, x)
  PROVE  /\ StateInv(e.to)
         /\ e.to.slot \in {t.slot, None}
         /\ e.status = "emitted" => e.to.unconsumed
         /\ e.to.fence # None /\ ~e.to.unconsumed => e.to.fence = t.fence /\ ~t.unconsumed
<1> DEFINE c == [Unscheduled(Acquired(t, x)) EXCEPT !.polls = {}]
           more == [c EXCEPT !.unconsumed = TRUE, !.authorized = More(@), !.handlers = @ + 1]
<1>1. CASE ~Acquires(t)
  <2>1. e.to = t /\ e.status \in {"coalesced", "failed"}
    BY <1>1 DEF Emissions
  <2> QED
    BY <2>1
<1>2. CASE Acquires(t)
  <2>1. /\ StateInv(Unscheduled(Acquired(t, x))) /\ Unscheduled(Acquired(t, x)).slot = None
        /\ Unscheduled(Acquired(t, x)).unconsumed = t.unconsumed
    BY <1>2, AcquiredInv, UnscheduledInv
  <2>2. StateInv(c) /\ c.slot = None /\ c.unconsumed = t.unconsumed
    BY <2>1 DEF StateInv, State
  <2>3. CASE t.unconsumed
    <3>1. e.to = c /\ e.status = "coalesced"
      BY <1>2, <2>3 DEF Emissions
    <3> QED
      BY <2>2, <2>3, <3>1
  <2>4. CASE ~t.unconsumed
    <3>1. \/ e.to = more /\ e.status = "emitted"
          \/ e.to = Reopened(c) /\ e.status = "failed"
      BY <1>2, <2>4 DEF Emissions
    <3>2. c \in State /\ c.handlers <= 1
      BY <2>2, <2>4 DEF StateInv
    <3>3. More(c.authorized) \in 0 .. MaxAuthorized
      BY <3>2, RestartAssumption DEF State, More
    <3>4. c.handlers + 1 \in 0 .. 2 /\ c.handlers + 1 > 0
      BY <3>2 DEF State
    <3>5. StateInv(more) /\ more.slot = None /\ more.unconsumed
      BY <2>2, <3>3, <3>4 DEF StateInv, State
    <3>6. StateInv(Reopened(c)) /\ Reopened(c).slot = None /\ Reopened(c).fence = None
      BY <2>2 DEF StateInv, State, Reopened
    <3> QED
      BY <3>1, <3>5, <3>6
  <2> QED
    BY <2>3, <2>4
<1> QED
  BY <1>1, <1>2

\* Rolling back opens the fence of attempt x, unless a signal keeps it.
LEMMA RolledBackInv ==
  ASSUME NEW t, StateInv(t), NEW x \in Attempts, NEW a \in Attempt, a.owns
  PROVE  /\ StateInv(RolledBack(t, x, a))
         /\ RolledBack(t, x, a).slot = t.slot
         /\ RolledBack(t, x, a).unconsumed = t.unconsumed
         /\ RolledBack(t, x, a).fence \in {t.fence, None}
         /\ RolledBack(t, x, a).fence = x => t.unconsumed
<1>1. CASE t.unconsumed
  BY <1>1 DEF RolledBack
<1>2. CASE ~t.unconsumed
  <2>1. None # x
    BY RestartAssumption
  <2>2. RolledBack(t, x, a) = [t EXCEPT !.fence = IF @ = x THEN None ELSE @,
                                        !.lease = IF @ = x THEN None ELSE @]
    BY <1>2 DEF RolledBack
  <2> QED
    BY <1>2, <2>1, <2>2 DEF StateInv, State
<1> QED
  BY <1>1, <1>2

\* The attempt that ends, whatever it returns, prepares nothing any more.
LEMMA EndedInv ==
  ASSUME NEW root \in BOOLEAN, NEW result \in BOOLEAN
  PROVE  LET b == [NoAttempt EXCEPT !.pc = "leaving", !.root = root, !.result = result]
         IN  AttemptInv(b) /\ ~Prepares(b) /\ b.held = None
  BY DEF AttemptInv, Attempt, NoAttempt, Prepares

-----------------------------------------------------------------------------
(* Attempts.                                                               *)

\* The state t leaves a fence without signal to attempt x, or to another one that
\* is still at it.
OthersInv(t, x) ==
  t.fence # None /\ ~t.unconsumed =>
    \/ t.fence = x
    \/ t.fence \in Attempts /\ Prepares(att[t.fence]) /\ att[t.fence].current

\* What attempt x may hold and find when it goes on in state t.
GoesOn(x, a, t) ==
  /\ a \in Attempt /\ a.owns /\ a.held = att[x].held
  /\ StateInv(t) /\ t.slot \in used \union {None} /\ OthersInv(t, x)

\* An attempt x that ends keeps the invariant, if the fence it leaves is not its own.
LEMMA ReturnsInv ==
  ASSUME IInv, NEW x \in Attempts, NEW a \in Attempt, NEW result \in BOOLEAN,
         Returns(x, a, result),
         StateInv(s'), s'.slot \in used \union {None}, OthersInv(s', x),
         s'.fence = x => s'.unconsumed,
         written' \subseteq used, carried' \subseteq used, UNCHANGED <<late, work, used>>
  PROVE  IInv'
<1> DEFINE b == [NoAttempt EXCEPT !.pc = "leaving", !.root = a.root, !.result = result]
<1>1. AttemptInv(b) /\ ~Prepares(b) /\ b.held = None
  <2>1. a.root \in BOOLEAN
    BY DEF Attempt
  <2> QED
    BY <2>1, EndedInv
<1>2. att' = [att EXCEPT ![x] = b]
  BY DEF Returns
<1>3. att \in [Attempts -> Attempt] /\ b \in Attempt
  BY <1>1 DEF IInv, AttemptInv
<1> HIDE DEF b
<1>4. att' \in [Attempts -> Attempt]
  BY <1>2, <1>3
<1>5. \A y \in Attempts : att'[y] = IF y = x THEN b ELSE att[y]
  BY <1>2, <1>3
<1>6. \A y \in Attempts : AttemptInv(att'[y])
  BY <1>1, <1>5 DEF IInv
<1>7. FenceInv(s', att')
  BY <1>5 DEF FenceInv, OthersInv
<1>8. OfferedInv'
  BY <1>1, <1>5 DEF IInv, OfferedInv
<1> QED
  BY <1>4, <1>6, <1>7, <1>8 DEF IInv

\* Emitting, and rolling back what was not delivered.
LEMMA EmitInv ==
  ASSUME IInv, NEW x \in Attempts, NEW a, NEW t, GoesOn(x, a, t),
         Emit(x, a, t), UNCHANGED <<late, work, used>>
  PROVE  IInv' /\ s'.slot \in {t.slot, None}
<1> DEFINE u == [t EXCEPT !.session = None]
<1>1. /\ StateInv(u) /\ u.slot = t.slot
      /\ u.fence = t.fence /\ u.unconsumed = t.unconsumed
  BY DEF GoesOn, StateInv, State
<1> HIDE DEF u
<1>2. PICK e \in Emissions(u, x) \union Refusals(u, a) :
        /\ s' = IF e.status = "emitted" THEN e.to ELSE RolledBack(e.to, x, a)
        /\ Returns(x, a, TRUE)
        /\ IF e.status = "emitted"
           THEN carried' = carried \union ({a.held} \ {None}) /\ UNCHANGED written
           ELSE written' = written \ {a.held} /\ UNCHANGED carried
  BY DEF Emit, u
<1>3. /\ StateInv(e.to) /\ e.to.slot \in {t.slot, None}
      /\ e.status = "emitted" => e.to.unconsumed
      /\ e.to.fence # None /\ ~e.to.unconsumed => e.to.fence = t.fence /\ ~t.unconsumed
  <2>1. CASE e \in Emissions(u, x)
    BY <1>1, <2>1, EmissionsInv
  <2>2. CASE e \in Refusals(u, a)
    <3>1. e.to = u /\ e.status \in {"failed", "coalesced"}
      BY <2>2 DEF Refusals
    <3> QED
      BY <1>1, <3>1
  <2> QED
    BY <1>2, <2>1, <2>2
<1>4. a \in Attempt /\ a.owns
  BY DEF GoesOn
<1>5. /\ StateInv(s') /\ s'.slot = e.to.slot /\ s'.unconsumed = e.to.unconsumed
      /\ s'.fence \in {e.to.fence, None} /\ (s'.fence = x => s'.unconsumed)
  BY <1>2, <1>3, <1>4, RolledBackInv
<1>6. s'.slot \in used \union {None}
  BY <1>3, <1>5 DEF GoesOn
<1>7. OthersInv(s', x)
  BY <1>3, <1>5 DEF GoesOn, OthersInv
<1>8. written' \subseteq used /\ carried' \subseteq used
  BY <1>2 DEF GoesOn, IInv, OfferedInv
<1> QED
  BY <1>2, <1>3, <1>4, <1>5, <1>6, <1>7, <1>8, ReturnsInv

\* Bailing out rolls back the fence of x.
LEMMA BailInv ==
  ASSUME IInv, NEW x \in Attempts, NEW a, GoesOn(x, a, s),
         Bail(x, a), UNCHANGED <<late, work, used>>
  PROVE  IInv' /\ s'.slot = s.slot
<1>1. a \in Attempt /\ a.owns /\ StateInv(s)
  BY DEF GoesOn
<1>2. s' = RolledBack(s, x, a)
  BY DEF Bail
<1>3. /\ StateInv(s') /\ s'.slot = s.slot /\ s'.unconsumed = s.unconsumed
      /\ s'.fence \in {s.fence, None} /\ (s'.fence = x => s'.unconsumed)
  BY <1>1, <1>2, RolledBackInv
<1>4. OthersInv(s', x)
  BY <1>3 DEF GoesOn, OthersInv
<1>5. written' \subseteq used /\ carried' \subseteq used /\ s'.slot \in used \union {None}
  BY <1>3 DEF GoesOn, IInv, OfferedInv, Bail
<1> QED
  BY <1>1, <1>3, <1>4, <1>5, ReturnsInv DEF Bail

\* Going on to the next parked hook: the attempt stays current.
LEMMA ProceedInv ==
  ASSUME IInv, NEW x \in Attempts, NEW a, NEW t, GoesOn(x, a, t),
         a.current, Proceed(x, a, t), UNCHANGED <<late, work, used>>
  PROVE  IInv'
<1>1. CASE t.slot = None
  BY <1>1, EmitInv DEF Proceed
<1>2. CASE t.slot # None
  <2>1. PICK h \in {t.slot, None} :
          /\ s' = [t EXCEPT !.slot = None]
          /\ att' = [att EXCEPT ![x] = [a EXCEPT !.pc = "hook", !.held = h]]
          /\ written' = (written \ {a.held}) \union ({h} \ {None}) /\ UNCHANGED carried
    BY <1>2 DEF Proceed
  <2> DEFINE b == [a EXCEPT !.pc = "hook", !.held = h]
  <2>2. used \subseteq Hooks /\ h \in used \union {None}
    BY DEF IInv, OfferedInv, GoesOn
  <2>3. /\ AttemptInv(b) /\ Prepares(b) /\ b.current
        /\ b.held \in used \union {None}
    BY <2>2 DEF GoesOn, AttemptInv, Attempt, Prepares
  <2>4. /\ StateInv(s') /\ s'.slot = None
        /\ s'.fence = t.fence /\ s'.unconsumed = t.unconsumed
    BY <2>1 DEF GoesOn, StateInv, State
  <2>5. att \in [Attempts -> Attempt] /\ b \in Attempt
    BY <2>3 DEF IInv, AttemptInv
  <2>6. att' = [att EXCEPT ![x] = b]
    BY <2>1
  <2> HIDE DEF b
  <2>7. /\ att' \in [Attempts -> Attempt]
        /\ \A y \in Attempts : att'[y] = IF y = x THEN b ELSE att[y]
    BY <2>5, <2>6
  <2>8. \A y \in Attempts : AttemptInv(att'[y])
    BY <2>3, <2>7 DEF IInv
  <2>9. FenceInv(s', att')
    BY <2>3, <2>4, <2>7 DEF FenceInv, GoesOn, OthersInv
  <2>10. OfferedInv'
    BY <2>1, <2>2, <2>3, <2>4, <2>7 DEF IInv, OfferedInv
  <2> QED
    BY <2>4, <2>7, <2>8, <2>9, <2>10 DEF IInv
<1> QED
  BY <1>1, <1>2

\* The attempt and the state it goes on with once it is admitted.
Entered(x) == [att[x] EXCEPT !.forced = FALSE, !.root = TRUE, !.owns = TRUE]
Fenced(x) == [s EXCEPT !.fence = x, !.lease = x]

\* A waiting attempt that is admitted finds neither a fence nor a lease.
LEMMA EnterCases ==
  ASSUME IInv, NEW x \in Attempts, Enter(x)
  PROVE  /\ GoesOn(x, Entered(x), s) /\ GoesOn(x, Entered(x), Fenced(x))
         /\ Fenced(x).fence = x /\ Fenced(x).slot = s.slot
         /\ UNCHANGED <<late, work, used>>
         /\ \/ Bail(x, Entered(x))
            \/ Entered(x).current /\ Proceed(x, Entered(x), Fenced(x))
            \/ /\ Entered(x).current /\ s' = Fenced(x) /\ UNCHANGED <<written, carried>>
               /\ att' = [att EXCEPT ![x] = [Entered(x) EXCEPT !.pc = "caller"]]
<1> DEFINE a == [att[x] EXCEPT !.forced = FALSE, !.root = TRUE, !.owns = s.lease = None]
           t == IF a.owns THEN [s EXCEPT !.fence = x, !.lease = x] ELSE s
<1>1. StateInv(s) /\ Waits(x) /\ s.fence = None /\ ~s.drain
  BY DEF IInv, Enter, Open
<1>2. s.lease = None
  BY <1>1 DEF StateInv
<1>3. att[x] \in Attempt
  BY DEF IInv
<1>4. a \in Attempt /\ a.owns /\ a = Entered(x) /\ a.held = att[x].held
  BY <1>2, <1>3 DEF Attempt, Entered
<1>5. t = Fenced(x)
  BY <1>4 DEF Fenced
<1>6. s.slot \in used \union {None}
  BY DEF IInv, OfferedInv
<1>7. GoesOn(x, Entered(x), s)
  BY <1>1, <1>4, <1>6 DEF GoesOn, OthersInv
<1>8. StateInv(Fenced(x)) /\ Fenced(x).fence = x /\ Fenced(x).slot = s.slot
  BY <1>1 DEF StateInv, State, Fenced
<1>9. GoesOn(x, Entered(x), Fenced(x))
  BY <1>4, <1>6, <1>8 DEF GoesOn, OthersInv
<1>10. \/ Bail(x, a)
       \/ a.current /\ Proceed(x, a, t)
       \/ /\ a.current /\ s' = t /\ att' = [att EXCEPT ![x] = [a EXCEPT !.pc = "caller"]]
          /\ UNCHANGED <<written, carried>>
  <2> HIDE DEF a, t
  <2> QED
    BY DEF Enter, a, t
<1> QED
  BY <1>4, <1>5, <1>7, <1>8, <1>9, <1>10 DEF Enter

\* It takes the fence, or leaves it open.
LEMMA EnterInv ==
  ASSUME IInv, NEW x \in Attempts, Enter(x)
  PROVE  IInv'
<1>1. Entered(x) \in Attempt
  BY EnterCases DEF GoesOn, Entered, Attempt, IInv
<1>2. CASE Bail(x, Entered(x))
  BY <1>2, EnterCases, BailInv
<1>3. CASE Entered(x).current /\ Proceed(x, Entered(x), Fenced(x))
  BY <1>1, <1>3, EnterCases, ProceedInv
<1>4. ASSUME Entered(x).current, s' = Fenced(x), UNCHANGED <<written, carried>>,
             att' = [att EXCEPT ![x] = [Entered(x) EXCEPT !.pc = "caller"]]
      PROVE  IInv'
  <2> DEFINE b == [Entered(x) EXCEPT !.pc = "caller"]
  <2>1. GoesOn(x, Entered(x), Fenced(x)) /\ Fenced(x).fence = x /\ UNCHANGED <<late, work, used>>
    BY EnterCases
  <2>2. /\ AttemptInv(b) /\ Prepares(b) /\ b.current
        /\ b.held \in used \union {None}
    BY <1>1, <1>4, <2>1 DEF GoesOn, AttemptInv, Attempt, Prepares, IInv, OfferedInv
  <2>3. att \in [Attempts -> Attempt] /\ b \in Attempt
    BY <2>2 DEF IInv, AttemptInv
  <2> HIDE DEF b
  <2>4. /\ att' \in [Attempts -> Attempt]
        /\ \A y \in Attempts : att'[y] = IF y = x THEN b ELSE att[y]
    BY <1>4, <2>3 DEF b
  <2>5. \A y \in Attempts : AttemptInv(att'[y])
    BY <2>2, <2>4 DEF IInv
  <2>6. FenceInv(s', att')
    BY <1>4, <2>1, <2>2, <2>4 DEF FenceInv
  <2>7. OfferedInv'
    BY <1>4, <2>1, <2>2, <2>4 DEF IInv, OfferedInv, GoesOn
  <2> QED
    BY <1>4, <2>1, <2>4, <2>5, <2>6, <2>7 DEF IInv, GoesOn
<1> QED
  BY <1>2, <1>3, <1>4, EnterCases

\* A draining admission ends a waiting attempt.
LEMMA TurnedAwayInv ==
  ASSUME IInv, NEW x \in Attempts, TurnedAway(x)
  PROVE  IInv'
<1>1. att[x] \in Attempt /\ Returns(x, att[x], TRUE) /\ s.drain /\ UNCHANGED <<s, late, work, used, written, carried>>
  BY DEF IInv, TurnedAway
<1>2. StateInv(s') /\ s'.fence = None /\ s'.slot \in used \union {None}
  BY <1>1 DEF IInv, OfferedInv, StateInv
<1>3. written' \subseteq used /\ carried' \subseteq used /\ None # x
  BY <1>1, RestartAssumption DEF IInv, OfferedInv
<1> QED
  BY <1>1, <1>2, <1>3, ReturnsInv DEF OthersInv

\* A hook is prepared: the attempt goes on, or finds that it is superseded.
LEMMA ResumesCases ==
  ASSUME IInv, NEW x \in Attempts, Prepares(att[x]), NEW a, Resumes(x, a),
         a = att[x] \/ \E ok \in BOOLEAN : a = [att[x] EXCEPT !.caller = ok]
  PROVE  /\ GoesOn(x, a, s) /\ UNCHANGED <<late, work, used>>
         /\ Bail(x, a) \/ (a.current /\ Proceed(x, a, s))
<1>1. att[x] \in Attempt /\ att[x].owns
  BY DEF IInv, AttemptInv
<1>2. /\ a \in Attempt /\ a.owns /\ a.held = att[x].held
      /\ a.current = att[x].current
  BY <1>1 DEF Attempt
<1>3. OthersInv(s, x)
  BY DEF IInv, FenceInv, OthersInv
<1>4. GoesOn(x, a, s)
  BY <1>2, <1>3 DEF GoesOn, IInv, OfferedInv
<1> QED
  BY <1>2, <1>4 DEF Resumes

\* The hook may be a parked one, or one of the caller.
LEMMA PreparedCases ==
  ASSUME IInv, NEW x \in Attempts,
         HookPrepared(x) \/ \E ok \in BOOLEAN : CallerPrepared(x, ok)
  PROVE  \E a : /\ GoesOn(x, a, s) /\ UNCHANGED <<late, work, used>>
                /\ Bail(x, a) \/ (a.current /\ Proceed(x, a, s))
<1>1. CASE HookPrepared(x)
  BY <1>1, ResumesCases DEF HookPrepared, Prepares
<1>2. CASE \E ok \in BOOLEAN : CallerPrepared(x, ok)
  <2>1. PICK ok \in BOOLEAN : CallerPrepared(x, ok)
    BY <1>2
  <2> DEFINE a == [att[x] EXCEPT !.caller = ok]
  <2>2. Resumes(x, a) /\ Prepares(att[x]) /\ \E o \in BOOLEAN : a = [att[x] EXCEPT !.caller = o]
    BY <2>1 DEF CallerPrepared, Prepares
  <2> QED
    BY <2>2, ResumesCases
<1> QED
  BY <1>1, <1>2

\* Either way the invariant is kept.
LEMMA PreparedInv ==
  ASSUME IInv, NEW x \in Attempts,
         HookPrepared(x) \/ \E ok \in BOOLEAN : CallerPrepared(x, ok)
  PROVE  IInv'
  BY PreparedCases, BailInv, ProceedInv

-----------------------------------------------------------------------------
(* Requests and deferrals.                                                 *)

\* The attempts A are as before, but for those that were begun.
KeptAttempts(A) ==
  /\ A \in [Attempts -> Attempt]
  /\ \A y \in Attempts :
       /\ AttemptInv(A[y]) /\ A[y].held \in used \union {None}
       /\ Prepares(att[y]) => Prepares(A[y]) /\ A[y].current = att[y].current

\* The attempts as they are satisfy what is asked of their successors.
LEMMA AttKept ==
  ASSUME IInv PROVE KeptAttempts(att)
  BY DEF IInv, OfferedInv, KeptAttempts

\* Launching an attempt of a free request disturbs no other.
LEMMA LaunchKept ==
  ASSUME IInv, NEW x \in Attempts, Free(x), NEW forced \in BOOLEAN
  PROVE  KeptAttempts([att EXCEPT ![x] = Launched(forced)])
<1>1. AttemptInv(Launched(forced)) /\ Launched(forced).held = None
  BY DEF AttemptInv, Attempt, Launched, NoAttempt, Prepares
<1>2. ~Prepares(att[x])
  BY DEF Free, Prepares
<1> QED
  BY <1>1, <1>2 DEF KeptAttempts, IInv, OfferedInv, AttemptInv

\* A step that leaves the signal alone, keeps or opens the fence, and begins
\* attempts at most.
LEMMA QuietStep ==
  ASSUME IInv, StateInv(s'), s'.fence \in {s.fence, None},
         s.fence # None => s'.unconsumed = s.unconsumed,
         used \subseteq used', used' \subseteq Hooks, s'.slot \in used' \union {None},
         KeptAttempts(att'), late' \subseteq Deferrals, work' \in BOOLEAN,
         UNCHANGED <<written, carried>>
  PROVE  IInv'
<1>1. att' \in [Attempts -> Attempt] /\ \A y \in Attempts : AttemptInv(att'[y])
  BY DEF KeptAttempts
<1>2. FenceInv(s', att')
  BY DEF IInv, FenceInv, KeptAttempts
<1>3. OfferedInv'
  BY DEF IInv, OfferedInv, KeptAttempts
<1> QED
  BY <1>1, <1>2, <1>3 DEF IInv

\* Deferring a restart begins an attempt at most.
LEMMA DeferredKept ==
  ASSUME IInv, NEW x \in Deferrals, Deferred(x)
  PROVE  KeptAttempts(att') /\ late' \subseteq Deferrals
<1>1. x \in Attempts
  BY DEF Attempts
<1>2. KeptAttempts(att')
  BY <1>1, AttKept, LaunchKept DEF Deferred
<1> QED
  BY <1>2 DEF Deferred, IInv, OfferedInv

\* A config reload that defers keeps the invariant.
LEMMA ReloadDefersInv ==
  ASSUME IInv, NEW x \in Reloads, ReloadDefers(x)
  PROVE  IInv'
<1>1. x \in Deferrals
  BY DEF Deferrals
<1>2. s' = [s EXCEPT !.polls = @ \union {x}] /\ UNCHANGED <<work, used, written, carried>>
  BY DEF ReloadDefers
<1>3. /\ StateInv(s') /\ s'.fence = s.fence /\ s'.unconsumed = s.unconsumed
      /\ s'.slot = s.slot
  BY <1>1, <1>2 DEF IInv, StateInv, State
<1>4. KeptAttempts(att') /\ late' \subseteq Deferrals
  BY <1>1, DeferredKept DEF ReloadDefers
<1> QED
  BY <1>2, <1>3, <1>4, QuietStep DEF IInv, OfferedInv

\* A poll that launches an attempt, or gives up, keeps the invariant.
LEMMA TickInv ==
  ASSUME IInv, NEW x \in Deferrals, Tick(x)
  PROVE  IInv'
<1>1. UNCHANGED <<late, work, used, written, carried>>
  BY DEF Tick
<1>2. s' = s \/ s' = [s EXCEPT !.polls = @ \ {x}]
  BY DEF Tick
<1>3. /\ StateInv(s') /\ s'.fence = s.fence /\ s'.unconsumed = s.unconsumed
      /\ s'.slot = s.slot
  BY <1>2 DEF IInv, StateInv, State
<1>4. x \in Attempts
  BY DEF Attempts
<1>5. KeptAttempts(att')
  BY <1>4, AttKept, LaunchKept DEF Tick, Attempted
<1> QED
  BY <1>1, <1>3, <1>5, QuietStep DEF IInv, OfferedInv

\* A cancelled attempt opens its fence before it stops being current.
LEMMA CancelInv ==
  ASSUME IInv, NEW x \in Reloads, Cancel(x)
  PROVE  IInv'
<1>1. /\ x \in Attempts /\ att[x] \in Attempt
      /\ late' \subseteq Deferrals /\ UNCHANGED <<work, used, written, carried>>
  BY DEF IInv, OfferedInv, Cancel, Attempts, Deferrals
<1>2. CASE ~Inside(x) \/ s.unconsumed
  <2>1. s' = [s EXCEPT !.polls = @ \ {x}] /\ att' = att
    BY <1>2 DEF Cancel, RolledBack
  <2>2. /\ StateInv(s') /\ s'.fence = s.fence /\ s'.unconsumed = s.unconsumed
        /\ s'.slot = s.slot
    BY <2>1 DEF IInv, StateInv, State
  <2> QED
    BY <1>1, <2>1, <2>2, AttKept, QuietStep DEF IInv, OfferedInv
<1>3. CASE Inside(x) /\ ~s.unconsumed
  <2> DEFINE r == RolledBack(s, x, att[x])
             b == [att[x] EXCEPT !.current = FALSE]
  <2>1. s' = [r EXCEPT !.polls = @ \ {x}] /\ att' = [att EXCEPT ![x] = b]
    BY <1>3 DEF Cancel
  <2>2. att[x].owns
    BY <1>1, <1>3 DEF IInv, AttemptInv, Prepares, Inside
  <2>3. /\ StateInv(r) /\ r.slot = s.slot /\ r.unconsumed = s.unconsumed
        /\ r.fence \in {s.fence, None} /\ (r.fence = x => s.unconsumed)
    BY <1>1, <2>2, RolledBackInv DEF IInv
  <2> HIDE DEF r
  <2>4. /\ StateInv(s') /\ s'.slot = s.slot /\ s'.unconsumed = s.unconsumed
        /\ s'.fence \in {s.fence, None} /\ s'.fence # x
    BY <1>3, <2>1, <2>3 DEF StateInv, State
  <2>5. AttemptInv(b) /\ b.held = att[x].held
    BY <1>1, <2>2 DEF AttemptInv, Attempt
  <2>6. att \in [Attempts -> Attempt] /\ b \in Attempt
    BY <2>5 DEF IInv, AttemptInv
  <2> HIDE DEF b
  <2>7. /\ att' \in [Attempts -> Attempt]
        /\ \A y \in Attempts : att'[y] = IF y = x THEN b ELSE att[y]
    BY <2>1, <2>6
  <2>8. \A y \in Attempts : AttemptInv(att'[y])
    BY <2>5, <2>7 DEF IInv
  <2>9. FenceInv(s', att')
    BY <2>4, <2>7 DEF IInv, FenceInv
  <2>10. OfferedInv'
    BY <1>1, <2>4, <2>5, <2>7 DEF IInv, OfferedInv
  <2> QED
    BY <2>4, <2>7, <2>8, <2>9, <2>10 DEF IInv
<1> QED
  BY <1>2, <1>3

\* The restart timer that fires keeps the invariant.
LEMMA TimerFiresInv ==
  ASSUME IInv, TimerFires
  PROVE  IInv'
<1> DEFINE t == [s EXCEPT !.timer = FALSE, !.skip = FALSE, !.preparing = TRUE]
<1>1. /\ StateInv(t) /\ t.fence = s.fence /\ t.unconsumed = s.unconsumed /\ t.slot = s.slot
      /\ t.polls = s.polls
  <2>1. StateInv(s) /\ s \in State
    BY DEF IInv, StateInv
  <2>2. t \in State
    BY <2>1 DEF State
  <2>3. /\ t.fence = s.fence /\ t.unconsumed = s.unconsumed /\ t.slot = s.slot
        /\ t.polls = s.polls /\ t.lease = s.lease /\ t.drain = s.drain
        /\ t.handlers = s.handlers
    BY <2>1 DEF State
  <2> HIDE DEF t
  <2> QED
    BY <2>1, <2>2, <2>3, SameSignal
<1>2. UNCHANGED <<work, used, written, carried>>
  BY DEF TimerFires
<1>3. CASE /\ \E x \in Forced : Free(x) /\ att' = [att EXCEPT ![x] = Launched(TRUE)]
           /\ s' = t /\ UNCHANGED late
  <2>1. PICK x \in Forced : Free(x) /\ att' = [att EXCEPT ![x] = Launched(TRUE)]
    BY <1>3
  <2>2. KeptAttempts(att')
    BY <2>1, LaunchKept DEF Attempts
  <2> QED
    BY <1>1, <1>2, <1>3, <2>2, QuietStep DEF IInv, OfferedInv
<1>4. CASE \E x \in Timers : Deferred(x) /\ s' = [t EXCEPT !.polls = @ \union {x}]
  <2>1. PICK x \in Timers : Deferred(x) /\ s' = [t EXCEPT !.polls = @ \union {x}]
    BY <1>4
  <2>2. x \in Deferrals
    BY DEF Deferrals
  <2>3. KeptAttempts(att') /\ late' \subseteq Deferrals
    BY <2>1, <2>2, DeferredKept
  <2>4. /\ StateInv(s') /\ s'.fence = s.fence /\ s'.unconsumed = s.unconsumed
        /\ s'.slot = s.slot
    BY <1>1, <2>1, <2>2 DEF StateInv, State
  <2> QED
    BY <1>2, <2>3, <2>4, QuietStep DEF IInv, OfferedInv
<1> QED
  BY <1>3, <1>4 DEF TimerFires

\* Whatever a request does to the pending restart, it concerns neither fence nor
\* signal.
LEMMA ScheduleInv ==
  ASSUME IInv, NEW h \in Hooks \union {None}, NEW skip \in BOOLEAN, NEW earlier \in BOOLEAN,
         NEW keep \in BOOLEAN, Schedule(h, skip, earlier, keep)
  PROVE  IInv' /\ s'.slot \in {h, s.slot}
<1>1. UNCHANGED <<late, work, written, carried>> /\ used' = used \union ({h} \ {None})
  BY DEF Schedule, Offered
<1>2. used \subseteq used' /\ used' \subseteq Hooks /\ h \in used' \union {None}
  BY <1>1 DEF IInv, OfferedInv
<1>3. Session(h) \in {Session(g) : g \in Hooks} \union {None}
  BY SessionType
<1>4. /\ s \in State /\ StateInv(s)
      /\ ScheduleFirst(h, skip) \/ ScheduleBypass(h, keep) \/ ScheduleEarlier(h, skip, keep)
         \/ ScheduleCoalesced(h, skip)
  BY DEF IInv, StateInv, Schedule
<1> DEFINE Harmless == /\ StateInv(s') /\ s'.fence = s.fence /\ s'.unconsumed = s.unconsumed
                       /\ s'.slot \in {h, s.slot}
           k == Session(h)
<1>5. Harmless
  <2> k \in {Session(g) : g \in Hooks} \union {None}
    BY <1>3
  <2> HIDE DEF k
  <2>0. ASSUME s' \in State, s'.fence = s.fence, s'.lease = s.lease,
               s'.unconsumed = s.unconsumed, s'.drain = s.drain,
               s'.handlers = s.handlers, s'.slot \in {h, s.slot}
        PROVE  Harmless
    BY <1>4, <2>0, SameSignal
  <2>1. ASSUME s' = [s EXCEPT !.timer = TRUE, !.skip = skip, !.slot = h, !.session = k]
        PROVE  Harmless
    <3> HIDE DEF Harmless
    <3>1. s' \in State
      BY <1>4, <2>1 DEF State
    <3>2. /\ s'.fence = s.fence /\ s'.lease = s.lease /\ s'.unconsumed = s.unconsumed
          /\ s'.drain = s.drain /\ s'.handlers = s.handlers /\ s'.slot \in {h, s.slot}
      BY <1>4, <2>1 DEF State
    <3> QED
      BY <2>0, <3>1, <3>2
  <2>2. ASSUME s' = [s EXCEPT !.polls = {}]
        PROVE  Harmless
    <3> HIDE DEF Harmless
    <3>1. s' \in State
      BY <1>4, <2>2 DEF State
    <3>2. /\ s'.fence = s.fence /\ s'.lease = s.lease /\ s'.unconsumed = s.unconsumed
          /\ s'.drain = s.drain /\ s'.handlers = s.handlers /\ s'.slot \in {h, s.slot}
      BY <1>4, <2>2 DEF State
    <3> QED
      BY <2>0, <3>1, <3>2
  <2>3. ASSUME s' = [s EXCEPT !.polls = {}, !.slot = h, !.session = k]
        PROVE  Harmless
    <3> HIDE DEF Harmless
    <3>1. s' \in State
      BY <1>4, <2>3 DEF State
    <3>2. /\ s'.fence = s.fence /\ s'.lease = s.lease /\ s'.unconsumed = s.unconsumed
          /\ s'.drain = s.drain /\ s'.handlers = s.handlers /\ s'.slot \in {h, s.slot}
      BY <1>4, <2>3 DEF State
    <3> QED
      BY <2>0, <3>1, <3>2
  <2>4. ASSUME NEW sk \in BOOLEAN, s' = [s EXCEPT !.skip = sk]
        PROVE  Harmless
    <3> HIDE DEF Harmless
    <3>1. s' \in State
      BY <1>4, <2>4 DEF State
    <3>2. /\ s'.fence = s.fence /\ s'.lease = s.lease /\ s'.unconsumed = s.unconsumed
          /\ s'.drain = s.drain /\ s'.handlers = s.handlers /\ s'.slot \in {h, s.slot}
      BY <1>4, <2>4 DEF State
    <3> QED
      BY <2>0, <3>1, <3>2
  <2>5. ASSUME NEW sk \in BOOLEAN, s' = [s EXCEPT !.skip = sk, !.slot = h, !.session = k]
        PROVE  Harmless
    <3> HIDE DEF Harmless
    <3>1. s' \in State
      BY <1>4, <2>5 DEF State
    <3>2. /\ s'.fence = s.fence /\ s'.lease = s.lease /\ s'.unconsumed = s.unconsumed
          /\ s'.drain = s.drain /\ s'.handlers = s.handlers /\ s'.slot \in {h, s.slot}
      BY <1>4, <2>5 DEF State
    <3> QED
      BY <2>0, <3>1, <3>2
  <2>6. s.skip \in BOOLEAN
    BY <1>4 DEF State
  <2> HIDE DEF Harmless
  <2>7. CASE ScheduleFirst(h, skip)
    BY <2>1, <2>7 DEF ScheduleFirst, k
  <2>8. CASE ScheduleBypass(h, keep)
    BY <2>2, <2>3, <2>8 DEF ScheduleBypass, k
  <2>9. CASE ScheduleEarlier(h, skip, keep)
    <3>1. \/ s' = [s EXCEPT !.skip = skip]
          \/ s' = [s EXCEPT !.skip = @ \/ skip]
          \/ s' = [s EXCEPT !.skip = skip, !.slot = h, !.session = k]
      BY <2>9 DEF ScheduleEarlier, k
    <3> QED
      BY <2>4, <2>5, <2>6, <3>1
  <2>10. CASE ScheduleCoalesced(h, skip)
    <3>1. \/ s' = [s EXCEPT !.skip = @ \/ skip, !.slot = h, !.session = k]
          \/ s' = [s EXCEPT !.skip = @ \/ skip]
      BY <2>10 DEF ScheduleCoalesced, k
    <3> QED
      BY <2>4, <2>5, <2>6, <3>1
  <2> QED
    BY <1>4, <2>7, <2>8, <2>9, <2>10
<1>6. KeptAttempts(att')
  <2>1. CASE UNCHANGED att
    BY <2>1, AttKept
  <2>2. CASE \E x \in Forced : Free(x) /\ att' = [att EXCEPT ![x] = Launched(TRUE)]
    <3>1. PICK x \in Forced : Free(x) /\ att' = [att EXCEPT ![x] = Launched(TRUE)]
      BY <2>2
    <3> QED
      BY <3>1, LaunchKept DEF Attempts
  <2> QED
    BY <2>1, <2>2 DEF Schedule, ScheduleFirst, ScheduleBypass, ScheduleEarlier, ScheduleCoalesced
<1> QED
  BY <1>1, <1>2, <1>5, <1>6, QuietStep DEF IInv, OfferedInv

-----------------------------------------------------------------------------
(* Steps of the signal and of the run loop.                                *)

\* An emission inside an admitted root leaves no fence without a signal.
LEMMA DirectEmitInv ==
  ASSUME IInv, DirectEmit
  PROVE  IInv'
<1>1. PICK e \in Emissions(s, Direct) : s' = e.to
  BY DEF DirectEmit
<1>2. UNCHANGED <<att, late, work, used, written, carried>>
  BY DEF DirectEmit
<1>3. /\ StateInv(s') /\ s'.slot \in {s.slot, None}
      /\ s'.fence # None /\ ~s'.unconsumed => s'.fence = s.fence /\ ~s.unconsumed
  BY <1>1, EmissionsInv DEF IInv
<1>4. FenceInv(s', att')
  BY <1>2, <1>3 DEF IInv, FenceInv
<1>5. OfferedInv'
  BY <1>2, <1>3 DEF IInv, OfferedInv
<1> QED
  BY <1>2, <1>3, <1>4, <1>5 DEF IInv

\* An attempt that leaves was preparing nothing.
LEMMA LeaveInv ==
  ASSUME IInv, NEW x \in Attempts, Leave(x)
  PROVE  IInv'
<1>1. /\ att' = [att EXCEPT ![x] = NoAttempt] /\ ~Prepares(att[x])
      /\ late' \subseteq Deferrals /\ UNCHANGED <<work, used, written, carried>>
  BY DEF Leave, Prepares, IInv, OfferedInv
<1>2. s' = s \/ s' = [s EXCEPT !.polls = @ \ {x}]
  BY DEF Leave
<1>3. /\ StateInv(s') /\ s'.fence = s.fence /\ s'.unconsumed = s.unconsumed
      /\ s'.slot = s.slot
  BY <1>2 DEF IInv, StateInv, State
<1>4. AttemptInv(NoAttempt) /\ NoAttempt.held = None
  BY DEF AttemptInv, Attempt, NoAttempt, Prepares
<1>5. KeptAttempts(att')
  BY <1>1, <1>4 DEF KeptAttempts, IInv, OfferedInv, AttemptInv
<1> QED
  BY <1>1, <1>3, <1>5, QuietStep DEF IInv, OfferedInv

\* A step that changes the state s alone keeps the invariant when it keeps the
\* fence under the same signal, opens it, or leaves it to a signal.
LEMMA SignalStep ==
  ASSUME IInv, StateInv(s'), s'.slot \in {s.slot, None},
         \/ s'.fence = None
         \/ s'.fence = s.fence /\ s'.unconsumed = s.unconsumed,
         UNCHANGED <<att, late, used, written, carried>>, work' \in BOOLEAN
  PROVE  IInv'
<1>1. FenceInv(s', att')
  BY DEF IInv, FenceInv
<1>2. OfferedInv'
  BY DEF IInv, OfferedInv
<1> QED
  BY <1>1, <1>2 DEF IInv

\* The drain that accepts a signal drops the fence; with one handler less there
\* is still room for the next emission once the signal is handled.
LEMMA AcceptInv ==
  ASSUME IInv, Accept \/ AcceptIntent
  PROVE  IInv'
<1> DEFINE d == Draining(s)
<1>1. StateInv(s) /\ s \in State /\ s.handlers > 0
  BY DEF IInv, StateInv, Accept, AcceptIntent
<1>2. /\ s.handlers - 1 \in 0 .. 2 /\ s.handlers - 1 <= 1
      /\ Less(s.authorized) \in 0 .. MaxAuthorized
  BY <1>1, RestartAssumption DEF State, Less
<1>3. /\ d \in State /\ d.drain /\ d.fence = None /\ d.slot = s.slot /\ d.handlers <= 1
  BY <1>1, <1>2 DEF Draining, State
<1> HIDE DEF d
<1>4. /\ Handled(d) \in State /\ Handled(d).drain /\ Handled(d).fence = None
      /\ Handled(d).slot = s.slot /\ Handled(d).handlers <= 1
  BY <1>3 DEF Handled, State
<1>5. StateInv(s') /\ s'.slot = s.slot /\ s'.fence = None
  <2>1. CASE Accept
    BY <1>4, <2>1 DEF Accept, StateInv, d
  <2>2. CASE AcceptIntent
    <3>1. s' = Handled(d) \/ s' = d
      BY <2>2 DEF AcceptIntent, d
    <3> QED
      BY <1>3, <1>4, <3>1 DEF StateInv
  <2> QED
    BY <2>1, <2>2
<1>6. UNCHANGED <<att, late, work, used, written, carried>>
  BY DEF Accept, AcceptIntent
<1> QED
  BY <1>5, <1>6, SignalStep DEF IInv, OfferedInv

\* A refused signal opens the fence it was emitted under.
LEMMA RefuseInv ==
  ASSUME IInv, Refuse
  PROVE  IInv'
<1>1. StateInv(s) /\ s \in State /\ s.handlers > 0
  BY DEF IInv, StateInv, Refuse
<1>2. s.handlers - 1 \in 0 .. 2 /\ s.handlers - 1 <= 1
  BY <1>1 DEF State
<1>3. s' = [Reopened(s) EXCEPT !.unconsumed = FALSE, !.handlers = @ - 1]
  BY DEF Refuse
<1>4. StateInv(s') /\ s'.slot = s.slot /\ s'.fence = None
  BY <1>1, <1>2, <1>3 DEF Reopened, StateInv, State
<1>5. UNCHANGED <<att, late, work, used, written, carried>>
  BY DEF Refuse
<1> QED
  BY <1>4, <1>5, SignalStep DEF IInv, OfferedInv

\* A signal from outside is handled when no other is.
LEMMA Sigusr1Inv ==
  ASSUME IInv, Sigusr1
  PROVE  IInv'
<1>1. StateInv(s) /\ s \in State /\ s.handlers = 0
  BY DEF IInv, StateInv, Sigusr1
<1>2. s' = [s EXCEPT !.handlers = 1]
  BY DEF Sigusr1
<1> DEFINE m == [s EXCEPT !.handlers = 1]
<1>3. /\ StateInv(m) /\ m.slot = s.slot /\ m.fence = s.fence
      /\ m.unconsumed = s.unconsumed
  <2>1. 1 \in 0 .. 2 /\ 1 <= 1 /\ 1 > 0
    OBVIOUS
  <2>2. m \in State
    BY <1>1, <2>1 DEF State
  <2>3. /\ m.handlers = 1 /\ m.slot = s.slot /\ m.fence = s.fence /\ m.lease = s.lease
        /\ m.unconsumed = s.unconsumed /\ m.drain = s.drain
    BY <1>1 DEF State
  <2> QED
    BY <1>1, <2>1, <2>2, <2>3 DEF StateInv
<1>4. StateInv(s') /\ s'.slot = s.slot /\ s'.fence = s.fence /\ s'.unconsumed = s.unconsumed
  BY <1>2, <1>3
<1>5. UNCHANGED <<att, late, work, used, written, carried>>
  BY DEF Sigusr1
<1> QED
  BY <1>4, <1>5, SignalStep DEF IInv, OfferedInv

\* The restart in process opens whatever was closed; what still prepares holds no
\* fence.
LEMMA InProcessRestartInv ==
  ASSUME IInv, InProcessRestart
  PROVE  IInv'
<1> DEFINE u == Unscheduled(Reopened(s))
           old(x) == [att[x] EXCEPT !.current = FALSE, !.root = FALSE]
<1>1. StateInv(s) /\ s \in State /\ s.handlers = 0
  BY DEF IInv, StateInv, InProcessRestart
<1>2. u \in State /\ u.handlers = 0 /\ u.slot = None /\ u.fence = None /\ u.lease = None
  BY <1>1 DEF Unscheduled, Reopened, State
<1>3. 0 \in 0 .. MaxAuthorized
  BY RestartAssumption
<1>4. s' = [u EXCEPT !.drain = FALSE, !.suspended = FALSE, !.unconsumed = FALSE,
                     !.authorized = 0, !.polls = {}]
  BY DEF InProcessRestart
<1> HIDE DEF u
<1>5. StateInv(s') /\ s'.slot = None /\ s'.fence = None
  <2>1. s' \in State
    <3>1. PICK a : a = [u EXCEPT !.drain = FALSE, !.suspended = FALSE, !.unconsumed = FALSE]
      OBVIOUS
    <3>2. a \in State
      BY <1>2, <3>1 DEF State
    <3>3. s' = [a EXCEPT !.authorized = 0, !.polls = {}]
      BY <1>4, <3>1
    <3> QED
      BY <1>3, <3>2, <3>3 DEF State
  <2>2. /\ s'.handlers = 0 /\ ~s'.unconsumed /\ ~s'.drain /\ s'.slot = None
        /\ s'.fence = None /\ s'.lease = None
    BY <1>2, <1>4 DEF State
  <2> QED
    BY <2>1, <2>2 DEF StateInv
<1>6. /\ att' = [x \in Attempts |-> IF Free(x) THEN att[x] ELSE old(x)]
      /\ work' = FALSE /\ late' = {} /\ UNCHANGED <<used, written, carried>>
  BY DEF InProcessRestart
<1>7. ASSUME NEW x \in Attempts
      PROVE  /\ AttemptInv(old(x)) /\ old(x).held = att[x].held
    <2>1. att[x] \in Attempt /\ AttemptInv(att[x])
      BY DEF IInv
    <2> QED
      BY <2>1 DEF AttemptInv, Attempt, Prepares
<1> HIDE DEF old
<1>8. ASSUME NEW x \in Attempts
      PROVE  AttemptInv(att'[x]) /\ att'[x].held = att[x].held
  BY <1>6, <1>7 DEF IInv
<1>9. att' \in [Attempts -> Attempt]
  BY <1>6, <1>8 DEF AttemptInv
<1>10. FenceInv(s', att')
  BY <1>5 DEF FenceInv
<1>11. OfferedInv'
  <2>1. \A x \in Attempts : att'[x].held \in used' \union {None}
    BY <1>6, <1>8 DEF IInv, OfferedInv
  <2> QED
    BY <1>5, <1>6, <2>1 DEF IInv, OfferedInv
<1> QED
  BY <1>5, <1>8, <1>9, <1>10, <1>11 DEF IInv

-----------------------------------------------------------------------------
(* The invariant.                                                          *)

\* Initially nothing is scheduled and the admission is open.
LEMMA InitInv ==
  ASSUME Init PROVE IInv
<1>1. 0 \in 0 .. MaxAuthorized
  BY RestartAssumption
<1>2. StateInv(s) /\ s.fence = None /\ s.slot = None
  BY <1>1 DEF Init, StateInv, State
<1>3. AttemptInv(NoAttempt) /\ NoAttempt.held = None
  BY DEF AttemptInv, Attempt, NoAttempt, Prepares
<1>4. att = [x \in Attempts |-> NoAttempt]
  BY DEF Init
<1>5. att \in [Attempts -> Attempt]
  BY <1>3, <1>4 DEF AttemptInv
<1>6. OfferedInv
  BY <1>2, <1>3, <1>4 DEF Init, OfferedInv
<1> QED
  BY <1>2, <1>3, <1>4, <1>5, <1>6 DEF IInv, FenceInv

\* Every step keeps the invariant.
LEMMA NextInv ==
  ASSUME IInv, [Next]_vars PROVE IInv'
<1>1. ASSUME NEW x \in Attempts, Progresses(x)
      PROVE  IInv'
  BY <1>1, EnterInv, TurnedAwayInv, LeaveInv, PreparedInv DEF Progresses
<1>2. ASSUME NEW x \in Reloads, ReloadDefers(x) \/ Cancel(x)
      PROVE  IInv'
  BY <1>2, ReloadDefersInv, CancelInv
<1>3. ASSUME NEW x \in Deferrals, Elapse(x)
      PROVE  IInv'
  <2>1. UNCHANGED <<s, att, work, used, written, carried>> /\ late' \subseteq Deferrals
    BY <1>3 DEF Elapse, IInv, OfferedInv
  <2> QED
    BY <2>1, AttKept, QuietStep DEF IInv, OfferedInv
<1>4. ASSUME NEW x \in Deferrals, Tick(x)
      PROVE  IInv'
  BY <1>4, TickInv
<1>5. ASSUME NEW h \in Hooks \union {None}, NEW skip \in BOOLEAN, NEW earlier \in BOOLEAN,
             NEW keep \in BOOLEAN, Schedule(h, skip, earlier, keep)
      PROVE  IInv'
  BY <1>5, ScheduleInv
<1>6. CASE TimerFires \/ DirectEmit \/ Accept \/ AcceptIntent \/ Refuse \/ Sigusr1
           \/ InProcessRestart
  BY <1>6, TimerFiresInv, DirectEmitInv, AcceptInv, RefuseInv, Sigusr1Inv,
     InProcessRestartInv
<1>7. CASE Expire
  <2>1. 0 \in 0 .. MaxAuthorized
    BY RestartAssumption
  <2>2. s' = [s EXCEPT !.authorized = 0] /\ UNCHANGED <<att, late, work, used, written, carried>>
    BY <1>7 DEF Expire
  <2>3. /\ StateInv(s') /\ s'.slot = s.slot /\ s'.fence = s.fence
        /\ s'.unconsumed = s.unconsumed
    BY <2>1, <2>2 DEF IInv, StateInv, State
  <2> QED
    BY <2>2, <2>3, SignalStep DEF IInv, OfferedInv
<1>8. CASE Suspend \/ Resume
  <2>1. /\ s' = [s EXCEPT !.suspended = TRUE] \/ s' = [s EXCEPT !.suspended = FALSE]
        /\ UNCHANGED <<att, late, work, used, written, carried>>
    BY <1>8 DEF Suspend, Resume
  <2>2. /\ StateInv(s') /\ s'.slot = s.slot /\ s'.fence = s.fence
        /\ s'.unconsumed = s.unconsumed
    BY <2>1 DEF IInv, StateInv, State
  <2> QED
    BY <2>1, <2>2, SignalStep DEF IInv, OfferedInv
<1>9. CASE WorkBegins \/ RestartRequested \/ WorkEnds
  <2>1. work' \in BOOLEAN /\ UNCHANGED <<s, att, late, used, written, carried>>
    BY <1>9 DEF WorkBegins, RestartRequested, WorkEnds
  <2> QED
    BY <2>1, SignalStep DEF IInv
<1>10. CASE UNCHANGED vars
  <2>1. UNCHANGED <<s, att, late, work, used, written, carried>>
    BY <1>10 DEF vars
  <2> QED
    BY <2>1, SignalStep DEF IInv, OfferedInv
<1> QED
  BY <1>1, <1>2, <1>3, <1>4, <1>5, <1>6, <1>7, <1>8, <1>9, <1>10 DEF Next

\* The invariant holds in every reachable state.
THEOREM Invariance == Spec => []IInv
<1>1. Init => IInv
  BY InitInv
<1>2. IInv /\ [Next]_vars => IInv'
  BY NextInv
<1> QED
  BY <1>1, <1>2, PTL DEF Spec

\* Every variable keeps its type; in particular never more than two handlers of
\* the signal are under way.
THEOREM TypeCorrect == Spec => []TypeOK
<1>1. IInv => TypeOK
  BY DEF IInv, StateInv, OfferedInv, TypeOK
<1> QED
  BY <1>1, Invariance, PTL

\* However attempts share the fence, fail, are cancelled or superseded: it is
\* closed only for a signal that has a handler, or for an attempt that is still
\* current and will roll it back (restart.ts:86), and a lease kept for the signal
\* closes the fence, unless a drain has superseded it.
THEOREM FenceOwned == Spec => []FenceHasReason
<1>1. IInv => NoWedgedFence
  BY DEF IInv, StateInv, FenceInv, NoWedgedFence, Inside, Prepares
<1>2. IInv => NoDeadLease
  BY DEF IInv, StateInv, NoDeadLease
<1> QED
  BY <1>1, <1>2, Invariance, PTL DEF FenceHasReason

-----------------------------------------------------------------------------
(* The sentinels.                                                          *)

\* What each attempt holds, the signal carried and the slot offers are different
\* hooks, and what is written is what is held or was carried.
HeldInv ==
  /\ \A x \in Attempts : ~Prepares(att[x]) => att[x].held = None
  /\ \A x \in Attempts : att[x].held \notin carried
  /\ \A x, y \in Attempts : x # y /\ att[x].held # None => att[x].held # att[y].held
  /\ s.slot \notin written
  /\ \A h \in Hooks : h \in written <=> h \in carried \/ \E x \in Attempts : att[x].held = h

SInv == IInv /\ HeldInv

\* No attempt begins or stops to hold a hook.
HeldSame ==
  \A y \in Attempts : /\ att'[y].held = att[y].held
                      /\ ~Prepares(att'[y]) => att[y].held = None

\* Steps that hold nothing new, and offer at most a new hook.
LEMMA HeldKept ==
  ASSUME SInv, s'.slot \in {s.slot, None} \/ s'.slot \notin used,
         HeldSame, UNCHANGED <<written, carried>>
  PROVE  HeldInv'
<1>1. written \subseteq Hooks /\ written \subseteq used /\ None \notin Hooks
  BY RestartAssumption DEF SInv, IInv, OfferedInv
<1>2. s'.slot \notin written'
  BY <1>1 DEF SInv, HeldInv
<1> QED
  BY <1>2 DEF SInv, HeldInv, HeldSame

\* An attempt that ends has its hook rolled back, or carried along.
LEMMA HeldSettled ==
  ASSUME SInv, NEW x \in Attempts, NEW b, b.held = None,
         att' = [att EXCEPT ![x] = b], s'.slot \in {s.slot, None},
         \/ written' = written \ {att[x].held} /\ UNCHANGED carried
         \/ carried' = carried \union ({att[x].held} \ {None}) /\ UNCHANGED written
  PROVE  HeldInv'
<1>1. /\ written \subseteq Hooks /\ carried \subseteq Hooks /\ None \notin Hooks
      /\ att[x].held \in Hooks \union {None}
  BY RestartAssumption DEF SInv, IInv, OfferedInv
<1>2. \A y \in Attempts : att'[y] = IF y = x THEN b ELSE att[y]
  BY DEF SInv, IInv
<1>3. \A y \in Attempts : ~Prepares(att'[y]) => att'[y].held = None
  BY <1>2 DEF SInv, HeldInv
<1>4. \A y \in Attempts : att'[y].held \notin carried'
  BY <1>1, <1>2 DEF SInv, HeldInv
<1>5. \A y, z \in Attempts : y # z /\ att'[y].held # None => att'[y].held # att'[z].held
  BY <1>2 DEF SInv, HeldInv
<1>6. s'.slot \notin written'
  BY <1>1 DEF SInv, HeldInv
<1>7. ASSUME NEW h \in Hooks
      PROVE  h \in written' <=> h \in carried' \/ \E y \in Attempts : att'[y].held = h
  <2>1. \A y \in Attempts : att'[y].held = IF y = x THEN None ELSE att[y].held
    BY <1>2
  <2>2. h # None /\ (h \in written <=> h \in carried \/ \E y \in Attempts : att[y].held = h)
    BY <1>1 DEF SInv, HeldInv
  <2>3. CASE att[x].held = h
    <3>1. h \notin carried /\ h \in written /\ \A y \in Attempts : y # x => att[y].held # h
      BY <2>2, <2>3 DEF SInv, HeldInv
    <3> QED
      BY <2>1, <2>2, <2>3, <3>1
  <2>4. CASE att[x].held # h
    BY <2>1, <2>2, <2>4
  <2> QED
    BY <2>3, <2>4
<1> QED
  BY <1>3, <1>4, <1>5, <1>6, <1>7 DEF HeldInv

\* An attempt goes on with the next parked hook instead of the one it held.
LEMMA HeldReplaced ==
  ASSUME SInv, NEW x \in Attempts, NEW b, Prepares(b), b.held \in {s.slot, None},
         att' = [att EXCEPT ![x] = b], s'.slot = None, UNCHANGED carried,
         written' = (written \ {att[x].held}) \union ({b.held} \ {None})
  PROVE  HeldInv'
<1>1. /\ written \subseteq Hooks /\ carried \subseteq Hooks /\ None \notin Hooks
      /\ att[x].held \in Hooks \union {None} /\ b.held \in Hooks \union {None}
  BY RestartAssumption DEF SInv, IInv, OfferedInv
<1>2. \A y \in Attempts : att'[y] = IF y = x THEN b ELSE att[y]
  BY DEF SInv, IInv
<1>3. b.held # None => /\ b.held \notin written /\ b.held \notin carried
                       /\ \A y \in Attempts : att[y].held # b.held
  BY <1>1 DEF SInv, HeldInv
<1>4. \A y \in Attempts : ~Prepares(att'[y]) => att'[y].held = None
  BY <1>2 DEF SInv, HeldInv
<1>5. \A y \in Attempts : att'[y].held \notin carried'
  BY <1>1, <1>2, <1>3 DEF SInv, HeldInv
<1>6. \A y, z \in Attempts : y # z /\ att'[y].held # None => att'[y].held # att'[z].held
  BY <1>2, <1>3 DEF SInv, HeldInv
<1>7. s'.slot \notin written'
  BY <1>1
<1>8. ASSUME NEW h \in Hooks
      PROVE  h \in written' <=> h \in carried' \/ \E y \in Attempts : att'[y].held = h
  <2>1. \A y \in Attempts : att'[y].held = IF y = x THEN b.held ELSE att[y].held
    BY <1>2
  <2>2. h # None /\ (h \in written <=> h \in carried \/ \E y \in Attempts : att[y].held = h)
    BY <1>1 DEF SInv, HeldInv
  <2>3. CASE b.held = h
    BY <2>1, <2>2, <2>3
  <2>4. CASE b.held # h /\ att[x].held = h
    <3>1. h \notin carried /\ \A y \in Attempts : y # x => att[y].held # h
      BY <2>2, <2>4 DEF SInv, HeldInv
    <3> QED
      BY <2>1, <2>2, <2>4, <3>1
  <2>5. CASE b.held # h /\ att[x].held # h
    BY <2>1, <2>2, <2>5
  <2> QED
    BY <2>3, <2>4, <2>5
<1> QED
  BY <1>4, <1>5, <1>6, <1>7, <1>8 DEF HeldInv

\* Nothing changes about the hooks that are held when the attempts stay as they are.
LEMMA UnchangedSame ==
  ASSUME SInv, UNCHANGED att PROVE HeldSame
  BY DEF SInv, HeldInv, HeldSame

\* Nor when one begins.
LEMMA LaunchSame ==
  ASSUME SInv, NEW x \in Attempts, Free(x), NEW forced \in BOOLEAN,
         att' = [att EXCEPT ![x] = Launched(forced)]
  PROVE  HeldSame
<1>1. Launched(forced).held = None
  BY DEF Launched, NoAttempt
<1>2. att[x].held = None
  BY DEF SInv, HeldInv, Free, Prepares
<1>3. \A y \in Attempts : att'[y] = IF y = x THEN Launched(forced) ELSE att[y]
  BY DEF SInv, IInv
<1> QED
  BY <1>1, <1>2, <1>3 DEF SInv, HeldInv, HeldSame

\* An attempt that emits or bails out settles the hook it holds.
LEMMA EmitHeld ==
  ASSUME SInv, NEW x \in Attempts, NEW a, NEW t, GoesOn(x, a, t), t.slot = s.slot,
         Emit(x, a, t), UNCHANGED <<late, work, used>>
  PROVE  HeldInv'
<1>1. s'.slot \in {s.slot, None}
  BY EmitInv DEF SInv
<1>2. a.held = att[x].held
  BY DEF GoesOn
<1>3. /\ Returns(x, a, TRUE)
      /\ \/ written' = written \ {a.held} /\ UNCHANGED carried
         \/ carried' = carried \union ({a.held} \ {None}) /\ UNCHANGED written
  BY DEF Emit
<1> DEFINE b == [NoAttempt EXCEPT !.pc = "leaving", !.root = a.root, !.result = TRUE]
<1>4. att' = [att EXCEPT ![x] = b] /\ b.held = None
  BY <1>3 DEF Returns, NoAttempt
<1> HIDE DEF b
<1> QED
  BY <1>1, <1>2, <1>3, <1>4, HeldSettled

\* The same of bailing out.
LEMMA BailHeld ==
  ASSUME SInv, NEW x \in Attempts, NEW a, GoesOn(x, a, s),
         Bail(x, a), UNCHANGED <<late, work, used>>
  PROVE  HeldInv'
<1>1. s'.slot = s.slot
  BY BailInv DEF SInv
<1>2. a.held = att[x].held
  BY DEF GoesOn
<1>3. Returns(x, a, FALSE) /\ written' = written \ {a.held} /\ UNCHANGED carried
  BY DEF Bail
<1> DEFINE b == [NoAttempt EXCEPT !.pc = "leaving", !.root = a.root, !.result = FALSE]
<1>4. att' = [att EXCEPT ![x] = b] /\ b.held = None
  BY <1>3 DEF Returns, NoAttempt
<1> HIDE DEF b
<1> QED
  BY <1>1, <1>2, <1>3, <1>4, HeldSettled

\* An attempt that goes on replaces or settles the hook it holds.
LEMMA ProceedHeld ==
  ASSUME SInv, NEW x \in Attempts, NEW a, NEW t, GoesOn(x, a, t), t.slot = s.slot,
         Proceed(x, a, t), UNCHANGED <<late, work, used>>
  PROVE  HeldInv'
<1>1. CASE t.slot = None
  BY <1>1, EmitHeld DEF Proceed
<1>2. CASE t.slot # None
  <2>1. PICK h \in {t.slot, None} :
          /\ s' = [t EXCEPT !.slot = None]
          /\ att' = [att EXCEPT ![x] = [a EXCEPT !.pc = "hook", !.held = h]]
          /\ written' = (written \ {a.held}) \union ({h} \ {None}) /\ UNCHANGED carried
    BY <1>2 DEF Proceed
  <2> DEFINE b == [a EXCEPT !.pc = "hook", !.held = h]
  <2>2. Prepares(b) /\ b.held = h
    BY DEF GoesOn, Attempt, Prepares
  <2>3. s'.slot = None /\ a.held = att[x].held
    BY <2>1 DEF GoesOn, StateInv, State
  <2>4. att' = [att EXCEPT ![x] = b]
    BY <2>1
  <2> HIDE DEF b
  <2> QED
    BY <2>1, <2>2, <2>3, <2>4, HeldReplaced
<1> QED
  BY <1>1, <1>2

\* Attempts that make progress.
LEMMA ProgressesHeld ==
  ASSUME SInv, NEW x \in Attempts, Progresses(x)
  PROVE  HeldInv'
<1>1. CASE Enter(x)
  <2>1. ASSUME s' = Fenced(x), UNCHANGED <<written, carried>>,
               att' = [att EXCEPT ![x] = [Entered(x) EXCEPT !.pc = "caller"]]
        PROVE  HeldInv'
    <3> DEFINE b == [Entered(x) EXCEPT !.pc = "caller"]
    <3>1. GoesOn(x, Entered(x), Fenced(x)) /\ Fenced(x).slot = s.slot
      BY <1>1, EnterCases DEF SInv
    <3>2. Prepares(b) /\ b.held = att[x].held
      BY <3>1 DEF GoesOn, Attempt, Prepares
    <3> HIDE DEF b
    <3>3. \A y \in Attempts : att'[y] = IF y = x THEN b ELSE att[y]
      BY <2>1 DEF SInv, IInv, b
    <3>4. HeldSame
      BY <3>2, <3>3 DEF SInv, HeldInv, HeldSame
    <3> QED
      BY <2>1, <3>1, <3>4, HeldKept
  <2> QED
    BY <1>1, <2>1, EnterCases, BailHeld, ProceedHeld DEF SInv
<1>2. CASE TurnedAway(x)
  <2> DEFINE b == [NoAttempt EXCEPT !.pc = "leaving", !.root = att[x].root, !.result = TRUE]
  <2>1. /\ att' = [att EXCEPT ![x] = b] /\ b.held = None /\ ~Prepares(att[x])
        /\ UNCHANGED <<s, written, carried>>
    BY <1>2 DEF TurnedAway, Waits, Returns, NoAttempt, Prepares
  <2> HIDE DEF b
  <2>2. \A y \in Attempts : att'[y] = IF y = x THEN b ELSE att[y]
    BY <2>1 DEF SInv, IInv
  <2>3. HeldSame
    BY <2>1, <2>2 DEF SInv, HeldInv, HeldSame
  <2> QED
    BY <2>1, <2>3, HeldKept
<1>3. CASE Leave(x)
  <2>1. /\ att' = [att EXCEPT ![x] = NoAttempt] /\ ~Prepares(att[x])
        /\ UNCHANGED <<written, carried>>
    BY <1>3 DEF Leave, Prepares
  <2>2. NoAttempt.held = None /\ \A y \in Attempts : att'[y] = IF y = x THEN NoAttempt ELSE att[y]
    BY <2>1 DEF SInv, IInv, NoAttempt
  <2>3. HeldSame
    BY <2>1, <2>2 DEF SInv, HeldInv, HeldSame
  <2>4. s'.slot = s.slot
    BY <1>3 DEF Leave, SInv, IInv, StateInv, State
  <2> QED
    BY <2>1, <2>3, <2>4, HeldKept
<1>4. CASE HookPrepared(x) \/ \E ok \in BOOLEAN : CallerPrepared(x, ok)
  BY <1>4, PreparedCases, BailHeld, ProceedHeld DEF SInv
<1> QED
  BY <1>1, <1>2, <1>3, <1>4 DEF Progresses

\* Deferrals and the timer hold nothing.
LEMMA DeferralsHeld ==
  ASSUME SInv,
         \/ \E x \in Reloads : ReloadDefers(x) \/ Cancel(x)
         \/ \E x \in Deferrals : Elapse(x) \/ Tick(x)
         \/ TimerFires
  PROVE  HeldInv'
<1>1. Reloads \subseteq Attempts /\ Timers \subseteq Attempts /\ Forced \subseteq Attempts
      /\ Deferrals \subseteq Attempts /\ s \in State
  BY DEF Attempts, Deferrals, SInv, IInv, StateInv
<1>2. UNCHANGED <<written, carried>>
  BY DEF ReloadDefers, Cancel, Elapse, Tick, TimerFires
<1>3. ASSUME NEW x \in Attempts, Deferred(x) PROVE HeldSame
  BY <1>3, UnchangedSame, LaunchSame DEF Deferred
<1>4. ASSUME NEW x \in Reloads, ReloadDefers(x)
      PROVE  HeldSame /\ s'.slot = s.slot
  BY <1>1, <1>3, <1>4 DEF ReloadDefers, State
<1>5. ASSUME NEW x \in Reloads, Cancel(x)
      PROVE  HeldSame /\ s'.slot = s.slot
  <2>1. x \in Attempts /\ att[x] \in Attempt
    BY <1>1 DEF SInv, IInv
  <2>2. CASE att' = att /\ s' = [s EXCEPT !.polls = @ \ {x}]
    BY <1>1, <2>2, UnchangedSame DEF State
  <2>3. CASE /\ Inside(x) /\ att' = [att EXCEPT ![x].current = FALSE]
             /\ s' = [RolledBack(s, x, att[x]) EXCEPT !.polls = @ \ {x}]
    <3> DEFINE b == [att[x] EXCEPT !.current = FALSE]
    <3>1. b.held = att[x].held /\ Prepares(b) /\ att' = [att EXCEPT ![x] = b]
      BY <2>1, <2>3 DEF Attempt, Prepares, Inside
    <3> HIDE DEF b
    <3>2. \A y \in Attempts : att'[y] = IF y = x THEN b ELSE att[y]
      BY <3>1 DEF SInv, IInv
    <3>3. HeldSame
      BY <3>1, <3>2 DEF SInv, HeldInv, HeldSame
    <3>4. att[x].owns
      BY <2>1, <2>3 DEF SInv, IInv, AttemptInv, Prepares, Inside
    <3>5. RolledBack(s, x, att[x]) \in State /\ RolledBack(s, x, att[x]).slot = s.slot
      BY <2>1, <3>4, RolledBackInv DEF SInv, IInv, StateInv
    <3> HIDE DEF RolledBack
    <3>6. s'.slot = s.slot
      BY <2>3, <3>5 DEF State
    <3> QED
      BY <3>3, <3>6
  <2> QED
    BY <1>5, <2>2, <2>3 DEF Cancel, RolledBack
<1>6. ASSUME NEW x \in Deferrals, Elapse(x)
      PROVE  HeldSame /\ s'.slot = s.slot
  BY <1>6, UnchangedSame DEF Elapse
<1>7. ASSUME NEW x \in Deferrals, Tick(x)
      PROVE  HeldSame /\ s'.slot = s.slot
  <2>1. HeldSame
    BY <1>1, <1>7, UnchangedSame, LaunchSame DEF Tick, Attempted
  <2>2. s' = s \/ s' = [s EXCEPT !.polls = @ \ {x}]
    BY <1>7 DEF Tick
  <2> QED
    BY <1>1, <2>1, <2>2 DEF State
<1>8. CASE TimerFires
  <2>1. HeldSame
    BY <1>1, <1>3, <1>8, LaunchSame DEF TimerFires
  <2>2. s'.slot = s.slot
    BY <1>1, <1>8 DEF TimerFires, State
  <2> QED
    BY <1>2, <2>1, <2>2, HeldKept
<1> QED
  BY <1>2, <1>4, <1>5, <1>6, <1>7, <1>8, HeldKept

\* A request offers a hook that was never offered before.
LEMMA ScheduleHeld ==
  ASSUME SInv, NEW h \in Hooks \union {None}, NEW skip \in BOOLEAN, NEW earlier \in BOOLEAN,
         NEW keep \in BOOLEAN, Schedule(h, skip, earlier, keep)
  PROVE  HeldInv'
<1>1. s'.slot \in {h, s.slot} /\ h \notin used /\ UNCHANGED <<written, carried>>
  BY ScheduleInv DEF SInv, Schedule
<1>2. HeldSame
  <2>1. CASE UNCHANGED att
    BY <2>1, UnchangedSame
  <2>2. CASE \E x \in Forced : Free(x) /\ att' = [att EXCEPT ![x] = Launched(TRUE)]
    BY <2>2, LaunchSame DEF Attempts
  <2> QED
    BY <2>1, <2>2 DEF Schedule, ScheduleFirst, ScheduleBypass, ScheduleEarlier, ScheduleCoalesced
<1> QED
  BY <1>1, <1>2, HeldKept

\* The signal, the run loop and everybody else leave what is held alone.
LEMMA OthersHeld ==
  ASSUME SInv,
         \/ DirectEmit \/ Accept \/ AcceptIntent \/ Refuse \/ Expire \/ Sigusr1
         \/ InProcessRestart \/ WorkBegins \/ RestartRequested \/ WorkEnds \/ Suspend
         \/ Resume \/ UNCHANGED vars
  PROVE  HeldInv'
<1>1. s \in State /\ StateInv(s)
  BY DEF SInv, IInv, StateInv
<1>2. CASE DirectEmit
  <2>1. s'.slot \in {s.slot, None}
    BY <1>1, <1>2, EmissionsInv DEF DirectEmit
  <2> QED
    BY <1>2, <2>1, UnchangedSame, HeldKept DEF DirectEmit
<1>3. CASE InProcessRestart
  <2>1. s'.slot = None
    BY <1>1, <1>3 DEF InProcessRestart, Unscheduled, Reopened, State
  <2>2. ASSUME NEW x \in Attempts
        PROVE  /\ att'[x].held = att[x].held
               /\ ~Prepares(att'[x]) => att[x].held = None
    <3>1. att[x] \in Attempt /\ (~Prepares(att[x]) => att[x].held = None)
      BY DEF SInv, IInv, HeldInv
    <3>2. att'[x] = IF Free(x) THEN att[x] ELSE [att[x] EXCEPT !.current = FALSE, !.root = FALSE]
      BY <1>3 DEF InProcessRestart
    <3> QED
      BY <3>1, <3>2 DEF Attempt, Prepares
  <2>3. HeldSame
    BY <2>2 DEF HeldSame
  <2>4. UNCHANGED <<written, carried>>
    BY <1>3 DEF InProcessRestart
  <2> QED
    BY <2>1, <2>3, <2>4, HeldKept
<1>4. CASE Accept \/ AcceptIntent
  <2>1. s'.slot = s.slot
    BY <1>1, <1>4 DEF Accept, AcceptIntent, Handled, Draining, State
  <2> QED
    BY <1>4, <2>1, UnchangedSame, HeldKept DEF Accept, AcceptIntent
<1>5. CASE Refuse
  <2>1. s'.slot = s.slot
    BY <1>1, <1>5 DEF Refuse, Reopened, State
  <2> QED
    BY <1>5, <2>1, UnchangedSame, HeldKept DEF Refuse
<1>6. CASE Expire \/ Sigusr1 \/ Suspend \/ Resume
  <2>1. s'.slot = s.slot
    BY <1>1, <1>6 DEF Expire, Sigusr1, Suspend, Resume, State
  <2> QED
    BY <1>6, <2>1, UnchangedSame, HeldKept DEF Expire, Sigusr1, Suspend, Resume
<1>7. CASE WorkBegins \/ RestartRequested \/ WorkEnds \/ UNCHANGED vars
  <2>1. UNCHANGED <<s, att, written, carried>>
    BY <1>7 DEF WorkBegins, RestartRequested, WorkEnds, vars
  <2> QED
    BY <2>1, UnchangedSame, HeldKept
<1> QED
  BY <1>2, <1>3, <1>4, <1>5, <1>6, <1>7

\* A written sentinel belongs to an attempt that prepares, or went with a delivered
\* signal (restart.ts:567), however attempts overlap, are cancelled or superseded,
\* and however sessions replace their hooks.
THEOREM SentinelsSettled == Spec => []SentinelSettled
<1>1. Init => SInv
  <2> SUFFICES ASSUME Init PROVE SInv
    OBVIOUS
  <2>1. NoAttempt.held = None /\ \A x \in Attempts : att[x] = NoAttempt
    BY DEF Init, NoAttempt
  <2>2. written = {} /\ carried = {}
    BY DEF Init
  <2>3. None \notin Hooks
    BY RestartAssumption
  <2> QED
    BY <2>1, <2>2, <2>3, InitInv DEF SInv, HeldInv
<1>2. SInv /\ [Next]_vars => SInv'
  <2> SUFFICES ASSUME SInv, [Next]_vars PROVE SInv'
    OBVIOUS
  <2>1. IInv'
    BY NextInv DEF SInv
  <2>2. HeldInv'
    BY ProgressesHeld, DeferralsHeld, ScheduleHeld, OthersHeld DEF Next
  <2> QED
    BY <2>1, <2>2 DEF SInv
<1>3. SInv => SentinelSettled
  <2> SUFFICES ASSUME SInv PROVE SentinelSettled
    OBVIOUS
  <2> DEFINE held == {att[x].held : x \in {y \in Attempts : Inside(y)}}
  <2>1. written \subseteq Hooks /\ carried \subseteq Hooks /\ None \notin Hooks
    BY RestartAssumption DEF SInv, IInv, OfferedInv
  <2>2. \A x \in Attempts : /\ att[x].held \in Hooks \union {None}
                            /\ att[x].held # None => Inside(x)
    BY DEF SInv, IInv, OfferedInv, HeldInv, Inside, Prepares
  <2>3. \A h \in Hooks : h \in held <=> \E x \in Attempts : att[x].held = h
    BY <2>1, <2>2
  <2>4. held \ {None} \subseteq Hooks
    BY <2>2
  <2> HIDE DEF held
  <2>5. written = carried \union (held \ {None})
    BY <2>1, <2>3, <2>4 DEF SInv, HeldInv
  <2> QED
    BY <2>5 DEF SentinelSettled, held
<1> QED
  BY <1>1, <1>2, <1>3, PTL DEF Spec

-----------------------------------------------------------------------------
(* The restart that is prepared.                                           *)

\* No restart is prepared, or a drain has begun.
Settled(t) == ~t.preparing \/ t.drain

\* A forced attempt that waits bypasses other work; one at its hooks emits when it
\* is still current.
Pursues(a) == /\ a.pc \in {"asked", "parked", "hook"} /\ a.current
              /\ a.pc # "hook" => a.forced

\* A signal in flight leaves nothing scheduled.
SignalInv(t) == t.unconsumed => ~t.timer /\ ~t.preparing

\* Only a reload has hooks of its own, and may return without having settled the
\* restart.
OwnInv(t, a) == /\ a.pc # "caller" /\ ~a.caller
                /\ a.pc = "leaving" /\ a.result => Settled(t)

\* A restart that is prepared is polled for, was given up, or is pursued by a
\* forced attempt.
WayInv ==
  /\ SignalInv(s)
  /\ \A x \in Attempts \ Reloads : OwnInv(s, att[x])
  /\ \/ Settled(s)
     \/ \E x \in Timers : x \in s.polls \union late
     \/ \E x \in Forced : Pursues(att[x])

PInv == IInv /\ WayInv

\* The timer's deferrals stay polled for or late.
TimersKept == \A y \in Timers : y \in s.polls \union late => y \in s'.polls \union late'

\* A step that leaves the pursuit of a restart to those who had it.
LEMMA WayKept ==
  ASSUME PInv, SignalInv(s'), Settled(s) => Settled(s'),
         \A y \in Attempts \ Reloads : att'[y] = att[y] \/ OwnInv(s', att'[y]),
         \/ Settled(s')
         \/ TimersKept /\ \A y \in Forced : Pursues(att[y]) => Pursues(att'[y])
  PROVE  WayInv'
<1>1. \A y \in Attempts \ Reloads : OwnInv(s', att'[y])
  BY DEF PInv, WayInv, OwnInv
<1>2. \/ Settled(s')
      \/ \E x \in Timers : x \in s'.polls \union late'
      \/ \E x \in Forced : Pursues(att'[x])
  BY DEF PInv, WayInv, TimersKept
<1> QED
  BY <1>1, <1>2 DEF WayInv

\* One attempt changes.
LEMMA OneWay ==
  ASSUME PInv, SignalInv(s'), Settled(s) => Settled(s'),
         NEW x \in Attempts, NEW b, att' = [att EXCEPT ![x] = b],
         x \notin Reloads => OwnInv(s', b),
         Settled(s') \/ (TimersKept /\ (x \in Forced /\ Pursues(att[x]) => Pursues(b)))
  PROVE  WayInv'
<1>1. \A y \in Attempts : att'[y] = IF y = x THEN b ELSE att[y]
  BY DEF PInv, IInv
<1>2. Forced \subseteq Attempts
  BY DEF Attempts
<1> QED
  BY <1>1, <1>2, WayKept

\* A change of nothing that concerns the pursuit.
Alike(t, u) == /\ u.preparing = t.preparing /\ u.timer = t.timer /\ u.polls = t.polls
               /\ u.unconsumed = t.unconsumed /\ u.drain = t.drain

\* Nothing is lost by it.
LEMMA AlikeKept ==
  ASSUME PInv, Alike(s, s'), UNCHANGED late
  PROVE  SignalInv(s') /\ (Settled(s) <=> Settled(s')) /\ TimersKept
  BY DEF PInv, WayInv, SignalInv, Settled, Alike, TimersKept

\* Rolling back concerns fence and lease alone.
LEMMA RolledBackAlike ==
  ASSUME NEW t, t \in State, NEW x, NEW a
  PROVE  Alike(t, RolledBack(t, x, a))
  BY DEF RolledBack, Alike, State

\* An emission leaves nothing scheduled, unless it was refused: then a signal is
\* in flight or a drain has begun.
LEMMA EmissionsWay ==
  ASSUME NEW t, t \in State, NEW x \in Attempts \union {Direct}, NEW e \in Emissions(t, x)
  PROVE  \/ e.to = t /\ (t.drain \/ t.unconsumed) /\ e.status # "emitted"
         \/ ~e.to.preparing /\ ~e.to.timer
<1> DEFINE c == [Unscheduled(Acquired(t, x)) EXCEPT !.polls = {}]
           more == [c EXCEPT !.unconsumed = TRUE, !.authorized = More(@), !.handlers = @ + 1]
<1>1. CASE ~Acquires(t)
  BY <1>1 DEF Emissions, Acquires
<1>2. CASE Acquires(t)
  <2>1. ~c.preparing /\ ~c.timer
    BY DEF Unscheduled, Acquired, State
  <2>2. /\ more.preparing = c.preparing /\ more.timer = c.timer
        /\ Reopened(c).preparing = c.preparing /\ Reopened(c).timer = c.timer
    BY DEF Reopened, Unscheduled, Acquired, State
  <2>3. e.to \in {c, more, Reopened(c)}
    BY <1>2 DEF Emissions
  <2> HIDE DEF c
  <2> QED
    BY <2>1, <2>2, <2>3
<1> QED
  BY <1>1, <1>2

\* The emission of an attempt settles the restart; the hooks of a reload may
\* refuse to.
LEMMA EmitWay ==
  ASSUME PInv, NEW x \in Attempts, NEW a, NEW t, GoesOn(x, a, t), Alike(s, t),
         x \notin Reloads => ~a.caller,
         Emit(x, a, t), UNCHANGED <<late, work, used>>
  PROVE  WayInv'
<1> DEFINE u == [t EXCEPT !.session = None]
<1>1. t \in State /\ a \in Attempt
  BY DEF GoesOn, StateInv
<1>2. StateInv(u) /\ Alike(s, u)
  BY <1>1 DEF GoesOn, StateInv, State, Alike
<1> HIDE DEF u
<1>3. PICK e \in Emissions(u, x) \union Refusals(u, a) :
        /\ s' = IF e.status = "emitted" THEN e.to ELSE RolledBack(e.to, x, a)
        /\ Returns(x, a, TRUE)
  BY DEF Emit, u
<1>4. \/ e.to = u /\ (u.drain \/ u.unconsumed \/ x \in Reloads)
      \/ ~e.to.preparing /\ ~e.to.timer
  <2>1. CASE e \in Emissions(u, x)
    BY <1>2, <2>1, EmissionsWay DEF StateInv
  <2>2. CASE e \in Refusals(u, a)
    <3>1. e.to = u /\ a.caller
      BY <2>2 DEF Refusals
    <3> QED
      BY <3>1
  <2> QED
    BY <1>3, <2>1, <2>2
<1>5. e.to \in State
  <2>1. CASE e \in Emissions(u, x)
    BY <1>2, <2>1, EmissionsInv DEF StateInv
  <2>2. CASE e \in Refusals(u, a)
    <3>1. e.to = u
      BY <2>2 DEF Refusals
    <3> QED
      BY <1>2, <3>1 DEF StateInv
  <2> QED
    BY <1>3, <2>1, <2>2
<1>6. Alike(e.to, s')
  BY <1>3, <1>5, RolledBackAlike DEF Alike
<1> DEFINE b == [NoAttempt EXCEPT !.pc = "leaving", !.root = a.root, !.result = TRUE]
<1>7. att' = [att EXCEPT ![x] = b] /\ b.pc = "leaving" /\ ~b.caller
  BY <1>3 DEF Returns, NoAttempt
<1> HIDE DEF b
<1>8. CASE e.to = u
  <2>1. Alike(s, s') /\ UNCHANGED late
    BY <1>2, <1>6, <1>8 DEF Alike
  <2>2. Settled(s') \/ x \in Reloads
    <3>1. \/ ~e.to.preparing \/ u.drain \/ u.unconsumed \/ x \in Reloads
      BY <1>4
    <3> QED
      BY <1>2, <1>8, <2>1, <3>1 DEF PInv, WayInv, SignalInv, Settled, Alike
  <2>3. Settled(s') \/ x \notin Forced
    BY <2>2, RestartAssumption DEF Deferrals
  <2>4. x \notin Reloads => OwnInv(s', b)
    BY <1>7, <2>2 DEF OwnInv
  <2> QED
    BY <1>7, <2>1, <2>3, <2>4, AlikeKept, OneWay
<1>9. CASE ~e.to.preparing /\ ~e.to.timer
  <2>1. ~s'.preparing /\ ~s'.timer
    BY <1>6, <1>9 DEF Alike
  <2>2. SignalInv(s') /\ Settled(s') /\ OwnInv(s', b)
    BY <1>7, <2>1 DEF SignalInv, Settled, OwnInv
  <2> QED
    BY <1>7, <2>2, OneWay
<1> QED
  BY <1>4, <1>8, <1>9

\* A forced attempt bails out only when it is superseded, or a signal in flight
\* has settled the restart.
LEMMA BailWay ==
  ASSUME PInv, NEW x \in Attempts, NEW a, Bail(x, a), UNCHANGED late,
         Pursues(att[x]) => s.unconsumed
  PROVE  WayInv'
<1>1. s \in State
  BY DEF PInv, IInv, StateInv
<1>2. Alike(s, s')
  BY <1>1, RolledBackAlike DEF Bail
<1> DEFINE b == [NoAttempt EXCEPT !.pc = "leaving", !.root = a.root, !.result = FALSE]
<1>3. att' = [att EXCEPT ![x] = b] /\ b.pc = "leaving" /\ ~b.caller /\ ~b.result
  BY DEF Bail, Returns, NoAttempt
<1> HIDE DEF b
<1>4. OwnInv(s', b)
  BY <1>3 DEF OwnInv
<1>5. Pursues(att[x]) => Settled(s')
  BY <1>2 DEF PInv, WayInv, SignalInv, Settled, Alike
<1> QED
  BY <1>2, <1>3, <1>4, <1>5, AlikeKept, OneWay

\* Going on to the next parked hook is pursuing the restart.
LEMMA ProceedWay ==
  ASSUME PInv, NEW x \in Attempts, NEW a, NEW t, GoesOn(x, a, t), Alike(s, t),
         x \notin Reloads => ~a.caller, a.current,
         Proceed(x, a, t), UNCHANGED <<late, work, used>>
  PROVE  WayInv'
<1>1. CASE t.slot = None
  BY <1>1, EmitWay DEF Proceed
<1>2. CASE t.slot # None
  <2>1. PICK h \in {t.slot, None} :
          /\ s' = [t EXCEPT !.slot = None]
          /\ att' = [att EXCEPT ![x] = [a EXCEPT !.pc = "hook", !.held = h]]
    BY <1>2 DEF Proceed
  <2> DEFINE b == [a EXCEPT !.pc = "hook", !.held = h]
  <2>2. b.pc = "hook" /\ b.current /\ b.caller = a.caller /\ att' = [att EXCEPT ![x] = b]
    BY <2>1 DEF GoesOn, Attempt
  <2> HIDE DEF b
  <2>3. Alike(s, s')
    BY <2>1 DEF GoesOn, StateInv, State, Alike
  <2>4. Pursues(b) /\ (x \notin Reloads => OwnInv(s', b))
    BY <2>2 DEF Pursues, OwnInv
  <2> QED
    BY <2>2, <2>3, <2>4, AlikeKept, OneWay
<1> QED
  BY <1>1, <1>2

\* An attempt that enters has waited: it does not come from a hook.
LEMMA EnterWay ==
  ASSUME PInv, NEW x \in Attempts, Enter(x)
  PROVE  WayInv'
<1>1. /\ IInv /\ s \in State /\ att[x] \in Attempt /\ Waits(x) /\ UNCHANGED <<late, work, used>>
      /\ GoesOn(x, Entered(x), Fenced(x))
  BY EnterCases DEF PInv, IInv, StateInv, Enter
<1>2. /\ Entered(x).current = att[x].current /\ Entered(x).caller = att[x].caller
      /\ Alike(s, Fenced(x))
  BY <1>1 DEF Entered, Fenced, Attempt, State, Alike
<1>3. x \notin Reloads => ~Entered(x).caller
  BY <1>2 DEF PInv, WayInv, OwnInv
<1>4. CASE \E a : Bail(x, a) /\ (~att[x].current \/ s.unconsumed \/ ~att[x].forced)
  BY <1>1, <1>4, BailWay DEF Pursues, Waits
<1>5. CASE Entered(x).current /\ Proceed(x, Entered(x), Fenced(x))
  BY <1>1, <1>2, <1>3, <1>5, ProceedWay
<1>6. ASSUME x \in Reloads, s' = Fenced(x),
             att' = [att EXCEPT ![x] = [Entered(x) EXCEPT !.pc = "caller"]]
      PROVE  WayInv'
  <2>1. Alike(s, s') /\ x \notin Forced
    BY <1>2, <1>6, RestartAssumption DEF Deferrals
  <2> QED
    BY <1>1, <1>6, <2>1, AlikeKept, OneWay
<1> DEFINE a == [att[x] EXCEPT !.forced = FALSE, !.root = TRUE, !.owns = s.lease = None]
           t == IF a.owns THEN [s EXCEPT !.fence = x, !.lease = x] ELSE s
<1>7. s.lease = None
  BY <1>1 DEF IInv, StateInv, Enter, Open
<1>8. a = Entered(x) /\ a.current = att[x].current /\ t = Fenced(x)
  BY <1>1, <1>7 DEF Entered, Fenced, Attempt
<1>9. \/ Bail(x, a) /\ (~a.current \/ s.unconsumed \/ ~att[x].forced)
      \/ a.current /\ Proceed(x, a, t)
      \/ x \in Reloads /\ s' = t /\ att' = [att EXCEPT ![x] = [a EXCEPT !.pc = "caller"]]
  <2> HIDE DEF a, t
  <2> QED
    BY DEF Enter, a, t
<1> HIDE DEF a, t
<1>10. CASE Bail(x, a) /\ (~a.current \/ s.unconsumed \/ ~att[x].forced)
  BY <1>4, <1>8, <1>10
<1> QED
  BY <1>5, <1>6, <1>8, <1>9, <1>10

\* A hook is prepared: only an attempt that is not current any more bails out.
LEMMA PreparedWay ==
  ASSUME PInv, NEW x \in Attempts,
         HookPrepared(x) \/ \E ok \in BOOLEAN : CallerPrepared(x, ok)
  PROVE  WayInv'
<1>1. ASSUME NEW a, Resumes(x, a), Prepares(att[x]), a.current = att[x].current,
             x \notin Reloads => ~a.caller,
             a = att[x] \/ \E ok \in BOOLEAN : a = [att[x] EXCEPT !.caller = ok]
      PROVE  WayInv'
  <2>1. GoesOn(x, a, s) /\ UNCHANGED <<late, work, used>>
    BY <1>1, ResumesCases DEF PInv
  <2>2. Alike(s, s)
    BY DEF Alike
  <2>3. CASE a.current
    <3>1. Proceed(x, a, s)
      BY <1>1, <2>3 DEF Resumes
    <3> QED
      BY <1>1, <2>1, <2>2, <2>3, <3>1, ProceedWay
  <2>4. CASE ~a.current
    <3>1. Bail(x, a)
      BY <1>1, <2>4 DEF Resumes
    <3> QED
      BY <1>1, <2>1, <2>4, <3>1, BailWay DEF Pursues
  <2> QED
    BY <2>3, <2>4
<1>2. att[x] \in Attempt
  BY DEF PInv, IInv
<1>3. CASE HookPrepared(x)
  <2>1. x \notin Reloads => ~att[x].caller
    BY DEF PInv, WayInv, OwnInv
  <2> QED
    BY <1>1, <1>3, <2>1 DEF HookPrepared, Prepares
<1>4. CASE \E ok \in BOOLEAN : CallerPrepared(x, ok)
  <2>1. PICK ok \in BOOLEAN : CallerPrepared(x, ok)
    BY <1>4
  <2>2. PICK a : a = [att[x] EXCEPT !.caller = ok]
    OBVIOUS
  <2>3. x \in Reloads /\ Prepares(att[x]) /\ Resumes(x, a)
    BY <2>1, <2>2 DEF CallerPrepared, Prepares, PInv, WayInv, OwnInv
  <2>4. a.current = att[x].current
    BY <1>2, <2>2 DEF Attempt
  <2> QED
    BY <1>1, <2>2, <2>3, <2>4
<1> QED
  BY <1>3, <1>4

\* A deferral that ends its poll was settled, or belongs to a reload.
LEMMA LeaveWay ==
  ASSUME PInv, NEW x \in Attempts, TurnedAway(x) \/ Leave(x)
  PROVE  WayInv'
<1>1. s \in State
  BY DEF PInv, IInv, StateInv
<1>2. CASE TurnedAway(x)
  <2> DEFINE b == [NoAttempt EXCEPT !.pc = "leaving", !.root = att[x].root, !.result = TRUE]
  <2>1. /\ att' = [att EXCEPT ![x] = b] /\ b.pc = "leaving" /\ ~b.caller
        /\ s.drain /\ UNCHANGED <<s, late>>
    BY <1>2 DEF TurnedAway, Returns, NoAttempt
  <2> HIDE DEF b
  <2>2. SignalInv(s') /\ Settled(s') /\ OwnInv(s', b)
    BY <2>1 DEF PInv, WayInv, SignalInv, Settled, OwnInv
  <2> QED
    BY <2>1, <2>2, OneWay
<1>3. CASE Leave(x)
  <2>1. /\ att' = [att EXCEPT ![x] = NoAttempt] /\ att[x].pc = "leaving"
        /\ \/ ~att[x].result /\ UNCHANGED <<s, late>>
           \/ att[x].result /\ s' = [s EXCEPT !.polls = @ \ {x}] /\ late' = late \ {x}
    BY <1>3 DEF Leave
  <2>2. /\ s'.preparing = s.preparing /\ s'.timer = s.timer /\ s'.drain = s.drain
        /\ s'.unconsumed = s.unconsumed
        /\ \A y \in Attempts : y # x \/ ~att[x].result =>
             (y \in s.polls \union late => y \in s'.polls \union late')
    BY <1>1, <2>1 DEF State
  <2>3. SignalInv(s') /\ (Settled(s) <=> Settled(s'))
    BY <2>2 DEF PInv, WayInv, SignalInv, Settled
  <2>4. OwnInv(s', NoAttempt) /\ ~Pursues(att[x])
    BY <2>1 DEF OwnInv, NoAttempt, Pursues
  <2>5. Settled(s') \/ TimersKept
    <3>1. CASE x \in Reloads \/ ~att[x].result
      <4>1. Timers \subseteq Attempts /\ (x \in Timers => ~att[x].result)
        BY <3>1, RestartAssumption DEF Attempts, Deferrals
      <4> QED
        BY <2>2, <4>1 DEF TimersKept
    <3>2. CASE x \notin Reloads /\ att[x].result
      BY <2>1, <2>3, <3>2 DEF PInv, WayInv, OwnInv
    <3> QED
      BY <3>1, <3>2
  <2> QED
    BY <2>1, <2>3, <2>4, <2>5, OneWay
<1> QED
  BY <1>2, <1>3

\* Attempts that make progress.
LEMMA ProgressesWay ==
  ASSUME PInv, NEW x \in Attempts, Progresses(x)
  PROVE  WayInv'
  BY EnterWay, LeaveWay, PreparedWay DEF Progresses

\* An attempt that is launched prepares nothing yet; one that was free pursued
\* nothing.
LEMMA LaunchedWay ==
  ASSUME NEW x \in Attempts, Free(x), NEW forced \in BOOLEAN, NEW t
  PROVE  /\ OwnInv(t, Launched(forced)) /\ ~Pursues(att[x])
         /\ forced => Pursues(Launched(forced))
  BY DEF Free, Launched, NoAttempt, OwnInv, Pursues

\* A step that launches one attempt at most.
LEMMA LaunchWay ==
  ASSUME PInv, SignalInv(s'), Settled(s) => Settled(s'), TimersKept,
         \/ UNCHANGED att
         \/ \E x \in Attempts, forced \in BOOLEAN :
              Free(x) /\ att' = [att EXCEPT ![x] = Launched(forced)]
  PROVE  WayInv'
<1>1. CASE UNCHANGED att
  BY <1>1, WayKept
<1>2. CASE \E x \in Attempts, forced \in BOOLEAN :
             Free(x) /\ att' = [att EXCEPT ![x] = Launched(forced)]
  <2>1. PICK x \in Attempts, forced \in BOOLEAN :
               Free(x) /\ att' = [att EXCEPT ![x] = Launched(forced)]
    BY <1>2
  <2>2. PICK b : b = Launched(forced)
    OBVIOUS
  <2>3. OwnInv(s', b) /\ ~Pursues(att[x])
    BY <2>1, <2>2, LaunchedWay
  <2> QED
    BY <2>1, <2>2, <2>3, OneWay
<1> QED
  BY <1>1, <1>2

\* A forced attempt that is launched pursues whatever is prepared.
LEMMA ForcedWay ==
  ASSUME PInv, SignalInv(s'),
         \A y \in Attempts : att[y].pc # "leaving" \/ (Settled(s) => Settled(s')),
         NEW x \in Forced, Free(x), att' = [att EXCEPT ![x] = Launched(TRUE)]
  PROVE  WayInv'
<1>1. x \in Attempts
  BY DEF Attempts
<1>2. PICK b : b = Launched(TRUE)
  OBVIOUS
<1>3. OwnInv(s', b) /\ Pursues(b)
  BY <1>1, <1>2, LaunchedWay
<1>4. \A y \in Attempts : att'[y] = IF y = x THEN b ELSE att[y]
  BY <1>2 DEF PInv, IInv
<1>5. \A y \in Attempts \ Reloads : OwnInv(s', att'[y])
  BY <1>3, <1>4 DEF PInv, WayInv, OwnInv
<1> QED
  BY <1>1, <1>3, <1>4, <1>5 DEF WayInv

\* A poll ends over its own attempt only when it is late, and a reload's poll is
\* not for the timer's restart.
LEMMA DeferralsWay ==
  ASSUME PInv,
         \/ \E x \in Reloads : ReloadDefers(x) \/ Cancel(x)
         \/ \E x \in Deferrals : Elapse(x) \/ Tick(x)
  PROVE  WayInv'
<1>1. /\ s \in State /\ Deferrals \subseteq Attempts /\ Reloads \subseteq Attempts
      /\ Timers \intersect Reloads = {} /\ Reloads \intersect Forced = {}
  BY RestartAssumption DEF PInv, IInv, StateInv, Attempts, Deferrals
<1> DEFINE Same == /\ s'.preparing = s.preparing /\ s'.timer = s.timer
                   /\ s'.unconsumed = s.unconsumed /\ s'.drain = s.drain
<1>2. ASSUME Same PROVE SignalInv(s') /\ (Settled(s) <=> Settled(s'))
  BY <1>2 DEF PInv, WayInv, SignalInv, Settled
<1>3. ASSUME NEW x \in Reloads, ReloadDefers(x)
      PROVE  WayInv'
  <2>1. Same /\ s'.polls = s.polls \union {x} /\ late' = late \ {x}
    BY <1>1, <1>3 DEF ReloadDefers, Deferred, State
  <2>2. TimersKept
    BY <1>1, <2>1 DEF TimersKept
  <2>3. \/ UNCHANGED att
        \/ \E y \in Attempts, forced \in BOOLEAN :
             Free(y) /\ att' = [att EXCEPT ![y] = Launched(forced)]
    BY <1>1, <1>3 DEF ReloadDefers, Deferred
  <2> QED
    BY <1>2, <2>1, <2>2, <2>3, LaunchWay
<1>4. ASSUME NEW x \in Reloads, Cancel(x)
      PROVE  WayInv'
  <2>1. PICK r : r = IF Inside(x) THEN RolledBack(s, x, att[x]) ELSE s
    OBVIOUS
  <2>2. Alike(s, r) /\ r \in State
    <3>1. CASE Inside(x)
      <4>1. att[x] \in Attempt /\ att[x].owns
        BY <1>1, <3>1 DEF PInv, IInv, AttemptInv, Inside, Prepares
      <4> QED
        BY <1>1, <2>1, <3>1, <4>1, RolledBackInv, RolledBackAlike DEF PInv, IInv, StateInv
    <3>2. CASE ~Inside(x)
      BY <1>1, <2>1, <3>2 DEF Alike
    <3> QED
      BY <3>1, <3>2
  <2>3. s' = [r EXCEPT !.polls = @ \ {x}] /\ late' = late \ {x}
    BY <1>4, <2>1 DEF Cancel
  <2>4. Same /\ s'.polls = s.polls \ {x}
    BY <2>2, <2>3 DEF Alike, State
  <2>5. TimersKept
    BY <1>1, <2>3, <2>4 DEF TimersKept
  <2>6. CASE UNCHANGED att
    BY <1>2, <2>4, <2>5, <2>6, WayKept
  <2>7. CASE att' = [att EXCEPT ![x].current = FALSE]
    <3>1. PICK b : b = [att[x] EXCEPT !.current = FALSE]
      OBVIOUS
    <3>2. att' = [att EXCEPT ![x] = b] /\ x \in Attempts /\ x \notin Forced
      BY <1>1, <2>7, <3>1
    <3> QED
      BY <1>2, <2>4, <2>5, <3>2, OneWay
  <2> QED
    BY <1>4, <2>6, <2>7 DEF Cancel
<1>5. ASSUME NEW x \in Deferrals, Elapse(x)
      PROVE  WayInv'
  <2>1. Same /\ TimersKept /\ UNCHANGED att
    BY <1>5 DEF Elapse, TimersKept
  <2> QED
    BY <1>2, <2>1, LaunchWay
<1>6. ASSUME NEW x \in Deferrals, Tick(x)
      PROVE  WayInv'
  <2>1. UNCHANGED late /\ (UNCHANGED s \/ (x \in late /\ s' = [s EXCEPT !.polls = @ \ {x}]))
    BY <1>6 DEF Tick
  <2>2. Same /\ TimersKept
    BY <1>1, <2>1 DEF TimersKept, State
  <2>3. \/ UNCHANGED att
        \/ \E y \in Attempts, forced \in BOOLEAN :
             Free(y) /\ att' = [att EXCEPT ![y] = Launched(forced)]
    BY <1>1, <1>6 DEF Tick, Attempted
  <2> QED
    BY <1>2, <2>2, <2>3, LaunchWay
<1> QED
  BY <1>3, <1>4, <1>5, <1>6

\* The timer that fires begins the pursuit.
LEMMA TimerFiresWay ==
  ASSUME PInv, TimerFires
  PROVE  WayInv'
<1>1. s \in State /\ s.timer /\ \A x \in Attempts : att[x].pc # "leaving"
  BY DEF PInv, IInv, StateInv, TimerFires, Quiet
<1>2. PICK t : t = [s EXCEPT !.timer = FALSE, !.skip = FALSE, !.preparing = TRUE]
  OBVIOUS
<1>3. /\ t \in State /\ ~t.timer /\ t.unconsumed = s.unconsumed /\ t.polls = s.polls
      /\ t.drain = s.drain
  BY <1>1, <1>2 DEF State
<1>4. ~s.unconsumed
  BY <1>1 DEF PInv, WayInv, SignalInv
<1>5. CASE /\ \E x \in Forced : Free(x) /\ att' = [att EXCEPT ![x] = Launched(TRUE)]
           /\ s' = t
  <2>1. SignalInv(s')
    BY <1>3, <1>4, <1>5 DEF SignalInv
  <2> QED
    BY <1>1, <1>5, <2>1, ForcedWay
<1>6. CASE \E x \in Timers : Deferred(x) /\ s' = [t EXCEPT !.polls = @ \union {x}]
  <2>1. PICK x \in Timers : Deferred(x) /\ s' = [t EXCEPT !.polls = @ \union {x}]
    BY <1>6
  <2>2. x \in s'.polls /\ s'.unconsumed = s.unconsumed /\ x \in Attempts
    BY <1>3, <2>1 DEF State, Attempts, Deferrals
  <2>3. SignalInv(s')
    BY <1>4, <2>2 DEF SignalInv
  <2>4. \A y \in Attempts : att'[y] = att[y] \/ OwnInv(s', att'[y])
    <3>1. PICK b : b = Launched(FALSE)
      OBVIOUS
    <3>2. att' = att \/ (Free(x) /\ att' = [att EXCEPT ![x] = b])
      BY <2>1, <3>1 DEF Deferred
    <3>3. Free(x) => OwnInv(s', b)
      BY <2>2, <3>1, LaunchedWay
    <3> QED
      BY <3>2, <3>3 DEF PInv, IInv
  <2>5. \A y \in Attempts \ Reloads : OwnInv(s', att'[y])
    BY <1>1, <2>4 DEF PInv, WayInv, OwnInv
  <2> QED
    BY <2>1, <2>2, <2>3, <2>5 DEF WayInv
<1> QED
  BY <1>2, <1>5, <1>6 DEF TimerFires

\* A request arms the timer when nothing is scheduled; one that ends the polls
\* launches an attempt instead.
LEMMA ScheduleWay ==
  ASSUME PInv, NEW h \in Hooks \union {None}, NEW skip \in BOOLEAN, NEW earlier \in BOOLEAN,
         NEW keep \in BOOLEAN, Schedule(h, skip, earlier, keep)
  PROVE  WayInv'
<1>1. s \in State /\ UNCHANGED late /\ ~s.unconsumed /\ \A x \in Attempts : att[x].pc # "leaving"
  BY DEF PInv, IInv, StateInv, Schedule, Quiet, ScheduleFirst, ScheduleBypass,
         ScheduleEarlier, ScheduleCoalesced
<1>2. PICK k : k = Session(h)
  OBVIOUS
<1>3. CASE ScheduleFirst(h, skip) \/ ScheduleEarlier(h, skip, keep) \/ ScheduleCoalesced(h, skip)
  <2>1. \/ s' = [s EXCEPT !.timer = TRUE, !.skip = skip, !.slot = h, !.session = k]
        \/ s' = [s EXCEPT !.skip = skip]
        \/ s' = [s EXCEPT !.skip = @ \/ skip]
        \/ s' = [s EXCEPT !.skip = skip, !.slot = h, !.session = k]
        \/ s' = [s EXCEPT !.skip = @ \/ skip, !.slot = h, !.session = k]
    BY <1>2, <1>3 DEF ScheduleFirst, ScheduleEarlier, ScheduleCoalesced
  <2>2. /\ s'.preparing = s.preparing /\ s'.drain = s.drain /\ s'.polls = s.polls
        /\ s'.unconsumed = s.unconsumed
    BY <1>1, <2>1 DEF State
  <2>3. SignalInv(s') /\ (Settled(s) <=> Settled(s')) /\ TimersKept
    BY <1>1, <2>2 DEF SignalInv, Settled, TimersKept
  <2>4. UNCHANGED att
    BY <1>3 DEF ScheduleFirst, ScheduleEarlier, ScheduleCoalesced
  <2> QED
    BY <2>3, <2>4, LaunchWay
<1>4. CASE ScheduleBypass(h, keep)
  <2>1. PICK x \in Forced : Free(x) /\ att' = [att EXCEPT ![x] = Launched(TRUE)]
    BY <1>4 DEF ScheduleBypass
  <2>2. s' = [s EXCEPT !.polls = {}] \/ s' = [s EXCEPT !.polls = {}, !.slot = h, !.session = k]
    BY <1>2, <1>4 DEF ScheduleBypass
  <2>3. s'.unconsumed = s.unconsumed
    BY <1>1, <2>2 DEF State
  <2>4. SignalInv(s')
    BY <1>1, <2>3 DEF SignalInv
  <2> QED
    BY <1>1, <2>1, <2>4, ForcedWay
<1> QED
  BY <1>3, <1>4 DEF Schedule

\* The signal, the run loop and everybody else settle the restart, or leave its
\* pursuit alone.
LEMMA OthersWay ==
  ASSUME PInv,
         \/ DirectEmit \/ Accept \/ AcceptIntent \/ Refuse \/ Expire \/ Sigusr1
         \/ InProcessRestart \/ WorkBegins \/ RestartRequested \/ WorkEnds \/ Suspend
         \/ Resume \/ UNCHANGED vars
  PROVE  WayInv'
<1>1. s \in State
  BY DEF PInv, IInv, StateInv
<1>2. CASE DirectEmit
  <2>1. PICK e \in Emissions(s, Direct) : s' = e.to
    BY <1>2 DEF DirectEmit
  <2>2. s' = s \/ (~s'.preparing /\ ~s'.timer)
    BY <1>1, <2>1, EmissionsWay
  <2>3. UNCHANGED <<att, late>>
    BY <1>2 DEF DirectEmit
  <2>4. SignalInv(s') /\ (Settled(s) => Settled(s')) /\ (Settled(s') \/ TimersKept)
    BY <2>2, <2>3 DEF PInv, WayInv, SignalInv, Settled, TimersKept
  <2> QED
    BY <2>3, <2>4, WayKept
<1>3. CASE InProcessRestart
  <2>1. ~s'.preparing /\ ~s'.timer
    BY <1>1, <1>3 DEF InProcessRestart, Unscheduled, Reopened, State
  <2>2. SignalInv(s') /\ Settled(s')
    BY <2>1 DEF SignalInv, Settled
  <2>3. ASSUME NEW y \in Attempts \ Reloads
        PROVE  OwnInv(s', att'[y])
    <3>1. y \in Attempts /\ att[y] \in Attempt /\ OwnInv(s, att[y])
      BY DEF PInv, IInv, WayInv
    <3>2. att'[y] = IF Free(y) THEN att[y] ELSE [att[y] EXCEPT !.current = FALSE, !.root = FALSE]
      BY <1>3, <3>1 DEF InProcessRestart
    <3>3. att'[y].pc = att[y].pc /\ att'[y].caller = att[y].caller
      BY <3>1, <3>2 DEF Attempt
    <3> QED
      BY <2>2, <3>1, <3>3 DEF OwnInv
  <2> QED
    BY <2>2, <2>3, WayKept
<1>4. CASE Accept \/ AcceptIntent
  <2>1. /\ s'.preparing = s.preparing /\ s'.timer = s.timer /\ s'.drain
        /\ s'.unconsumed \in {s.unconsumed, FALSE}
    BY <1>1, <1>4 DEF Accept, AcceptIntent, Handled, Draining, State
  <2>2. SignalInv(s') /\ Settled(s')
    BY <2>1 DEF PInv, WayInv, SignalInv, Settled
  <2>3. UNCHANGED att
    BY <1>4 DEF Accept, AcceptIntent
  <2> QED
    BY <2>2, <2>3, WayKept
<1>5. CASE Refuse \/ Expire \/ Sigusr1 \/ Suspend \/ Resume
  <2>1. /\ s'.preparing = s.preparing /\ s'.timer = s.timer /\ s'.drain = s.drain
        /\ s'.polls = s.polls /\ s'.unconsumed \in {s.unconsumed, FALSE}
    BY <1>1, <1>5 DEF Refuse, Expire, Sigusr1, Suspend, Resume, Reopened, State
  <2>2. UNCHANGED <<att, late>>
    BY <1>5 DEF Refuse, Expire, Sigusr1, Suspend, Resume
  <2>3. SignalInv(s') /\ (Settled(s) <=> Settled(s')) /\ TimersKept
    BY <2>1, <2>2 DEF PInv, WayInv, SignalInv, Settled, TimersKept
  <2> QED
    BY <2>2, <2>3, LaunchWay
<1>6. CASE WorkBegins \/ RestartRequested \/ WorkEnds \/ UNCHANGED vars
  <2>1. UNCHANGED <<s, att, late>>
    BY <1>6 DEF WorkBegins, RestartRequested, WorkEnds, vars
  <2> QED
    BY <2>1 DEF PInv, WayInv, OwnInv, SignalInv, Settled, Pursues
<1> QED
  BY <1>2, <1>3, <1>4, <1>5, <1>6

\* What later requests coalesce into is still under way (restart.ts:708): however
\* polls are cancelled, bypassed or overtaken, a restart that is prepared is polled
\* for, attempted, in flight or draining, unless its deferral gave up in between.
THEOREM RestartPursued == Spec => []UnderWayUnlessGivenUp
<1>1. Init => PInv
  <2> SUFFICES ASSUME Init PROVE PInv
    OBVIOUS
  <2>1. ~s.preparing /\ ~s.unconsumed
    BY DEF Init
  <2>2. \A x \in Attempts : att[x] = NoAttempt
    BY DEF Init
  <2>3. OwnInv(s, NoAttempt)
    BY DEF OwnInv, NoAttempt
  <2> QED
    BY <2>1, <2>2, <2>3, InitInv DEF PInv, WayInv, SignalInv, Settled
<1>2. PInv /\ [Next]_vars => PInv'
  <2> SUFFICES ASSUME PInv, [Next]_vars PROVE PInv'
    OBVIOUS
  <2>1. IInv'
    BY NextInv DEF PInv
  <2>2. WayInv'
    BY ProgressesWay, DeferralsWay, TimerFiresWay, ScheduleWay, OthersWay DEF Next
  <2> QED
    BY <2>1, <2>2 DEF PInv
<1>3. PInv => UnderWayUnlessGivenUp
  <2> SUFFICES ASSUME PInv, s.preparing, ~UnderWay
               PROVE  \E x \in Timers : GivenUp(x)
    BY DEF UnderWayUnlessGivenUp
  <2>1. s.polls = {} /\ ~s.drain /\ \A x \in Attempts : Free(x)
    BY DEF UnderWay
  <2>2. Timers \subseteq Attempts /\ Forced \subseteq Attempts
    BY DEF Attempts, Deferrals
  <2>3. \A x \in Forced : ~Pursues(att[x])
    BY <2>1, <2>2 DEF Pursues, Free
  <2>4. \E x \in Timers : x \in late
    BY <2>1, <2>3 DEF PInv, WayInv, Settled
  <2> QED
    BY <2>1, <2>2, <2>4 DEF GivenUp
<1> QED
  BY <1>1, <1>2, <1>3, PTL DEF Spec
=============================================================================
