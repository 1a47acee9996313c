------------------------ MODULE DeliveryQueueProofs -------------------------
(***************************************************************************)
(* TLAPS proofs about DeliveryQueue: the types, that nobody but the        *)
(* process that holds the lease of the row changes it, and, for a message  *)
(* of one payload or a batch that is timely and identifies each of its     *)
(* sends, that it is sent once at most and that what is on record of it is *)
(* true.                                                                   *)
(***************************************************************************)
EXTENDS DeliveryQueue, TLAPS

-----------------------------------------------------------------------------
(* The row and its transactions.                                           *)

\* A row names its owner once: as the claim before a send is marked, and as the
\* attempt from then on.
RowInv(r) ==
  /\ r \in Row
  /\ r.state = "claimed" <=> r.claim # None
  /\ r.claim # None => r.attempt = None
  /\ r.state = "none" => r.attempt = None /\ r.lease = 0
  /\ r.state = "claimed" => r.started = 0
  /\ ~Pending(r) => r.state = "none"

\* What a transaction of an owner may make of the row r: it hands the row to nobody
\* else, and it revives no lease.
Moves(r, s) ==
  /\ RowInv(s)
  /\ s.claim \in {None, r.claim}
  /\ s.attempt \in {None, r.attempt, r.claim}
  /\ s.lease = 0 \/ (r.lease > 0 /\ s.lease >= r.lease)

\* It marks no further send.
Quiet(r, s) ==
  /\ s.attempt \in {None, r.attempt}
  /\ s.started <= r.started \/ s.started <= 1

\* What owner c may leave behind: the row, or a quiet move of a row it owns.
Leaves(r, c, s) == s = r \/ (Owned(r, c) /\ Moves(r, s) /\ Quiet(r, s))

\* The counters of the row are numbers.
LEMMA RowNumbers ==
  ASSUME NEW r \in Row
  PROVE  /\ r.started \in Nat /\ r.lease \in Nat /\ r.retries \in Nat /\ r.reserved \in Nat
         /\ r.claim \in Nat /\ r.attempt \in Nat /\ None \notin Claims /\ None = 0
BY RowAssumption DEF Row, Claims, None

\* Values the transactions write.
LEMMA RowValues ==
  /\ {"none", "claimed", "started", "unknown"} \subseteq States
  /\ None \in Claims \union {None}
  /\ 0 \in 0 .. Lease /\ Lease \in 0 .. Lease
  /\ 0 \in 0 .. MaxMarks /\ 1 \in 0 .. MaxMarks /\ 0 \in 0 .. MaxRetries
BY RowAssumption DEF States

\* A row that is gone has no owner.
LEMMA GoneMoves ==
  ASSUME NEW r, RowInv(r), NEW status \in {"absent", "acked", "dropped", "failed"}
  PROVE  Moves(r, Gone(status)) /\ Quiet(r, Gone(status))
<1>1. r.started \in Nat
  BY RowNumbers DEF RowInv
<1> QED
  BY <1>1, RowAssumption DEF RowInv, Row, Gone, Moves, Quiet, Pending, None, States

\* Counting a failure stays within the budget.
LEMMA CountedTypes ==
  ASSUME NEW n \in 0 .. MaxRetries
  PROVE  Counted(n) \in 0 .. MaxRetries
BY RowAssumption DEF Counted

\* Every transaction that settles an attempt is a quiet move.
LEMMA SettlingMoves ==
  ASSUME NEW r, RowInv(r), Pending(r), NEW c
  PROVE  /\ Moves(r, OutcomeUnknown(r, c)) /\ Quiet(r, OutcomeUnknown(r, c))
         /\ Moves(r, Failed(r)) /\ Quiet(r, Failed(r))
         /\ Moves(r, FailedBefore(r)) /\ Quiet(r, FailedBefore(r))
         /\ Moves(r, FailedAfter(r)) /\ Quiet(r, FailedAfter(r))
<1>1. /\ r \in Row /\ r.started \in Nat /\ r.lease \in Nat /\ Lease \in Nat /\ r.retries \in 0 .. MaxRetries
      /\ Counted(r.retries) \in 0 .. MaxRetries
      /\ Started(r) \in 0 .. MaxMarks /\ (Started(r) <= r.started \/ Started(r) <= 1)
      /\ None = 0
  BY RowNumbers, CountedTypes, RowAssumption DEF RowInv, Row, Started, None
<1>2. Moves(r, OutcomeUnknown(r, c)) /\ Quiet(r, OutcomeUnknown(r, c))
  <2> DEFINE s == OutcomeUnknown(r, c)
  <2>1. s \in Row
    BY <1>1, RowValues DEF OutcomeUnknown, Row
  <2>2. /\ s.status = r.status /\ s.state = "unknown" /\ s.claim = None /\ s.attempt = r.attempt
        /\ s.started = Started(r) /\ (s.lease = r.lease \/ s.lease = 0)
    BY <1>1 DEF OutcomeUnknown, Row
  <2> HIDE DEF s
  <2>3. Moves(r, s) /\ Quiet(r, s)
    BY <1>1, <2>1, <2>2 DEF RowInv, Moves, Quiet, Pending
  <2> QED
    BY <2>3 DEF s
<1>3. Moves(r, Failed(r)) /\ Quiet(r, Failed(r))
  <2> DEFINE s == Failed(r)
  <2>1. s \in Row
    BY <1>1, RowValues DEF Failed, Row
  <2>2. /\ s.status = r.status /\ s.state = (IF r.state = "claimed" THEN "none" ELSE r.state)
        /\ s.claim = None /\ s.attempt = r.attempt /\ s.started = r.started /\ s.lease = 0
    BY <1>1 DEF Failed, Row
  <2> HIDE DEF s
  <2>3. Moves(r, s) /\ Quiet(r, s)
    BY <1>1, <2>1, <2>2 DEF RowInv, Moves, Quiet, Pending
  <2> QED
    BY <2>3 DEF s
<1>4. Moves(r, FailedBefore(r)) /\ Quiet(r, FailedBefore(r))
  <2> DEFINE s == FailedBefore(r)
  <2>1. s \in Row
    BY <1>1, RowValues DEF FailedBefore, Row
  <2>2. /\ s.status = r.status /\ s.state = "none" /\ s.claim = None /\ s.attempt = None
        /\ s.started = 0 /\ s.lease = 0
    BY <1>1 DEF FailedBefore, Row
  <2> HIDE DEF s
  <2>3. Moves(r, s) /\ Quiet(r, s)
    BY <1>1, <2>1, <2>2 DEF RowInv, Moves, Quiet, Pending
  <2> QED
    BY <2>3 DEF s
<1>5. Moves(r, FailedAfter(r)) /\ Quiet(r, FailedAfter(r))
  <2> DEFINE s == FailedAfter(r)
  <2>1. s \in Row
    BY <1>1, RowValues DEF FailedAfter, Row
  <2>2. /\ s.status = r.status /\ s.state = "unknown" /\ s.claim = None /\ s.attempt = r.attempt
        /\ s.started = Started(r) /\ s.lease = 0
    BY <1>1 DEF FailedAfter, Row
  <2> HIDE DEF s
  <2>3. Moves(r, s) /\ Quiet(r, s)
    BY <1>1, <2>1, <2>2 DEF RowInv, Moves, Quiet, Pending
  <2> QED
    BY <2>3 DEF s
<1> QED
  BY <1>2, <1>3, <1>4, <1>5

\* So does reserving an attempt within the budget, and renewing a lease.
LEMMA HoldingMoves ==
  ASSUME NEW r, RowInv(r), Pending(r)
  PROVE  /\ ~Exhausted(r) => Moves(r, Reserved(r)) /\ Quiet(r, Reserved(r))
         /\ r.lease > 0 => Moves(r, Renewed(r)) /\ Quiet(r, Renewed(r))
<1>1. r \in Row /\ r.started \in Nat /\ r.lease \in 0 .. Lease /\ Lease \in Nat
      /\ r.retries \in 0 .. MaxRetries /\ r.reserved \in 0 .. MaxRetries /\ MaxRetries \in Nat
  BY RowNumbers, RowAssumption DEF RowInv, Row
<1>2. ~Exhausted(r) => Attempts(r) + 1 \in 0 .. MaxRetries
  BY <1>1 DEF Exhausted, Attempts
<1>3. ~Exhausted(r) => Moves(r, Reserved(r)) /\ Quiet(r, Reserved(r))
  BY <1>1, <1>2 DEF RowInv, Row, Reserved, Moves, Quiet, Pending, None
<1>4. r.lease > 0 => Moves(r, Renewed(r)) /\ Quiet(r, Renewed(r))
  BY <1>1 DEF RowInv, Row, Renewed, Moves, Quiet, Pending, None
<1> QED
  BY <1>3, <1>4

\* Marking a send is a move that makes the claim the attempt.
LEMMA MarkingMoves ==
  ASSUME NEW r, RowInv(r), NEW c \in Claims
  PROVE  /\ Promotable(r, c) =>
              /\ Owned(r, c) /\ Moves(r, Promoted(r, c))
              /\ Promoted(r, c).started = 1
         /\ Dispatchable(r, c) /\ r.started < MaxMarks =>
              /\ Owned(r, c) /\ Moves(r, Dispatched(r, c))
              /\ Dispatched(r, c).started = r.started + 1
         /\ Renewable(r, c) => Owned(r, c)
<1>1. r \in Row /\ r.started \in 0 .. MaxMarks /\ r.lease \in 0 .. Lease /\ Lease \in Nat \ {0}
      /\ MaxMarks \in Nat \ {0} /\ c # None /\ c \in Claims \union {None}
      /\ (r.started < MaxMarks => r.started + 1 \in 0 .. MaxMarks)
  BY RowNumbers, RowAssumption DEF RowInv, Row
<1>2. ASSUME Promotable(r, c)
      PROVE  Owned(r, c) /\ Moves(r, Promoted(r, c)) /\ Promoted(r, c).started = 1
  <2> DEFINE s == Promoted(r, c)
  <2>1. s \in Row
    BY <1>1, <1>2, RowValues DEF Promoted, Row
  <2>2. /\ s.status = r.status /\ s.state = "started" /\ s.claim = None /\ s.attempt = c
        /\ s.started = 1 /\ s.lease = Lease
    BY <1>1, <1>2 DEF Promoted, Row
  <2>3. Owned(r, c) /\ r.lease > 0 /\ c \in {r.claim, r.attempt}
    BY <1>1, <1>2 DEF Promotable, Dispatchable, Owned, Marked
  <2> HIDE DEF s
  <2>4. Moves(r, s) /\ s.started = 1
    BY <1>1, <2>1, <2>2, <2>3 DEF RowInv, Moves, Owned, Pending
  <2> QED
    BY <2>3, <2>4 DEF s
<1>3. ASSUME Dispatchable(r, c), r.started < MaxMarks
      PROVE  Owned(r, c) /\ Moves(r, Dispatched(r, c)) /\ Dispatched(r, c).started = r.started + 1
  <2> DEFINE s == Dispatched(r, c)
  <2>1. s \in Row
    BY <1>1, <1>3, RowValues DEF Dispatched, Row
  <2>2. /\ s.status = r.status /\ s.state \in {"started", "unknown"} /\ s.claim = None /\ s.attempt = c
        /\ s.started = r.started + 1 /\ s.lease \in {r.lease, Lease}
    BY <1>1, <1>3 DEF Dispatched, Row
  <2>3. Owned(r, c) /\ r.lease > 0 /\ c \in {r.claim, r.attempt}
    BY <1>1, <1>3 DEF Promotable, Dispatchable, Owned, Marked
  <2> HIDE DEF s
  <2>4. Moves(r, s) /\ s.started = r.started + 1
    BY <1>1, <2>1, <2>2, <2>3 DEF RowInv, Moves, Owned, Pending
  <2> QED
    BY <2>3, <2>4 DEF s
<1>4. Renewable(r, c) => Owned(r, c)
  BY <1>1 DEF Renewable, Owned
<1> QED
  BY <1>2, <1>3, <1>4

\* Moves of one owner add up.
LEMMA LeavesAdd ==
  ASSUME NEW r, RowInv(r), NEW c, NEW s, Leaves(r, c, s), NEW t, Leaves(s, c, t)
  PROVE  Leaves(r, c, t)
<1>1. RowInv(s) /\ RowInv(t)
  BY DEF Leaves, Moves
<1>2. /\ r.started \in Nat /\ s.started \in Nat /\ t.started \in Nat
      /\ r.lease \in Nat /\ s.lease \in Nat /\ t.lease \in Nat
  BY <1>1, RowNumbers DEF RowInv
<1>3. CASE s = r
  BY <1>3
<1>4. CASE t = s
  BY <1>4
<1>5. CASE s # r /\ t # s
  BY <1>1, <1>2, <1>5 DEF Leaves, Moves, Quiet
<1> QED
  BY <1>3, <1>4, <1>5

\* The transactions an owner has.
LEMMA OwnerMoves ==
  ASSUME NEW r, RowInv(r), NEW c, Owned(r, c)
  PROVE  /\ Leaves(r, c, Acked) /\ Leaves(r, c, Dropped) /\ Leaves(r, c, Dead)
         /\ Leaves(r, c, OutcomeUnknown(r, c)) /\ Leaves(r, c, Failed(r))
         /\ Leaves(r, c, FailedBefore(r)) /\ Leaves(r, c, FailedAfter(r))
<1>1. Pending(r)
  BY DEF Owned
<1>2. /\ Moves(r, Acked) /\ Quiet(r, Acked) /\ Moves(r, Dropped) /\ Quiet(r, Dropped)
      /\ Moves(r, Dead) /\ Quiet(r, Dead)
  BY GoneMoves DEF Acked, Dropped, Dead
<1> QED
  BY <1>1, <1>2, SettlingMoves DEF Leaves

\* One transaction that may fail, and two of which the second replaces the first.
LEMMA TriedOne ==
  ASSUME NEW r, NEW c, NEW a, Owned(r, c) => Leaves(r, c, a), NEW s \in Tried(r, c, <<a>>)
  PROVE  Leaves(r, c, s)
<1>1. CASE ~Owned(r, c)
  BY <1>1 DEF Tried, Leaves
<1>2. CASE Owned(r, c)
  <2>1. DOMAIN <<a>> = {1} /\ <<a>>[1] = a
    OBVIOUS
  <2>2. s \in {a, r}
    BY <1>2, <2>1 DEF Tried
  <2> QED
    BY <1>2, <2>2 DEF Leaves
<1> QED
  BY <1>1, <1>2

\* Two transactions, the second tried if the first failed.
LEMMA TriedTwo ==
  ASSUME NEW r, NEW c, NEW a, NEW b, Owned(r, c) => Leaves(r, c, a) /\ Leaves(r, c, b),
         NEW s \in Tried(r, c, <<a, b>>)
  PROVE  Leaves(r, c, s)
<1>1. CASE ~Owned(r, c)
  BY <1>1 DEF Tried, Leaves
<1>2. CASE Owned(r, c)
  <2>1. DOMAIN <<a, b>> = {1, 2} /\ <<a, b>>[1] = a /\ <<a, b>>[2] = b
    OBVIOUS
  <2>2. s \in {a, b, r}
    BY <1>2, <2>1 DEF Tried
  <2> QED
    BY <1>2, <2>2 DEF Leaves
<1> QED
  BY <1>1, <1>2

\* Recording an outcome leaves a row its owner may leave, or throws.
LEMMA PostSendLeaves ==
  ASSUME NEW r, RowInv(r), NEW c, NEW stable, NEW s \in PostSend(r, c, stable)
  PROVE  /\ Leaves(r, c, s.row)
         /\ s.post \in {"marked", "acked", "failed", "throws"}
         /\ s.post = "throws" => s.row = r
<1>1. \/ Owned(r, c) /\ s = [row |-> OutcomeUnknown(r, c), post |-> "marked"]
      \/ s = [row |-> r, post |-> "throws"]
      \/ Owned(r, c) /\ s = [row |-> FailedAfter(r), post |-> "failed"]
      \/ Owned(r, c) /\ s = [row |-> Acked, post |-> "acked"]
  BY DEF PostSend
<1>2. Leaves(r, c, r)
  BY DEF Leaves
<1>3. s.row \in {r, OutcomeUnknown(r, c), FailedAfter(r), Acked}
      /\ (s.row # r => Owned(r, c))
  BY <1>1
<1>4. s.post \in {"marked", "acked", "failed", "throws"} /\ (s.post = "throws" => s.row = r)
  BY <1>1
<1> QED
  BY <1>2, <1>3, <1>4, OwnerMoves

-----------------------------------------------------------------------------
(* The invariant.                                                          *)

\* The sends a sender may have marked so far.
Room(w) == w.next + (IF w.pc \in {"io", "got", "caught"} THEN 1 ELSE 0)

\* What ties process w to the row r, when h claims were handed out and the message
\* has n payloads: a sender marks one send per payload and trusts its lease no
\* longer than the row grants it; an attempt that a scanner read without a live
\* owner never gets one again.
Fits(w, r, h, n) ==
  /\ w = Idle \/ w \in Scanner \/ w \in Sender
  /\ w \in Sender =>
       /\ w.claim <= h
       /\ w.pc \in {"started", "io", "got"} => w.next <= n
       /\ r.attempt = w.claim => r.started <= Room(w)
       /\ w.claim \in {r.claim, r.attempt} /\ r.lease > 0 => w.lease <= r.lease
  /\ w \in Scanner =>
       /\ w.snap.lease = 0 /\ w.snap.attempt <= h
       /\ w.snap.attempt # None =>
            w.snap.attempt # r.claim /\ (r.attempt = w.snap.attempt => r.lease = 0)

\* No two senders share a claim.
Distinct ==
  \A p, q \in Procs : p # q /\ IsSender(p) /\ IsSender(q) => worker[p].claim # worker[q].claim

Flights ==
  /\ wire \subseteq Claims \X (1 .. MaxPayloads)
  /\ landed \subseteq Claims \X (1 .. MaxPayloads)
  /\ crashes \in 0 .. MaxCrashes

\* The inductive invariant.
IInv ==
  /\ RowInv(row) /\ row.claim <= handed /\ row.attempt <= handed
  /\ traits \in Traits /\ handed \in 0 .. MaxClaims
  /\ worker \in [Procs -> {Idle} \union Scanner \union Sender]
  /\ \A p \in Procs : Fits(worker[p], row, handed, traits.payloads)
  /\ Distinct /\ Flights

\* Idle processes, scanners and senders are told apart by where they are.
LEMMA Kinds ==
  ASSUME NEW w
  PROVE  /\ w \in Scanner => w \notin Sender /\ w # Idle
         /\ w \in Sender => w \notin Scanner /\ w # Idle
         /\ Idle \notin Scanner /\ Idle \notin Sender
<1>1. Idle.pc = "idle"
  BY DEF Idle
<1>2. w \in Scanner => w.pc \in {"scanned", "answered", "replay"}
  BY DEF Scanner
<1>3. w \in Sender =>
        w.pc \in {"reserve", "claimed", "sending", "started", "io", "got", "caught"}
  BY DEF Sender
<1>4. Idle \in Scanner => Idle.pc \in {"scanned", "answered", "replay"}
  BY DEF Scanner
<1>5. Idle \in Sender =>
        Idle.pc \in {"reserve", "claimed", "sending", "started", "io", "got", "caught"}
  BY DEF Sender
<1> QED
  BY <1>1, <1>2, <1>3, <1>4, <1>5

\* The numbers of a sender and of what a scanner read.
LEMMA WorkerNumbers ==
  /\ \A w \in Sender : /\ w.claim \in Claims /\ w.claim \in Nat /\ w.claim # None
                       /\ w.next \in Nat /\ w.next >= 1 /\ w.lease \in Nat
                       /\ Room(w) \in Nat /\ Room(w) >= 1
  /\ \A w \in Scanner : w.snap \in Row /\ w.snap.attempt \in Nat
<1>1. ASSUME NEW w \in Sender
      PROVE  /\ w.claim \in Claims /\ w.claim \in Nat /\ w.claim # None
             /\ w.next \in Nat /\ w.next >= 1 /\ w.lease \in Nat
             /\ Room(w) \in Nat /\ Room(w) >= 1
  BY RowAssumption, QueueAssumption DEF Sender, Claims, None, Room
<1>2. ASSUME NEW w \in Scanner PROVE w.snap \in Row /\ w.snap.attempt \in Nat
  <2>1. w.snap \in Row
    BY DEF Scanner
  <2> QED
    BY <2>1, RowNumbers
<1> QED
  BY <1>1, <1>2

\* A quiet move of the row suits every process it does not move.
LEMMA QuietFits ==
  ASSUME NEW r, RowInv(r), NEW s, Moves(r, s), Quiet(r, s), NEW h, NEW n, NEW w, Fits(w, r, h, n)
  PROVE  Fits(w, s, h, n)
<1>1. RowInv(s)
  BY DEF Moves
<1>2. /\ r.started \in Nat /\ s.started \in Nat /\ r.lease \in Nat /\ s.lease \in Nat
      /\ None = 0 /\ s.attempt \in {None, r.attempt}
  BY <1>1, RowNumbers DEF RowInv, None, Quiet
<1>3. w = Idle \/ w \in Scanner \/ w \in Sender
  BY DEF Fits
<1>4. CASE w \in Sender
  <2>1. w.claim # None /\ w.lease \in Nat /\ Room(w) \in Nat /\ Room(w) >= 1
    BY <1>4, WorkerNumbers
  <2>2. s.attempt = w.claim => s.started <= Room(w)
    BY <1>2, <1>4, <2>1 DEF Fits, Quiet
  <2>3. w.claim \in {s.claim, s.attempt} /\ s.lease > 0 => w.lease <= s.lease
    BY <1>2, <1>4, <2>1 DEF Fits, Moves
  <2> QED
    BY <1>4, <2>2, <2>3, Kinds DEF Fits
<1>5. CASE w \in Scanner
  <2>1. w.snap.attempt # None =>
          w.snap.attempt # s.claim /\ (s.attempt = w.snap.attempt => s.lease = 0)
    BY <1>2, <1>5 DEF Fits, Moves
  <2> QED
    BY <1>5, <2>1, Kinds DEF Fits
<1>6. CASE w = Idle
  BY <1>6, Kinds DEF Fits
<1> QED
  BY <1>3, <1>4, <1>5, <1>6

\* Any move of the row by its owner suits every other process.
LEMMA OwnerFits ==
  ASSUME NEW r, RowInv(r), NEW c, c # None, Owned(r, c), NEW s, Moves(r, s), NEW h,
         NEW n, NEW w, Fits(w, r, h, n), w \in Sender => w.claim # c
  PROVE  Fits(w, s, h, n)
<1>1. RowInv(s)
  BY DEF Moves
<1>2. /\ r.started \in Nat /\ s.started \in Nat /\ r.lease \in Nat /\ s.lease \in Nat
      /\ None = 0
  BY <1>1, RowNumbers DEF RowInv, None
<1>3. w = Idle \/ w \in Scanner \/ w \in Sender
  BY DEF Fits
<1>4. CASE w \in Sender
  <2>1. w.claim # None /\ w.claim # c
    BY <1>4, WorkerNumbers
  <2>2. w.claim \notin {r.claim, r.attempt}
    BY <2>1 DEF Owned, RowInv
  <2>3. w.claim \notin {s.claim, s.attempt}
    BY <2>1, <2>2 DEF Moves
  <2> QED
    BY <1>4, <2>3, Kinds DEF Fits
<1>5. CASE w \in Scanner
  <2>1. w.snap.attempt # None =>
          w.snap.attempt # s.claim /\ (s.attempt = w.snap.attempt => s.lease = 0)
    BY <1>2, <1>5 DEF Fits, Moves
  <2> QED
    BY <1>5, <2>1, Kinds DEF Fits
<1>6. CASE w = Idle
  BY <1>6, Kinds DEF Fits
<1> QED
  BY <1>3, <1>4, <1>5, <1>6

\* So does a fresh claim.
LEMMA FreshFits ==
  ASSUME NEW r, NEW h \in Nat, NEW s, s.claim = h + 1, s.attempt = None,
         NEW n, NEW w, Fits(w, r, h, n)
  PROVE  Fits(w, s, h + 1, n)
<1>1. w = Idle \/ w \in Scanner \/ w \in Sender
  BY DEF Fits
<1>2. CASE w \in Sender
  <2>1. w.claim # None /\ w.claim \in Nat /\ w.claim <= h
    BY <1>2, WorkerNumbers DEF Fits
  <2> QED
    BY <1>2, <2>1, Kinds DEF Fits
<1>3. CASE w \in Scanner
  <2>1. w.snap.attempt \in Nat /\ w.snap.attempt <= h
    BY <1>3, WorkerNumbers DEF Fits
  <2> QED
    BY <1>3, <2>1, Kinds DEF Fits
<1>4. CASE w = Idle
  BY <1>4, Kinds DEF Fits
<1> QED
  BY <1>1, <1>2, <1>3, <1>4

\* How a sender goes on: with its claim, a lease it has trusted before, and no
\* fewer sends behind it.
GoesOn(w, v, n) ==
  /\ v \in Sender /\ v.claim = w.claim /\ v.lease <= w.lease /\ Room(v) >= Room(w)
  /\ v.pc \in {"started", "io", "got"} => v.next <= n

\* A sender that goes on suits the row it leaves alone or moves quietly.
LEMMA GoesOnFits ==
  ASSUME NEW r, RowInv(r), NEW h, NEW n, NEW w \in Sender, Fits(w, r, h, n),
         NEW v, GoesOn(w, v, n), NEW s, s = r \/ (Moves(r, s) /\ Quiet(r, s))
  PROVE  Fits(v, s, h, n)
<1>1. Fits(w, s, h, n)
  BY QuietFits
<1>2. /\ v \in Sender /\ v.lease \in Nat /\ Room(v) \in Nat /\ w.lease \in Nat /\ Room(w) \in Nat
  BY WorkerNumbers DEF GoesOn
<1>3. s.started \in Nat /\ s.lease \in Nat
  BY RowNumbers DEF Moves, RowInv
<1> QED
  BY <1>1, <1>2, <1>3, Kinds DEF Fits, GoesOn

\* An idle process suits every row.
LEMMA IdleFits == \A r, h, n : Fits(Idle, r, h, n)
BY Kinds DEF Fits

-----------------------------------------------------------------------------
(* Steps.                                                                  *)

\* A process steps; the row is left alone, or quietly moved.
LEMMA QuietStep ==
  ASSUME IInv, NEW q \in Procs, NEW v, worker' = [worker EXCEPT ![q] = v],
         row' = row \/ (Moves(row, row') /\ Quiet(row, row')),
         Fits(v, row', handed, traits.payloads),
         v \in Sender => IsSender(q) /\ v.claim = worker[q].claim,
         UNCHANGED <<handed, traits>>, Flights'
  PROVE  IInv'
<1>1. RowInv(row') /\ row'.claim <= handed /\ row'.attempt <= handed
  <2>1. handed \in Nat /\ None = 0
    BY DEF IInv, None
  <2> QED
    BY <2>1 DEF IInv, Moves, Quiet
<1>2. v \in {Idle} \union Scanner \union Sender
  BY DEF Fits
<1>3. /\ worker' \in [Procs -> {Idle} \union Scanner \union Sender]
      /\ worker'[q] = v /\ \A p \in Procs \ {q} : worker'[p] = worker[p]
  BY <1>2 DEF IInv
<1>4. ASSUME NEW p \in Procs PROVE Fits(worker'[p], row', handed, traits.payloads)
  <2>1. CASE p = q
    BY <1>3, <2>1
  <2>2. CASE p # q
    <3>1. Fits(worker[p], row, handed, traits.payloads) /\ RowInv(row)
      BY DEF IInv
    <3>2. Fits(worker[p], row', handed, traits.payloads)
      BY <3>1, QuietFits
    <3> QED
      BY <1>3, <2>2, <3>2
  <2> QED
    BY <2>1, <2>2
<1>5. Distinct'
  BY <1>3 DEF IInv, Distinct, IsSender
<1> QED
  BY <1>1, <1>3, <1>4, <1>5 DEF IInv

\* A sender steps and moves the row it owns.
LEMMA OwnerStep ==
  ASSUME IInv, NEW q \in Procs, IsSender(q), Owned(row, worker[q].claim), Moves(row, row'),
         NEW v \in Sender, worker' = [worker EXCEPT ![q] = v], v.claim = worker[q].claim,
         Fits(v, row', handed, traits.payloads),
         UNCHANGED <<handed, traits>>, Flights'
  PROVE  IInv'
<1>1. RowInv(row') /\ row'.claim <= handed /\ row'.attempt <= handed
  <2>1. handed \in Nat /\ None = 0
    BY DEF IInv, None
  <2> QED
    BY <2>1 DEF IInv, Moves
<1>2. worker[q].claim # None
  BY WorkerNumbers DEF IsSender
<1>3. /\ worker' \in [Procs -> {Idle} \union Scanner \union Sender]
      /\ worker'[q] = v /\ \A p \in Procs \ {q} : worker'[p] = worker[p]
  BY DEF IInv
<1>4. ASSUME NEW p \in Procs PROVE Fits(worker'[p], row', handed, traits.payloads)
  <2>1. CASE p = q
    BY <1>3, <2>1
  <2>2. CASE p # q
    <3>1. Fits(worker[p], row, handed, traits.payloads) /\ RowInv(row)
      BY DEF IInv
    <3>2. worker[p] \in Sender => worker[p].claim # worker[q].claim
      BY <2>2 DEF IInv, Distinct, IsSender
    <3>3. Fits(worker[p], row', handed, traits.payloads)
      BY <1>2, <3>1, <3>2, OwnerFits
    <3> QED
      BY <1>3, <2>2, <3>3
  <2> QED
    BY <2>1, <2>2
<1>5. Distinct'
  BY <1>3 DEF IInv, Distinct, IsSender
<1> QED
  BY <1>1, <1>3, <1>4, <1>5 DEF IInv

\* A new sender is one.
LEMMA NewIsSender ==
  ASSUME NEW pc \in {"reserve", "claimed"}, NEW role \in {"live", "recovery"}, NEW c \in Claims
  PROVE  LET v == NewSender(pc, role, c) IN
         v \in Sender /\ v.claim = c /\ v.next = 1 /\ v.lease = 0 /\ v.pc = pc
<1>1. 0 \in 0 .. Lease /\ 1 \in 1 .. MaxPayloads + 1
  BY RowAssumption, QueueAssumption
<1> QED
  BY <1>1 DEF NewSender, Sender

\* A process takes the row under a fresh claim, or enqueues it for another drain.
LEMMA FreshStep ==
  ASSUME IInv, NEW q \in Procs, NEW v, worker' = [worker EXCEPT ![q] = v],
         handed < MaxClaims, handed' = handed + 1,
         RowInv(row'), row'.claim = handed', row'.attempt = None, row'.started = 0,
         v = Idle \/ \E pc \in {"reserve", "claimed"}, role \in {"live", "recovery"} :
                      v = NewSender(pc, role, handed'),
         UNCHANGED <<traits, wire, landed, crashes>>
  PROVE  IInv'
<1>1. handed \in Nat /\ handed' \in Claims /\ handed' \in 0 .. MaxClaims /\ None = 0
      /\ MaxClaims \in Nat
  BY RowAssumption DEF IInv, Claims, None
<1>2. ASSUME v # Idle
      PROVE  v \in Sender /\ v.claim = handed' /\ v.next = 1 /\ v.lease = 0
             /\ v.pc \in {"reserve", "claimed"}
  BY <1>1, <1>2, NewIsSender
<1>3. /\ v \in {Idle} \union Sender
      /\ worker' \in [Procs -> {Idle} \union Scanner \union Sender]
      /\ worker'[q] = v /\ \A p \in Procs \ {q} : worker'[p] = worker[p]
  BY <1>2 DEF IInv
<1>4. Fits(v, row', handed', traits.payloads)
  <2>1. CASE v = Idle
    BY <2>1, IdleFits
  <2>2. CASE v # Idle
    <3>1. row'.lease \in Nat /\ Room(v) = 1
      BY <1>2, <2>2, RowNumbers DEF RowInv, Room
    <3> QED
      BY <1>1, <1>2, <2>2, <3>1, Kinds DEF Fits
  <2> QED
    BY <2>1, <2>2
<1>5. ASSUME NEW p \in Procs PROVE Fits(worker'[p], row', handed', traits.payloads)
  <2>1. CASE p = q
    BY <1>3, <1>4, <2>1
  <2>2. CASE p # q
    <3>1. Fits(worker[p], row, handed, traits.payloads)
      BY DEF IInv
    <3>2. Fits(worker[p], row', handed', traits.payloads)
      BY <1>1, <3>1, FreshFits
    <3> QED
      BY <1>3, <2>2, <3>2
  <2> QED
    BY <2>1, <2>2
<1>6. ASSUME NEW p \in Procs, IsSender(p) PROVE worker[p].claim < handed'
  <2>1. worker[p].claim <= handed /\ worker[p].claim \in Nat
    BY <1>6, WorkerNumbers DEF IInv, Fits, IsSender
  <2> QED
    BY <1>1, <2>1
<1>7. Distinct'
  <2> SUFFICES ASSUME NEW p \in Procs, NEW u \in Procs, p # u,
                      worker'[p] \in Sender, worker'[u] \in Sender
               PROVE  worker'[p].claim # worker'[u].claim
    BY DEF Distinct, IsSender
  <2>1. v \in Sender => v.claim = handed'
    BY <1>2, Kinds
  <2>2. ASSUME NEW x \in Procs \ {q}, worker'[x] \in Sender PROVE worker'[x].claim < handed'
    BY <1>3, <1>6, <2>2 DEF IsSender
  <2>3. CASE p = q
    BY <1>1, <1>3, <2>1, <2>2, <2>3, WorkerNumbers
  <2>4. CASE u = q
    BY <1>1, <1>3, <2>1, <2>2, <2>4, WorkerNumbers
  <2>5. CASE p # q /\ u # q
    BY <1>3, <2>5 DEF IInv, Distinct, IsSender
  <2> QED
    BY <2>3, <2>4, <2>5
<1>8. row'.claim <= handed' /\ row'.attempt <= handed'
  BY <1>1
<1>9. Flights'
  BY DEF IInv, Flights
<1> QED
  BY <1>1, <1>3, <1>5, <1>7, <1>8, <1>9 DEF IInv


-----------------------------------------------------------------------------
(* The steps of a scanner and of a sender.                                 *)

\* Nobody can hold the lease of such a row.
Ownerless == row.lease = 0 \/ (row.claim = None /\ row.attempt = None)

\* What is settled stays settled, and an outcome that is unknown stays unknown.
KeepsRecord ==
  Pending(row') =>
    /\ row.status \in {"absent", "pending"}
    /\ Pending(row) /\ row.state = "unknown" =>
         row'.state = "unknown" /\ row'.attempt = row.attempt

\* Why a step of process q may change the row.
Excused(q) ==
  \/ row' = row
  \/ Ownerless /\ KeepsRecord
  \/ IsSender(q) /\ Owned(row, worker[q].claim) /\ worker'[q] # worker[q]

\* Where a process is tells what it is.
LEMMA Places ==
  ASSUME IInv, NEW q \in Procs
  PROVE  /\ worker[q].pc \in {"scanned", "answered", "replay"} => IsScanner(q)
         /\ worker[q].pc \in {"reserve", "claimed", "sending", "started", "io", "got", "caught"}
              => IsSender(q)
         /\ IsScanner(q) => worker[q].pc \in {"scanned", "answered", "replay"}
         /\ IsSender(q) =>
              worker[q].pc \in {"reserve", "claimed", "sending", "started", "io", "got", "caught"}
<1>1. worker[q] \in {Idle} \union Scanner \union Sender
  BY DEF IInv
<1>2. worker[q] \in Scanner => worker[q].pc \in {"scanned", "answered", "replay"}
  BY DEF Scanner
<1>3. worker[q] \in Sender =>
        worker[q].pc \in {"reserve", "claimed", "sending", "started", "io", "got", "caught"}
  BY DEF Sender
<1>4. Idle.pc = "idle"
  BY DEF Idle
<1> QED
  BY <1>1, <1>2, <1>3, <1>4 DEF IsScanner, IsSender

\* The message has as many payloads as its bound allows.
LEMMA Payloads ==
  IInv => /\ traits.payloads \in Nat /\ traits.payloads >= 1
          /\ traits.payloads <= MaxPayloads /\ MaxPayloads \in Nat
<1>1. \A t \in Traits : t.payloads \in 1 .. MaxPayloads
  BY QueueAssumption
<1>2. IInv => traits.payloads \in 1 .. MaxPayloads
  BY <1>1 DEF IInv
<1> QED
  BY <1>2, QueueAssumption

\* What nobody owns, nobody holds: a row without owner or lease, and a row that
\* a scanner still finds as the attempt it has read.
LEMMA ScannerOwns ==
  ASSUME IInv, NEW q \in Procs, IsScanner(q), Owned(row, Snapped(q))
  PROVE  Ownerless
<1>1. Fits(worker[q], row, handed, traits.payloads) /\ worker[q] \in Scanner
  BY DEF IInv, IsScanner
<1>2. CASE Snapped(q) = None
  BY <1>2 DEF Owned, Ownerless
<1>3. CASE Snapped(q) # None
  BY <1>1, <1>3 DEF Owned, Ownerless, Fits, Snapped
<1> QED
  BY <1>2, <1>3

\* A process ends.
LEMMA EndStep ==
  ASSUME IInv, NEW q \in Procs, End(q), row' = row \/ (Moves(row, row') /\ Quiet(row, row')),
         UNCHANGED <<handed, traits>>, Flights'
  PROVE  IInv'
<1>1. Fits(Idle, row', handed, traits.payloads) /\ Idle \notin Sender
  BY IdleFits, Kinds
<1> QED
  BY <1>1, QuietStep DEF End

\* What a scanner settles keeps an unknown outcome on record.
LEMMA SettlesUnknown ==
  ASSUME RowInv(row), NEW c,
         \/ row' \in Tried(row, c, <<Acked, Failed(row)>>)
         \/ row' \in Tried(row, c, <<Failed(row)>>)
         \/ row' \in Tried(row, c, <<Dead>>)
  PROVE  KeepsRecord
<1> DEFINE a == Failed(row)
<1>1. /\ DOMAIN <<Dead>> = {1} /\ <<Dead>>[1] = Dead /\ DOMAIN <<a>> = {1} /\ <<a>>[1] = a
      /\ DOMAIN <<Acked, a>> = {1, 2} /\ <<Acked, a>>[1] = Acked /\ <<Acked, a>>[2] = a
  <2> HIDE DEF a
  <2> QED
    OBVIOUS
<1>2. row' \in {row, Acked, Failed(row), Dead} /\ (row' = row \/ Owned(row, c))
  <2>1. CASE Owned(row, c)
    <3> HIDE DEF a
    <3>1. \/ row' \in Tried(row, c, <<Acked, a>>)
          \/ row' \in Tried(row, c, <<a>>)
          \/ row' \in Tried(row, c, <<Dead>>)
      BY DEF a
    <3>2. row' \in {row, Acked, a, Dead}
      BY <1>1, <2>1, <3>1 DEF Tried
    <3> QED
      BY <2>1, <3>2 DEF a
  <2>2. CASE ~Owned(row, c)
    BY <2>2 DEF Tried
  <2> QED
    BY <2>1, <2>2
<1>3. row.state = "unknown" =>
        Failed(row).state = "unknown" /\ Failed(row).attempt = row.attempt
  BY DEF RowInv, Row, Failed
<1>4. ~Pending(Acked) /\ ~Pending(Dead)
  BY DEF Pending, Acked, Dead, Gone
<1> QED
  BY <1>2, <1>3, <1>4 DEF KeepsRecord, Pending, Owned

\* A scanner settles what it read, and ends.
LEMMA ScannerEnds ==
  ASSUME IInv, NEW q \in Procs, IsScanner(q), End(q), Leaves(row, Snapped(q), row'),
         KeepsRecord, UNCHANGED <<handed, traits>>, Flights'
  PROVE  IInv' /\ Excused(q)
<1>1. IInv'
  BY EndStep DEF Leaves
<1>2. Excused(q)
  BY ScannerOwns DEF Leaves, Excused
<1> QED
  BY <1>1, <1>2

\* A sender goes on, or ends.
LEMMA SenderStep ==
  ASSUME IInv, NEW q \in Procs, IsSender(q), Leaves(row, worker[q].claim, row'),
         NEW v, v = Idle \/ GoesOn(worker[q], v, traits.payloads), To(q, v),
         row' = row \/ v # worker[q],
         UNCHANGED <<handed, traits>>, Flights'
  PROVE  IInv' /\ Excused(q)
<1>1. /\ RowInv(row) /\ worker[q] \in Sender /\ Fits(worker[q], row, handed, traits.payloads)
      /\ worker' = [worker EXCEPT ![q] = v] /\ worker'[q] = v
      /\ row' = row \/ (Moves(row, row') /\ Quiet(row, row'))
  BY DEF IInv, IsSender, To, Leaves
<1>2. Fits(v, row', handed, traits.payloads) /\ (v \in Sender => v.claim = worker[q].claim)
  <2>1. CASE v = Idle
    BY <2>1, IdleFits, Kinds
  <2>2. CASE GoesOn(worker[q], v, traits.payloads)
    <3>1. Fits(v, row', handed, traits.payloads)
      BY <1>1, <2>2, GoesOnFits
    <3> QED
      BY <2>2, <3>1 DEF GoesOn
  <2> QED
    BY <2>1, <2>2
<1>3. IInv'
  BY <1>1, <1>2, QuietStep
<1>4. Excused(q)
  BY <1>1 DEF Excused, Leaves
<1> QED
  BY <1>3, <1>4


-----------------------------------------------------------------------------
(* Ownership changes hands.                                                *)

\* A row under a fresh claim.
LEMMA FreshRows ==
  ASSUME NEW c \in Claims
  PROVE  /\ LET s == Enqueued(c) IN
            RowInv(s) /\ s.claim = c /\ s.attempt = None /\ s.started = 0
         /\ \A r \in Row : Pending(r) =>
              LET s == Claimed(r, c) IN
              RowInv(s) /\ s.claim = c /\ s.attempt = None /\ s.started = 0
<1>1. c # None /\ c \in Claims \union {None}
  BY RowAssumption DEF Claims, None
<1>2. LET s == Enqueued(c) IN RowInv(s) /\ s.claim = c /\ s.attempt = None /\ s.started = 0
  <2> DEFINE s == Enqueued(c)
  <2>1. s \in Row
    BY <1>1, RowValues DEF Enqueued, Gone, Row
  <2>2. /\ s.status = "pending" /\ s.state = "claimed" /\ s.claim = c /\ s.attempt = None
        /\ s.started = 0
    BY DEF Enqueued, Gone
  <2> HIDE DEF s
  <2>3. RowInv(s) /\ s.claim = c /\ s.attempt = None /\ s.started = 0
    BY <1>1, <2>1, <2>2 DEF RowInv, Pending
  <2> QED
    BY <2>3 DEF s
<1>3. ASSUME NEW r \in Row, Pending(r)
      PROVE  LET s == Claimed(r, c) IN
             RowInv(s) /\ s.claim = c /\ s.attempt = None /\ s.started = 0
  <2> DEFINE s == Claimed(r, c)
  <2>1. s \in Row
    BY <1>1, RowValues DEF Claimed, Row
  <2>2. /\ s.status = r.status /\ s.state = "claimed" /\ s.claim = c /\ s.attempt = None
        /\ s.started = 0
    BY DEF Claimed, Row
  <2> HIDE DEF s
  <2>3. RowInv(s) /\ s.claim = c /\ s.attempt = None /\ s.started = 0
    BY <1>1, <1>3, <2>1, <2>2 DEF RowInv, Pending
  <2> QED
    BY <2>3 DEF s
<1> QED
  BY <1>2, <1>3

\* The next claim.
LEMMA NextClaim == IInv /\ handed < MaxClaims /\ handed' = handed + 1 => handed' \in Claims
BY RowAssumption DEF IInv, Claims

\* Enqueue: nobody owned the row before it was there.
LEMMA EnqueueStep ==
  ASSUME IInv, NEW q \in Procs, NEW turnedAway \in BOOLEAN, Enqueue(q, turnedAway)
  PROVE  IInv' /\ Excused(q)
<1>1. /\ row' = Enqueued(handed') /\ handed' \in Claims /\ handed < MaxClaims
      /\ handed' = handed + 1 /\ UNCHANGED <<traits, wire, landed, crashes>>
  BY NextClaim DEF Enqueue
<1>2. RowInv(row') /\ row'.claim = handed' /\ row'.attempt = None /\ row'.started = 0
  BY <1>1, FreshRows
<1>3. \/ worker' = [worker EXCEPT ![q] = Idle]
      \/ worker' = [worker EXCEPT ![q] = NewSender("claimed", "live", handed')]
  BY DEF Enqueue, End, To
<1>4. IInv'
  <2>1. CASE worker' = [worker EXCEPT ![q] = Idle]
    BY <1>1, <1>2, <2>1, FreshStep
  <2>2. CASE worker' = [worker EXCEPT ![q] = NewSender("claimed", "live", handed')]
    BY <1>1, <1>2, <2>2, FreshStep
  <2> QED
    BY <1>3, <2>1, <2>2
<1>5. Excused(q)
  BY DEF Enqueue, IInv, RowInv, Pending, Excused, Ownerless, KeepsRecord
<1> QED
  BY <1>4, <1>5

\* Reuse takes a row that is free, or whose lease has run out.
LEMMA ReuseStep ==
  ASSUME IInv, NEW q \in Procs, Reuse(q)
  PROVE  IInv' /\ Excused(q)
<1>1. /\ row' = Claimed(row, handed') /\ handed' \in Claims /\ handed < MaxClaims
      /\ handed' = handed + 1 /\ UNCHANGED <<traits, wire, landed, crashes>>
      /\ Pending(row) /\ row \in Row
      /\ worker' = [worker EXCEPT ![q] = NewSender("claimed", "live", handed')]
  BY NextClaim DEF Reuse, Claimable, IInv, RowInv, To
<1>2. RowInv(row') /\ row'.claim = handed' /\ row'.attempt = None /\ row'.started = 0
  BY <1>1, FreshRows
<1>3. IInv'
  BY <1>1, <1>2, FreshStep
<1>4. (row.state = "none" \/ row.lease = 0) /\ row.state # "unknown"
  BY DEF Reuse, Claimable, Reconciled
<1>5. Excused(q)
  BY <1>1, <1>4 DEF IInv, RowInv, Excused, Ownerless, KeepsRecord, Pending
<1> QED
  BY <1>3, <1>5

\* Scan reads a row without a live owner.
LEMMA ScanStep ==
  ASSUME IInv, NEW q \in Procs, Scan(q)
  PROVE  IInv' /\ Excused(q)
<1> DEFINE v == [pc |-> "scanned", snap |-> row, answer |-> "none"]
<1>1. /\ worker' = [worker EXCEPT ![q] = v] /\ row' = row /\ Flights'
      /\ UNCHANGED <<handed, traits>>
  BY DEF Scan, To, IInv, Flights
<1>2. v \in Scanner
  BY DEF IInv, RowInv, Scanner
<1>3. row.lease = 0
  <2>1. row.lease \in Nat
    BY RowNumbers DEF IInv, RowInv
  <2> QED
    BY <2>1 DEF Scan, HasActiveOwner, IInv, RowInv
<1>4. Fits(v, row, handed, traits.payloads)
  BY <1>2, <1>3, Kinds DEF Fits, IInv, RowInv
<1>5. v \notin Sender
  BY <1>2, Kinds
<1> HIDE DEF v
<1>6. IInv'
  BY <1>1, <1>4, <1>5, QuietStep
<1> QED
  BY <1>1, <1>6 DEF Excused

\* MoveExhausted dead-letters as the attempt that was read.
LEMMA MoveExhaustedStep ==
  ASSUME IInv, NEW q \in Procs, MoveExhausted(q)
  PROVE  IInv' /\ Excused(q)
<1>1. IsScanner(q) /\ End(q) /\ UNCHANGED <<handed, traits>> /\ Flights' /\ RowInv(row)
  BY Places DEF MoveExhausted, Scanned, IInv, Flights
<1>2. row' \in Tried(row, Snapped(q), <<Dead>>)
  BY DEF MoveExhausted
<1>3. Leaves(row, Snapped(q), row')
  BY <1>1, <1>2, OwnerMoves, TriedOne
<1>4. KeepsRecord
  BY <1>1, <1>2, SettlesUnknown
<1> QED
  BY <1>1, <1>3, <1>4, ScannerEnds

\* AdmissionRejects dead-letters only the very row that was read.
LEMMA AdmissionStep ==
  ASSUME IInv, NEW q \in Procs, AdmissionRejects(q)
  PROVE  IInv' /\ Excused(q)
<1>1. IsScanner(q) /\ End(q) /\ UNCHANGED <<handed, traits>> /\ Flights' /\ RowInv(row)
  BY Places DEF AdmissionRejects, Scanned, IInv, Flights
<1>2. row' = row \/ (row' = Dead /\ row = worker[q].snap)
  BY DEF AdmissionRejects
<1>3. Moves(row, Dead) /\ Quiet(row, Dead)
  BY <1>1, GoneMoves DEF Dead
<1>4. IInv'
  BY <1>1, <1>2, <1>3, EndStep
<1>5. Excused(q)
  BY <1>1, <1>2 DEF Excused, Ownerless, IInv, Fits, IsScanner, KeepsRecord, Pending, Dead, Gone
<1> QED
  BY <1>4, <1>5

\* Reconcile keeps what was read.
LEMMA ReconcileStep ==
  ASSUME IInv, NEW q \in Procs, Reconcile(q)
  PROVE  IInv' /\ Excused(q)
<1>1. /\ IsScanner(q) /\ UNCHANGED <<handed, traits, row>> /\ Flights'
      /\ Fits(worker[q], row, handed, traits.payloads)
  BY Places DEF Reconcile, Scanned, IInv, Flights
<1>2. PICK a \in Answers(Snapped(q)) :
        To(q, [worker[q] EXCEPT !.pc = "answered", !.answer = a])
  BY DEF Reconcile
<1>3. a \in {"unresolved", "unsupported", "sent", "not_sent"}
  BY DEF Answers
<1> DEFINE v == [worker[q] EXCEPT !.pc = "answered", !.answer = a]
<1>4. v \in Scanner /\ v.snap = worker[q].snap
  BY <1>1, <1>3 DEF IsScanner, Scanner
<1>5. worker' = [worker EXCEPT ![q] = v]
  BY <1>2 DEF To
<1> HIDE DEF v
<1>6. Fits(v, row, handed, traits.payloads) /\ v \notin Sender
  BY <1>1, <1>4, Kinds DEF Fits, IsScanner
<1>7. IInv'
  BY <1>1, <1>5, <1>6, QuietStep
<1> QED
  BY <1>1, <1>7 DEF Excused

\* ActOnAnswer settles as the attempt that was asked about.
LEMMA ActOnAnswerStep ==
  ASSUME IInv, NEW q \in Procs, ActOnAnswer(q)
  PROVE  IInv' /\ Excused(q)
<1>1. /\ IsScanner(q) /\ UNCHANGED <<handed, traits>> /\ Flights' /\ RowInv(row)
      /\ Fits(worker[q], row, handed, traits.payloads)
  BY Places DEF ActOnAnswer, IInv, Flights
<1>2. CASE Replays(q)
  <2> DEFINE v == [worker[q] EXCEPT !.pc = "replay"]
  <2>1. v \in Scanner /\ v.snap = worker[q].snap
    BY <1>1 DEF IsScanner, Scanner
  <2>2. worker' = [worker EXCEPT ![q] = v] /\ row' = row
    BY <1>2 DEF To, ActOnAnswer
  <2> HIDE DEF v
  <2>3. Fits(v, row, handed, traits.payloads) /\ v \notin Sender
    BY <1>1, <2>1, Kinds DEF Fits, IsScanner
  <2>4. IInv'
    BY <1>1, <2>2, <2>3, QuietStep
  <2> QED
    BY <2>2, <2>4 DEF Excused
<1>3. CASE ~Replays(q)
  <2>1. /\ End(q)
        /\ \/ row' \in Tried(row, Snapped(q), <<Acked, Failed(row)>>)
           \/ row' \in Tried(row, Snapped(q), <<Failed(row)>>)
           \/ row' \in Tried(row, Snapped(q), <<Dead>>)
    BY <1>3 DEF ActOnAnswer
  <2>2. Leaves(row, Snapped(q), row')
    <3>1. CASE row' \in Tried(row, Snapped(q), <<Acked, Failed(row)>>)
      BY <1>1, <3>1, OwnerMoves, TriedTwo
    <3>2. CASE row' \in Tried(row, Snapped(q), <<Failed(row)>>)
      BY <1>1, <3>2, OwnerMoves, TriedOne
    <3>3. CASE row' \in Tried(row, Snapped(q), <<Dead>>)
      BY <1>1, <3>3, OwnerMoves, TriedOne
    <3> QED
      BY <2>1, <3>1, <3>2, <3>3
  <2>3. KeepsRecord
    BY <1>1, <2>1, SettlesUnknown
  <2> QED
    BY <1>1, <2>1, <2>2, <2>3, ScannerEnds
<1> QED
  BY <1>2, <1>3

\* Claim takes a row that is free, expired, or still the reconciled attempt.
LEMMA ClaimStep ==
  ASSUME IInv, NEW q \in Procs, Claim(q)
  PROVE  IInv' /\ Excused(q)
<1>1. /\ IsScanner(q) /\ UNCHANGED traits /\ Flights' /\ RowInv(row) /\ row \in Row
      /\ UNCHANGED <<traits, wire, landed, crashes>>
      /\ worker[q] \in Scanner /\ Fits(worker[q], row, handed, traits.payloads)
  BY Places DEF Claim, Scanned, IInv, Flights, RowInv, IsScanner
<1>2. CASE ~Claimable(row, ClaimIds(q)[1], ClaimIds(q)[2])
  <2>1. End(q) /\ UNCHANGED <<handed, row>>
    BY <1>2 DEF Claim
  <2>2. IInv'
    BY <1>1, <2>1, EndStep
  <2> QED
    BY <2>1, <2>2 DEF Excused
<1>3. CASE Claimable(row, ClaimIds(q)[1], ClaimIds(q)[2])
  <2>1. /\ handed < MaxClaims /\ handed' = handed + 1 /\ handed' \in Claims
        /\ row' = Claimed(row, handed') /\ Pending(row)
        /\ worker' = [worker EXCEPT ![q] = NewSender("reserve", "recovery", handed')]
    BY <1>3, NextClaim DEF Claim, To, Claimable
  <2>2. RowInv(row') /\ row'.claim = handed' /\ row'.attempt = None /\ row'.started = 0
    BY <1>1, <2>1, FreshRows
  <2>3. IInv'
    BY <1>1, <2>1, <2>2, FreshStep
  <2>4. ClaimIds(q)[1] \in {None, Snapped(q)}
    BY DEF ClaimIds
  <2>5. row.lease = 0 \/ (row.attempt = Snapped(q) /\ Snapped(q) # None)
    BY <1>1, <1>3, <2>4 DEF Claimable, Reconciled, RowInv
  <2>6. row.lease = 0
    BY <1>1, <2>5 DEF Fits, Snapped
  <2> QED
    BY <1>3, <2>3, <2>6 DEF Excused, Ownerless, KeepsRecord, Claimable, Reconciled, Pending
<1> QED
  BY <1>2, <1>3


-----------------------------------------------------------------------------
(* A sender steps.                                                         *)

\* What a payload's failure and a payload's end write into a sender.
LEMMA SenderValues ==
  ASSUME IInv, NEW w \in Sender, w.next <= traits.payloads
  PROVE  /\ w.next + 1 \in 1 .. MaxPayloads + 1 /\ w.next \in 1 .. MaxPayloads
         /\ w.next \in Nat /\ w.lease \in Nat
<1>1. w.next \in 1 .. MaxPayloads + 1 /\ w.lease \in 0 .. Lease
  BY DEF Sender
<1> QED
  BY <1>1, Payloads, RowAssumption

\* One step after another.
LEMMA GoesOnTwice ==
  ASSUME NEW n, NEW w \in Sender, NEW v, GoesOn(w, v, n), NEW u, GoesOn(v, u, n)
  PROVE  GoesOn(w, u, n)
<1>1. v \in Sender /\ u \in Sender
  BY DEF GoesOn
<1>2. /\ w.lease \in Nat /\ v.lease \in Nat /\ u.lease \in Nat
      /\ Room(w) \in Nat /\ Room(v) \in Nat /\ Room(u) \in Nat
  BY <1>1, WorkerNumbers
<1> QED
  BY <1>1, <1>2 DEF GoesOn

GivenUp(w, e) == [w EXCEPT !.pc = "caught", !.error = e]

\* A sender that gives up keeps everything but its place and its error.
LEMMA GivesUp ==
  ASSUME NEW w \in Sender, NEW e \in {"lost", "abort", "unproven", "proven", "rejected"}
  PROVE  /\ GivenUp(w, e) \in Sender
         /\ GivenUp(w, e).pc = "caught" /\ GivenUp(w, e).error = e
         /\ GivenUp(w, e).claim = w.claim /\ GivenUp(w, e).next = w.next
         /\ GivenUp(w, e).lease = w.lease /\ GivenUp(w, e).pre = w.pre
         /\ GivenUp(w, e).post = w.post /\ GivenUp(w, e).failures = w.failures
         /\ GivenUp(w, e).sent = w.sent /\ GivenUp(w, e).silent = w.silent
<1>1. PICK v : v = GivenUp(w, e)
  OBVIOUS
<1>2. PICK u : u = [w EXCEPT !.pc = "caught"]
  OBVIOUS
<1>3. u \in Sender
  BY <1>2 DEF Sender
<1>4. v = [u EXCEPT !.error = e]
  BY <1>1, <1>2 DEF GivenUp, Sender
<1>5. v \in Sender
  BY <1>3, <1>4 DEF Sender
<1>6. /\ v.pc = "caught" /\ v.error = e
      /\ v.claim = w.claim /\ v.next = w.next /\ v.lease = w.lease /\ v.pre = w.pre
      /\ v.post = w.post /\ v.failures = w.failures /\ v.sent = w.sent
      /\ v.silent = w.silent
  BY <1>1 DEF GivenUp, Sender
<1> QED
  BY <1>1, <1>5, <1>6

\* A sender whose payload fails goes on to the next one, or gives up.
LEMMA FailingGoesOn ==
  ASSUME IInv, NEW w \in Sender, w.next <= traits.payloads,
         NEW e \in {"lost", "abort", "unproven", "proven", "rejected"}
  PROVE  /\ GoesOn(w, Failing(w, e), traits.payloads)
         /\ Failing(w, e).pc \in {"sending", "caught"}
         /\ w.pc # "caught" => Failing(w, e).pc # w.pc \/ Failing(w, e).next # w.next
<1>1. /\ w.next + 1 \in 1 .. MaxPayloads + 1 /\ w.next \in Nat /\ w.lease \in Nat
  BY SenderValues
<1>2. CASE traits.bestEffort /\ ~w.lost
  <2> DEFINE v == Failing(w, e)
  <2>1. v \in Sender
    BY <1>1, <1>2 DEF Failing, Sender
  <2>2. v.pc = "sending" /\ v.next = w.next + 1 /\ v.claim = w.claim /\ v.lease = w.lease
    BY <1>2 DEF Failing, Sender
  <2> HIDE DEF v
  <2>3. GoesOn(w, v, traits.payloads) /\ v.pc \in {"sending", "caught"} /\ v.next # w.next
    BY <1>1, <2>1, <2>2 DEF GoesOn, Room
  <2> QED
    BY <2>3 DEF v
<1>3. CASE ~(traits.bestEffort /\ ~w.lost)
  <2> DEFINE v == Failing(w, e)
  <2> PICK err \in {"lost", "abort", "unproven", "proven", "rejected"} :
             err = IF w.lost THEN "lost" ELSE e
    OBVIOUS
  <2>0. v = GivenUp(w, err)
    BY <1>3 DEF Failing, GivenUp
  <2> HIDE DEF v
  <2>1. v \in Sender
    BY <2>0, GivesUp
  <2>2. v.pc = "caught" /\ v.next = w.next /\ v.claim = w.claim /\ v.lease = w.lease
    BY <2>0, GivesUp
  <2>3. GoesOn(w, v, traits.payloads) /\ v.pc = "caught"
    BY <1>1, <2>1, <2>2 DEF GoesOn, Room
  <2> QED
    BY <2>3 DEF v
<1> QED
  BY <1>2, <1>3

\* A sender that is not settled keeps the invariant and the message it reads.
LEMMA SenderFacts ==
  ASSUME IInv, NEW q \in Procs, IsSender(q)
  PROVE  /\ worker[q] \in Sender /\ Fits(worker[q], row, handed, traits.payloads)
         /\ worker[q].claim \in Claims /\ RowInv(row)
         /\ worker[q].pc \in {"started", "io", "got"} => worker[q].next <= traits.payloads
         /\ \A s : Leaves(row, worker[q].claim, s) => RowInv(s)
BY WorkerNumbers DEF IInv, IsSender, Fits, Leaves, Moves

\* A sender marks a send of the row it owns.
LEMMA MarkingStep ==
  ASSUME IInv, NEW q \in Procs, IsSender(q), Owned(row, worker[q].claim), Moves(row, row'),
         NEW v, GoesOn(worker[q], v, traits.payloads), v # worker[q], To(q, v),
         row'.started <= Room(v),
         UNCHANGED <<handed, traits>>, Flights'
  PROVE  IInv' /\ Excused(q)
<1>1. /\ worker[q] \in Sender /\ RowInv(row) /\ RowInv(row') /\ v \in Sender
      /\ Fits(worker[q], row, handed, traits.payloads)
      /\ v.claim = worker[q].claim /\ v.lease <= worker[q].lease
      /\ v.pc \in {"started", "io", "got"} => v.next <= traits.payloads
      /\ worker' = [worker EXCEPT ![q] = v] /\ worker'[q] = v
  BY SenderFacts DEF Moves, GoesOn, To, IInv
<1>2. /\ row.lease \in Nat /\ row'.lease \in Nat /\ v.lease \in Nat /\ worker[q].lease \in Nat
      /\ v.claim # None
  BY <1>1, RowNumbers, WorkerNumbers DEF RowInv
<1>3. row'.lease > 0 => v.lease <= row'.lease
  BY <1>1, <1>2 DEF Moves, Owned, Fits
<1>4. Fits(v, row', handed, traits.payloads)
  BY <1>1, <1>3, Kinds DEF Fits
<1>5. IInv'
  BY <1>1, <1>4, OwnerStep
<1> QED
  BY <1>1, <1>5 DEF Excused

\* A sender renews its lease.
LEMMA RenewingStep ==
  ASSUME IInv, NEW q \in Procs, IsSender(q), Renewable(row, worker[q].claim),
         row' = Renewed(row), NEW v \in Sender, To(q, v),
         v.claim = worker[q].claim, v.lease = Lease, v.next = worker[q].next,
         Room(v) = Room(worker[q]),
         v.pc \in {"started", "io", "got"} => worker[q].pc = v.pc,
         UNCHANGED <<handed, traits>>, Flights'
  PROVE  IInv' /\ Excused(q)
<1>1. /\ worker[q] \in Sender /\ RowInv(row) /\ row \in Row
      /\ Fits(worker[q], row, handed, traits.payloads)
      /\ worker[q].claim \in Claims
      /\ worker' = [worker EXCEPT ![q] = v] /\ worker'[q] = v
  BY SenderFacts DEF To, IInv, RowInv
<1>2. Owned(row, worker[q].claim) /\ Pending(row) /\ row.lease > 0
  BY <1>1, MarkingMoves DEF Renewable
<1>3. Moves(row, row') /\ Quiet(row, row')
  BY <1>1, <1>2, HoldingMoves
<1>4. /\ row'.lease = Lease /\ row'.attempt = row.attempt /\ row'.started = row.started
      /\ row.lease \in 0 .. Lease /\ Lease \in Nat
  BY <1>1, RowAssumption DEF Renewed, Row
<1>5. Fits(v, row', handed, traits.payloads)
  BY <1>1, <1>4, Kinds DEF Fits
<1>6. IInv'
  BY <1>1, <1>3, <1>5, QuietStep
<1>7. v = worker[q] => row' = row
  <2> SUFFICES ASSUME v = worker[q] PROVE row' = row
    OBVIOUS
  <2>1. worker[q].claim \in {row.claim, row.attempt}
    BY <1>1, <1>2 DEF Owned, Claims, None
  <2>2. row.lease = Lease
    BY <1>1, <1>2, <1>4, <2>1 DEF Fits
  <2> QED
    BY <1>1, <2>2 DEF Renewed, Row
<1> QED
  BY <1>1, <1>2, <1>6, <1>7 DEF Excused


\* Reserve counts or dead-letters under the claim of the drain.
LEMMA ReserveStep ==
  ASSUME IInv, NEW q \in Procs, Reserve(q)
  PROVE  IInv' /\ Excused(q)
<1>1. /\ IsSender(q) /\ UNCHANGED <<handed, traits>> /\ Flights' /\ RowInv(row)
      /\ worker[q].pc = "reserve" /\ worker[q] \in Sender
  BY Places DEF Reserve, IInv, Flights, IsSender
<1>2. CASE /\ Owned(row, worker[q].claim) /\ ~Exhausted(row) /\ row' = Reserved(row)
           /\ To(q, [worker[q] EXCEPT !.pc = "claimed"])
  <2> DEFINE v == [worker[q] EXCEPT !.pc = "claimed"]
  <2>1. v \in Sender
    BY <1>1 DEF Sender
  <2>2. v.pc = "claimed" /\ v.claim = worker[q].claim /\ v.lease = worker[q].lease
        /\ v.next = worker[q].next
    BY <1>1 DEF Sender
  <2>3. Leaves(row, worker[q].claim, row')
    BY <1>1, <1>2, HoldingMoves DEF Leaves, Owned
  <2>4. To(q, v)
    BY <1>2
  <2> HIDE DEF v
  <2>5. GoesOn(worker[q], v, traits.payloads) /\ v # worker[q]
    BY <1>1, <2>1, <2>2, WorkerNumbers DEF GoesOn, Room
  <2> QED
    BY <1>1, <2>3, <2>4, <2>5, SenderStep
<1>3. CASE End(q) /\ (row' = row \/ row' \in Tried(row, worker[q].claim, <<Dead>>))
  <2>1. Leaves(row, worker[q].claim, row')
    BY <1>1, <1>3, OwnerMoves, TriedOne DEF Leaves
  <2> QED
    BY <1>1, <1>3, <2>1, Kinds, SenderStep DEF End, To
<1> QED
  BY <1>2, <1>3 DEF Reserve

\* StartLease renews the claim, or gives up.
LEMMA StartLeaseStep ==
  ASSUME IInv, NEW q \in Procs, StartLease(q)
  PROVE  IInv' /\ Excused(q)
<1>1. /\ IsSender(q) /\ UNCHANGED <<handed, traits>> /\ Flights' /\ RowInv(row)
      /\ worker[q].pc = "claimed" /\ worker[q] \in Sender
  BY Places DEF StartLease, IInv, Flights, IsSender
<1>2. CASE /\ Renewable(row, worker[q].claim) /\ row' = Renewed(row)
           /\ To(q, [worker[q] EXCEPT !.pc = "sending", !.lease = Lease])
  <2> DEFINE v == [worker[q] EXCEPT !.pc = "sending", !.lease = Lease]
  <2>1. v \in Sender
    BY <1>1, RowValues DEF Sender
  <2>2. v.pc = "sending" /\ v.claim = worker[q].claim /\ v.lease = Lease
        /\ v.next = worker[q].next
    BY <1>1 DEF Sender
  <2>3. To(q, v)
    BY <1>2
  <2> HIDE DEF v
  <2>4. Room(v) = Room(worker[q])
    BY <1>1, <2>2 DEF Room
  <2> QED
    BY <1>1, <1>2, <2>1, <2>2, <2>3, <2>4, RenewingStep
<1>3. CASE row' = row /\ End(q)
  BY <1>1, <1>3, Kinds, SenderStep DEF End, To, Leaves
<1>4. CASE /\ row' = row
           /\ To(q, [worker[q] EXCEPT !.pc = "caught", !.error = "lost"])
  <2> DEFINE v == [worker[q] EXCEPT !.pc = "caught", !.error = "lost"]
  <2>1. v \in Sender
    BY <1>1 DEF Sender
  <2>2. v.pc = "caught" /\ v.claim = worker[q].claim /\ v.lease = worker[q].lease
        /\ v.next = worker[q].next
    BY <1>1 DEF Sender
  <2>3. To(q, v)
    BY <1>4
  <2> HIDE DEF v
  <2>4. GoesOn(worker[q], v, traits.payloads)
    BY <1>1, <2>1, <2>2, WorkerNumbers DEF GoesOn, Room
  <2> QED
    BY <1>1, <1>4, <2>3, <2>4, SenderStep DEF Leaves
<1> QED
  BY <1>2, <1>3, <1>4 DEF StartLease

\* Renew extends what is still owned, or notes that it is lost.
LEMMA RenewStep ==
  ASSUME IInv, NEW q \in Procs, Renew(q)
  PROVE  IInv' /\ Excused(q)
<1>1. /\ IsSender(q) /\ UNCHANGED <<handed, traits>> /\ Flights' /\ RowInv(row)
      /\ worker[q] \in Sender /\ Fits(worker[q], row, handed, traits.payloads)
  BY Places DEF Renew, Leased, IInv, Flights, IsSender
<1>2. CASE Renewable(row, worker[q].claim)
  <2> DEFINE v == [worker[q] EXCEPT !.lease = Lease]
  <2>1. v \in Sender
    BY <1>1, RowValues DEF Sender
  <2>2. v.pc = worker[q].pc /\ v.claim = worker[q].claim /\ v.lease = Lease
        /\ v.next = worker[q].next
    BY <1>1 DEF Sender
  <2>3. To(q, v) /\ row' = Renewed(row)
    BY <1>2 DEF Renew
  <2> HIDE DEF v
  <2>4. Room(v) = Room(worker[q])
    BY <2>2 DEF Room
  <2> QED
    BY <1>1, <1>2, <2>1, <2>2, <2>3, <2>4, RenewingStep
<1>3. CASE ~Renewable(row, worker[q].claim)
  <2> DEFINE v == [worker[q] EXCEPT !.lost = TRUE]
  <2>1. v \in Sender
    BY <1>1 DEF Sender
  <2>2. v.pc = worker[q].pc /\ v.claim = worker[q].claim /\ v.lease = worker[q].lease
        /\ v.next = worker[q].next
    BY <1>1 DEF Sender
  <2>3. To(q, v) /\ row' = row
    BY <1>3 DEF Renew
  <2> HIDE DEF v
  <2>4. GoesOn(worker[q], v, traits.payloads)
    BY <1>1, <2>1, <2>2, WorkerNumbers DEF GoesOn, Room, Fits
  <2> QED
    BY <1>1, <2>3, <2>4, SenderStep DEF Leaves
<1> QED
  BY <1>2, <1>3

\* LeaseExpires leaves the row alone.
LEMMA LeaseExpiresStep ==
  ASSUME IInv, NEW q \in Procs, LeaseExpires(q)
  PROVE  IInv' /\ Excused(q)
<1>1. /\ IsSender(q) /\ UNCHANGED <<row, handed, traits>> /\ Flights' /\ RowInv(row)
      /\ worker[q] \in Sender /\ Fits(worker[q], row, handed, traits.payloads)
  BY Places DEF LeaseExpires, Leased, IInv, Flights, IsSender
<1> DEFINE v == [worker[q] EXCEPT !.lost = TRUE]
<1>2. v \in Sender
  BY <1>1 DEF Sender
<1>3. v.pc = worker[q].pc /\ v.claim = worker[q].claim /\ v.lease = worker[q].lease
      /\ v.next = worker[q].next
  BY <1>1 DEF Sender
<1>4. To(q, v)
  BY DEF LeaseExpires
<1> HIDE DEF v
<1>5. GoesOn(worker[q], v, traits.payloads)
  BY <1>1, <1>2, <1>3, WorkerNumbers DEF GoesOn, Room, Fits
<1> QED
  BY <1>1, <1>4, <1>5, SenderStep DEF Leaves

\* Cancel leaves the row alone.
LEMMA CancelStep ==
  ASSUME IInv, NEW q \in Procs, Cancel(q)
  PROVE  IInv' /\ Excused(q)
<1>1. /\ IsSender(q) /\ UNCHANGED <<row, handed, traits>> /\ Flights' /\ RowInv(row)
      /\ worker[q] \in Sender /\ Fits(worker[q], row, handed, traits.payloads)
  BY Places DEF Cancel, Leased, IInv, Flights, IsSender
<1> DEFINE v == [worker[q] EXCEPT !.cancelled = TRUE]
<1>2. v \in Sender
  BY <1>1 DEF Sender
<1>3. v.pc = worker[q].pc /\ v.claim = worker[q].claim /\ v.lease = worker[q].lease
      /\ v.next = worker[q].next
  BY <1>1 DEF Sender
<1>4. To(q, v)
  BY DEF Cancel
<1> HIDE DEF v
<1>5. GoesOn(worker[q], v, traits.payloads)
  BY <1>1, <1>2, <1>3, WorkerNumbers DEF GoesOn, Room, Fits
<1> QED
  BY <1>1, <1>4, <1>5, SenderStep DEF Leaves

\* A request on its way belongs to a sender.
LEMMA RequestFlies ==
  ASSUME IInv, NEW q \in Procs, IsSender(q), worker[q].next <= traits.payloads,
         wire' = wire \/ wire' = wire \union {<<worker[q].claim, worker[q].next>>},
         UNCHANGED <<landed, crashes>>
  PROVE  Flights'
<1>1. worker[q].claim \in Claims /\ worker[q].next \in 1 .. MaxPayloads
  BY SenderValues, SenderFacts
<1> QED
  BY <1>1 DEF IInv, Flights

\* A sender that only notes what became of the row goes on.
LEMMA NotedGoesOn ==
  ASSUME NEW n, NEW w \in Sender, w.next <= n, NEW v \in Sender,
         v.pc = w.pc, v.claim = w.claim, v.lease = w.lease, v.next = w.next
  PROVE  GoesOn(w, v, n)
<1>1. Room(v) = Room(w) /\ Room(w) \in Nat /\ w.lease \in Nat
  BY WorkerNumbers DEF Room
<1> QED
  BY <1>1 DEF GoesOn

\* A sender goes to its next place.
LEMMA SendingGoesOn ==
  ASSUME IInv, NEW w \in Sender, w.pc = "sending", w.next <= traits.payloads,
         NEW v \in Sender, GoesOn(w, v, traits.payloads), v.pc = w.pc, v.next = w.next,
         NEW pc \in {"started", "io"}, NEW u, u = [v EXCEPT !.pc = pc]
  PROVE  u \in Sender /\ GoesOn(w, u, traits.payloads) /\ u.pc = pc /\ Room(u) >= 1
<1>1. w.next \in Nat /\ w.lease \in Nat /\ v.lease \in Nat /\ w.next >= 1
  BY WorkerNumbers
<1>2. u \in Sender
  BY DEF Sender
<1>3. u.pc = pc /\ u.claim = v.claim /\ u.lease = v.lease /\ u.next = v.next
  BY DEF Sender
<1>4. Room(w) = w.next /\ Room(u) >= w.next
  BY <1>1, <1>3 DEF Room
<1>5. v.claim = w.claim /\ v.lease <= w.lease
  BY DEF GoesOn
<1>6. Room(u) >= Room(w) /\ Room(u) >= 1
  <2>1. Room(u) \in Nat
    BY <1>2, WorkerNumbers
  <2> QED
    BY <1>1, <1>4, <2>1
<1>7. GoesOn(w, u, traits.payloads)
  BY <1>1, <1>2, <1>3, <1>5, <1>6 DEF GoesOn
<1> QED
  BY <1>2, <1>3, <1>6, <1>7

\* A sender whose payload fails leaves the row as its owner may.
LEMMA FailingStep ==
  ASSUME IInv, NEW q \in Procs, IsSender(q), worker[q].pc # "caught",
         worker[q].next <= traits.payloads,
         NEW v \in Sender, GoesOn(worker[q], v, traits.payloads),
         v.pc = worker[q].pc, v.next = worker[q].next,
         NEW e \in {"lost", "abort", "unproven", "proven", "rejected"}, To(q, Failing(v, e)),
         Leaves(row, worker[q].claim, row'), UNCHANGED <<handed, traits>>, Flights'
  PROVE  IInv' /\ Excused(q)
<1> DEFINE u == Failing(v, e)
<1>1. worker[q] \in Sender
  BY DEF IsSender
<1>2. GoesOn(v, u, traits.payloads) /\ u # worker[q]
  BY FailingGoesOn
<1>3. GoesOn(worker[q], u, traits.payloads) /\ To(q, u)
  BY <1>1, <1>2, GoesOnTwice
<1> HIDE DEF u
<1> QED
  BY <1>2, <1>3, SenderStep

\* The sender that fails as it is.
LEMMA FailsStep ==
  ASSUME IInv, NEW q \in Procs, IsSender(q), worker[q].pc # "caught",
         worker[q].next <= traits.payloads,
         NEW e \in {"lost", "abort", "unproven", "proven", "rejected"},
         To(q, Failing(worker[q], e)),
         Leaves(row, worker[q].claim, row'), UNCHANGED <<handed, traits>>, Flights'
  PROVE  IInv' /\ Excused(q)
<1>1. worker[q] \in Sender
  BY DEF IsSender
<1>2. GoesOn(worker[q], Failing(worker[q], e), traits.payloads)
      /\ Failing(worker[q], e) # worker[q]
  BY <1>1, FailingGoesOn
<1> QED
  BY <1>2, SenderStep

\* What marking the row before the first payload may leave.
LEMMA PremarkedLeaves ==
  ASSUME IInv, NEW q \in Procs, IsSender(q), NEW m \in Premarked(worker[q])
  PROVE  /\ m.pre \in {"none", "marked", "acked"}
         /\ \/ Leaves(row, worker[q].claim, m.row)
            \/ Promotable(row, worker[q].claim) /\ m.row = Promoted(row, worker[q].claim) /\ m.ok
<1>1. worker[q].pre \in {"none", "marked", "acked"} /\ RowInv(row)
  BY SenderFacts DEF Sender
<1>2. \/ m = [row |-> row, pre |-> worker[q].pre, ok |-> TRUE]
      \/ /\ Promotable(row, worker[q].claim)
         /\ m = [row |-> Promoted(row, worker[q].claim), pre |-> "marked", ok |-> TRUE]
      \/ Owned(row, worker[q].claim) /\ m = [row |-> Acked, pre |-> "acked", ok |-> TRUE]
      \/ m = [row |-> row, pre |-> "none", ok |-> FALSE]
  BY DEF Premarked
<1>3. Leaves(row, worker[q].claim, row)
  BY DEF Leaves
<1>4. Owned(row, worker[q].claim) => Leaves(row, worker[q].claim, Acked)
  BY <1>1, OwnerMoves
<1> QED
  BY <1>1, <1>2, <1>3, <1>4

\* PlatformSendStart marks the row once, under a claim that owns it.
LEMMA SendStartStep ==
  ASSUME IInv, NEW q \in Procs, PlatformSendStart(q)
  PROVE  IInv' /\ Excused(q)
<1> DEFINE w == worker[q]
<1>1. /\ IsSender(q) /\ w \in Sender /\ w.pc = "sending" /\ w.next <= traits.payloads
      /\ UNCHANGED <<handed, traits, landed, crashes>> /\ RowInv(row) /\ w.claim \in Claims
      /\ w.next \in Nat /\ w.next >= 1 /\ w.post \in {"none", "marked", "acked", "failed"}
  BY Places, WorkerNumbers DEF PlatformSendStart, IInv, IsSender, Sender
<1>2. CASE Stopped(w)
  <2>1. /\ To(q, Failing(w, StopError(w))) /\ UNCHANGED <<row, wire>>
        /\ StopError(w) \in {"lost", "abort", "unproven", "proven", "rejected"}
    BY <1>2 DEF PlatformSendStart, StopError
  <2>2. Flights'
    BY <1>1, <2>1, RequestFlies
  <2> QED
    BY <1>1, <2>1, <2>2, FailsStep DEF Leaves
<1>3. CASE ~Stopped(w)
  <2>1. PICK m \in Premarked(w) :
          /\ row' = m.row
          /\ LET v == [w EXCEPT !.pre = m.pre,
                                !.post = IF m.pre = "acked" /\ w.role = "live" THEN "acked" ELSE @]
             IN IF ~m.ok THEN To(q, Failing(v, "unproven")) /\ UNCHANGED wire
                ELSE IF traits.dispatches
                     THEN To(q, [v EXCEPT !.pc = "started"]) /\ UNCHANGED wire
                     ELSE Go(q, v)
    BY <1>3 DEF PlatformSendStart
  <2> DEFINE post == IF m.pre = "acked" /\ w.role = "live" THEN "acked" ELSE w.post
             v == [w EXCEPT !.pre = m.pre, !.post = post]
             u(pc) == [w EXCEPT !.pre = m.pre, !.post = post, !.pc = pc]
  <2>2. /\ m.pre \in {"none", "marked", "acked"}
        /\ \/ Leaves(row, w.claim, m.row)
           \/ Promotable(row, w.claim) /\ m.row = Promoted(row, w.claim) /\ m.ok
    BY <1>1, PremarkedLeaves
  <2>3. post \in {"none", "marked", "acked", "failed"}
    BY <1>1
  <2>4. /\ v \in Sender /\ GoesOn(w, v, traits.payloads) /\ v.next = w.next /\ v.pc = w.pc
        /\ v.claim = w.claim
    <3> HIDE DEF post, w
    <3>1. v \in Sender
      BY <1>1, <2>2, <2>3 DEF Sender
    <3>2. v.pc = w.pc /\ v.claim = w.claim /\ v.lease = w.lease /\ v.next = w.next
      BY <1>1 DEF Sender
    <3> HIDE DEF v
    <3> QED
      BY <1>1, <3>1, <3>2, NotedGoesOn
  <2>5. ASSUME NEW pc \in {"started", "io"}
        PROVE  /\ u(pc) \in Sender /\ GoesOn(w, u(pc), traits.payloads) /\ u(pc).pc = pc
               /\ Room(u(pc)) >= 1
    <3>1. u(pc) = [v EXCEPT !.pc = pc]
      OBVIOUS
    <3> HIDE DEF u, v, w
    <3> QED
      BY <1>1, <2>4, <3>1, SendingGoesOn
  <2>6. CASE ~m.ok
    <3>1. To(q, Failing(v, "unproven")) /\ UNCHANGED wire /\ row' = m.row
      BY <2>1, <2>6
    <3>2. Flights'
      BY <1>1, <3>1, RequestFlies
    <3>3. Leaves(row, w.claim, row')
      BY <2>2, <2>6, <3>1
    <3> HIDE DEF v
    <3> QED
      BY <1>1, <2>4, <3>1, <3>2, <3>3, FailingStep
  <2>7. CASE m.ok
    <3>1. PICK pc \in {"started", "io"} :
            /\ To(q, u(pc)) /\ row' = m.row
            /\ wire' = wire \/ wire' = wire \union {<<w.claim, w.next>>}
      <4>1. CASE traits.dispatches
        <5>1. To(q, [v EXCEPT !.pc = "started"]) /\ UNCHANGED wire /\ row' = m.row
          BY <2>1, <2>7, <4>1
        <5> QED
          BY <5>1
      <4>2. CASE ~traits.dispatches
        <5>1. Go(q, v) /\ row' = m.row
          BY <2>1, <2>7, <4>2
        <5>2. To(q, [v EXCEPT !.pc = "io"]) /\ wire' = wire \union {<<v.claim, v.next>>}
          BY <5>1 DEF Go
        <5> QED
          BY <2>4, <5>1, <5>2
      <4> QED
        BY <4>1, <4>2
    <3> DEFINE x == u(pc)
    <3>2. /\ x \in Sender /\ GoesOn(w, x, traits.payloads) /\ x.pc = pc /\ Room(x) >= 1
          /\ To(q, x)
      BY <2>5, <3>1
    <3>3. Flights'
      BY <1>1, <3>1, RequestFlies
    <3> HIDE DEF x
    <3>4. x # w
      BY <1>1, <3>2
    <3>5. CASE Leaves(row, w.claim, m.row)
      BY <1>1, <3>1, <3>2, <3>3, <3>4, <3>5, SenderStep
    <3>6. CASE Promotable(row, w.claim) /\ m.row = Promoted(row, w.claim)
      <4>1. Owned(row, w.claim) /\ Moves(row, row') /\ row'.started = 1
        BY <1>1, <3>1, <3>6, MarkingMoves
      <4>2. row'.started <= Room(x)
        BY <3>2, <4>1, WorkerNumbers
      <4> QED
        BY <1>1, <3>2, <3>3, <3>4, <4>1, <4>2, MarkingStep
    <3> QED
      BY <2>2, <3>5, <3>6
  <2> QED
    BY <2>6, <2>7
<1> QED
  BY <1>2, <1>3

\* PlatformSendDispatch marks one more send, as many as there are payloads at most.
LEMMA SendDispatchStep ==
  ASSUME IInv, NEW q \in Procs, PlatformSendDispatch(q)
  PROVE  IInv' /\ Excused(q)
<1> DEFINE w == worker[q]
           pre == IF w.pre = "none" THEN "marked" ELSE w.pre
           x == [w EXCEPT !.pc = "io"]
           y == [[w EXCEPT !.pre = pre] EXCEPT !.pc = "io"]
<1>1. /\ IsSender(q) /\ w \in Sender /\ w.pc = "started" /\ w.next <= traits.payloads
      /\ UNCHANGED <<handed, traits, landed, crashes>> /\ RowInv(row) /\ w.claim \in Claims
      /\ w.next \in Nat /\ Fits(w, row, handed, traits.payloads)
  <2>1. IsSender(q) /\ w.pc = "started"
    BY Places DEF PlatformSendDispatch
  <2> QED
    BY <2>1, SenderFacts, WorkerNumbers DEF PlatformSendDispatch
<1>2. /\ x \in Sender /\ GoesOn(w, x, traits.payloads) /\ x.pc = "io"
      /\ y \in Sender /\ GoesOn(w, y, traits.payloads) /\ y.pc = "io" /\ Room(y) = w.next + 1
      /\ y.claim = w.claim /\ y.next = w.next
  <2>1. x \in Sender /\ y \in Sender
    BY <1>1 DEF Sender
  <2>2. /\ x.pc = "io" /\ x.claim = w.claim /\ x.lease = w.lease /\ x.next = w.next
        /\ y.pc = "io" /\ y.claim = w.claim /\ y.lease = w.lease /\ y.next = w.next
    BY <1>1 DEF Sender
  <2> HIDE DEF x, y
  <2> QED
    BY <1>1, <2>1, <2>2, WorkerNumbers DEF GoesOn, Room
<1>3. \/ /\ \E e \in {"lost", "abort", "unproven", "proven", "rejected"} : To(q, Failing(w, e))
         /\ UNCHANGED <<row, wire>>
      \/ Go(q, w) /\ UNCHANGED row
      \/ /\ Dispatchable(row, w.claim) /\ row' = Dispatched(row, w.claim)
         /\ Go(q, [w EXCEPT !.pre = pre])
  BY DEF PlatformSendDispatch, StopError
<1>4. CASE /\ \E e \in {"lost", "abort", "unproven", "proven", "rejected"} : To(q, Failing(w, e))
           /\ UNCHANGED <<row, wire>>
  <2>1. Flights'
    BY <1>1, <1>4, RequestFlies
  <2> QED
    BY <1>1, <1>4, <2>1, FailsStep DEF Leaves
<1>5. CASE Go(q, w) /\ UNCHANGED row
  <2>1. To(q, x) /\ wire' = wire \union {<<w.claim, w.next>>}
    BY <1>5 DEF Go
  <2>2. Flights'
    BY <1>1, <2>1, RequestFlies
  <2> HIDE DEF x
  <2> QED
    BY <1>1, <1>2, <1>5, <2>1, <2>2, SenderStep DEF Leaves
<1>6. CASE /\ Dispatchable(row, w.claim) /\ row' = Dispatched(row, w.claim)
           /\ Go(q, [w EXCEPT !.pre = pre])
  <2>1. To(q, y) /\ wire' = wire \union {<<w.claim, w.next>>}
    <3>1. [w EXCEPT !.pre = pre].claim = w.claim /\ [w EXCEPT !.pre = pre].next = w.next
      BY <1>1 DEF Sender
    <3> QED
      BY <1>6, <3>1 DEF Go
  <2>2. Flights'
    BY <1>1, <2>1, RequestFlies
  <2>3. row.started <= w.next /\ row.started \in Nat
    <3>1. row.started \in Nat
      BY <1>1, RowNumbers DEF RowInv
    <3>2. row.state = "claimed" \/ row.attempt = w.claim
      BY <1>6 DEF Dispatchable
    <3>3. Room(w) = w.next
      BY <1>1 DEF Room
    <3> QED
      BY <1>1, <3>1, <3>2, <3>3, Kinds DEF Fits, RowInv
  <2>4. row.started < MaxMarks
    BY <1>1, <2>3, Payloads, QueueAssumption, RowAssumption
  <2>5. /\ Owned(row, w.claim) /\ Moves(row, row') /\ row'.started = row.started + 1
    BY <1>1, <1>6, <2>4, MarkingMoves
  <2>6. row'.started <= Room(y)
    BY <1>1, <1>2, <2>3, <2>5
  <2> HIDE DEF y
  <2>7. y # w
    BY <1>1, <1>2
  <2> QED
    BY <1>1, <1>2, <2>1, <2>2, <2>5, <2>6, <2>7, MarkingStep
<1> QED
  BY <1>3, <1>4, <1>5, <1>6


\* A payload is done.
LEMMA PayloadDone ==
  ASSUME IInv, NEW w \in Sender, w.next <= traits.payloads, w.pc \in {"io", "got"},
         NEW v \in Sender, v.claim = w.claim, v.lease = w.lease,
         \/ v.pc = "got" /\ v.next = w.next
         \/ v.pc = "sending" /\ v.next = w.next + 1
  PROVE  GoesOn(w, v, traits.payloads)
<1>1. w.next \in Nat /\ w.lease \in Nat
  BY WorkerNumbers
<1>2. Room(v) = w.next + 1 /\ Room(w) = w.next + 1
  BY <1>1 DEF Room
<1> QED
  BY <1>1, <1>2 DEF GoesOn

\* Outcome leaves the row alone.
LEMMA OutcomeStep ==
  ASSUME IInv, NEW q \in Procs, NEW o \in Outcomes, Outcome(q, o)
  PROVE  IInv' /\ Excused(q)
<1> DEFINE w == worker[q]
           x == [w EXCEPT !.pc = "got", !.sent = TRUE]
           y == [w EXCEPT !.pc = "sending", !.next = @ + 1, !.silent = TRUE]
<1>1. /\ IsSender(q) /\ w \in Sender /\ w.pc = "io" /\ w.next <= traits.payloads
      /\ UNCHANGED <<row, handed, traits>> /\ Flights'
      /\ w.next + 1 \in 1 .. MaxPayloads + 1 /\ w.next \in Nat
  <2>1. IsSender(q) /\ w.pc = "io"
    BY Places DEF Outcome
  <2>2. w \in Sender /\ w.next <= traits.payloads
    BY <2>1, SenderFacts
  <2> QED
    BY <2>1, <2>2, SenderValues DEF Outcome, IInv, Flights
<1>2. \/ To(q, x) \/ To(q, y)
      \/ \E e \in {"lost", "abort", "unproven", "proven", "rejected"} : To(q, Failing(w, e))
  <2>1. o \in {"identity", "silent", "abort", "unproven", "proven", "rejected"}
    BY QueueAssumption
  <2>2. CASE o = "identity"
    BY <2>2 DEF Outcome
  <2>3. CASE o = "silent"
    BY <2>3 DEF Outcome
  <2>4. CASE o \notin {"identity", "silent"}
    BY <2>1, <2>4 DEF Outcome
  <2> QED
    BY <2>2, <2>3, <2>4
<1>3. Leaves(row, w.claim, row')
  BY <1>1 DEF Leaves
<1>4. CASE To(q, x)
  <2>1. /\ x \in Sender /\ x.claim = w.claim /\ x.lease = w.lease /\ x.pc = "got"
        /\ x.next = w.next
    BY <1>1 DEF Sender
  <2> HIDE DEF x
  <2>2. GoesOn(w, x, traits.payloads)
    BY <1>1, <2>1, PayloadDone
  <2> QED
    BY <1>1, <1>3, <1>4, <2>2, SenderStep
<1>5. CASE To(q, y)
  <2>1. y \in Sender
    BY <1>1 DEF Sender
  <2>2. /\ y.claim = w.claim /\ y.lease = w.lease /\ y.pc = "sending" /\ y.next = w.next + 1
    BY <1>1 DEF Sender
  <2> HIDE DEF y
  <2>3. GoesOn(w, y, traits.payloads)
    BY <1>1, <2>1, <2>2, PayloadDone
  <2> QED
    BY <1>1, <1>3, <1>5, <2>3, SenderStep
<1>6. CASE \E e \in {"lost", "abort", "unproven", "proven", "rejected"} : To(q, Failing(w, e))
  BY <1>1, <1>3, <1>6, FailsStep
<1> QED
  BY <1>2, <1>4, <1>5, <1>6

\* What recording an outcome, or having recorded one, leaves to the next transaction.
LEMMA PersistedLeaves ==
  ASSUME IInv, NEW q \in Procs, IsSender(q),
         NEW s, s \in Persisted(worker[q]) \/ s \in Kept(worker[q])
  PROVE  /\ Leaves(row, worker[q].claim, s.row) /\ RowInv(s.row)
         /\ s.post \in {"none", "marked", "acked", "failed", "throws"}
         /\ s.post = "throws" => s.row = row
<1>1. worker[q].post \in {"none", "marked", "acked", "failed"} /\ RowInv(row)
  BY SenderFacts DEF Sender
<1>2. CASE s \in Persisted(worker[q])
  <2>1. /\ Leaves(row, worker[q].claim, s.row)
        /\ s.post \in {"none", "marked", "acked", "failed", "throws"}
        /\ s.post = "throws" => s.row = row
    BY <1>1, <1>2, PostSendLeaves DEF Persisted
  <2> QED
    BY <1>1, <2>1, SenderFacts
<1>3. CASE s \in Kept(worker[q])
  BY <1>1, <1>3 DEF Kept, Leaves
<1> QED
  BY <1>2, <1>3

\* DeliveryResult records the outcome as the owner.
LEMMA DeliveryResultStep ==
  ASSUME IInv, NEW q \in Procs, DeliveryResult(q)
  PROVE  IInv' /\ Excused(q)
<1> DEFINE w == worker[q]
<1>1. /\ IsSender(q) /\ w \in Sender /\ w.pc = "got" /\ w.next <= traits.payloads
      /\ UNCHANGED <<handed, traits>> /\ Flights'
      /\ w.next + 1 \in 1 .. MaxPayloads + 1 /\ w.next \in Nat
  <2>1. IsSender(q) /\ w.pc = "got"
    BY Places DEF DeliveryResult
  <2>2. w \in Sender /\ w.next <= traits.payloads
    BY <2>1, SenderFacts
  <2> QED
    BY <2>1, <2>2, SenderValues DEF DeliveryResult, IInv, Flights
<1>2. CASE w.post = "none" /\ w.role = "live" /\ w.lost
  <2>1. To(q, Failing(w, "lost")) /\ Leaves(row, w.claim, row')
    BY <1>2 DEF DeliveryResult, Leaves
  <2> QED
    BY <1>1, <2>1, FailsStep
<1>3. CASE ~(w.post = "none" /\ w.role = "live" /\ w.lost)
  <2>1. PICK s : /\ s \in Persisted(w) \/ s \in Kept(w)
                 /\ row' = s.row
                 /\ IF s.post = "throws" THEN To(q, Failing(w, "unproven"))
                    ELSE To(q, [w EXCEPT !.pc = "sending", !.next = @ + 1, !.post = s.post])
    BY <1>3 DEF DeliveryResult
  <2>2. /\ Leaves(row, w.claim, row')
        /\ s.post \in {"none", "marked", "acked", "failed", "throws"}
    BY <1>1, <2>1, PersistedLeaves
  <2>3. CASE s.post = "throws"
    <3>1. To(q, Failing(w, "unproven"))
      BY <2>1, <2>3
    <3> QED
      BY <1>1, <2>2, <3>1, FailsStep
  <2>4. CASE s.post # "throws"
    <3> DEFINE v == [w EXCEPT !.pc = "sending", !.next = @ + 1, !.post = s.post]
    <3>1. To(q, v)
      BY <2>1, <2>4
    <3>2. v \in Sender
      BY <1>1, <2>2, <2>4 DEF Sender
    <3>3. /\ v.claim = w.claim /\ v.lease = w.lease /\ v.pc = "sending" /\ v.next = w.next + 1
      BY <1>1 DEF Sender
    <3> HIDE DEF v
    <3>4. GoesOn(w, v, traits.payloads) /\ v # w
      BY <1>1, <3>2, <3>3, PayloadDone
    <3> QED
      BY <1>1, <2>2, <3>1, <3>4, SenderStep
  <2> QED
    BY <2>3, <2>4
<1> QED
  BY <1>2, <1>3

-----------------------------------------------------------------------------
(* A sender settles the row.                                               *)

\* A sender that leaves the row as its owner may, and ends.
LEMMA SenderEnds ==
  ASSUME IInv, NEW q \in Procs, IsSender(q), End(q), Leaves(row, worker[q].claim, row'),
         UNCHANGED <<handed, traits>>, Flights'
  PROVE  IInv' /\ Excused(q)
BY Kinds, SenderStep DEF End, To, IsSender

\* Every way to settle the row r that its owner c has.
LEMMA SettledByOne ==
  ASSUME NEW r, RowInv(r), NEW c,
         NEW a \in {Acked, Dropped, Dead, Failed(r), FailedBefore(r), FailedAfter(r)},
         NEW s \in Tried(r, c, <<a>>)
  PROVE  Leaves(r, c, s)
<1>1. Owned(r, c) => Leaves(r, c, a)
  BY OwnerMoves
<1> QED
  BY <1>1, TriedOne

\* The same with a second way to fall back on.
LEMMA SettledByTwo ==
  ASSUME NEW r, RowInv(r), NEW c,
         NEW a \in {Acked, Dropped, Dead, Failed(r), FailedBefore(r), FailedAfter(r)},
         NEW b \in {Acked, Dropped, Dead, Failed(r), FailedBefore(r), FailedAfter(r)},
         NEW s \in Tried(r, c, <<a, b>>)
  PROVE  Leaves(r, c, s)
<1>1. Owned(r, c) => Leaves(r, c, a) /\ Leaves(r, c, b)
  BY OwnerMoves
<1> QED
  BY <1>1, TriedTwo

\* What a live producer settles once its post-send state is known.
LEMMA SettledLeaves ==
  ASSUME NEW w, NEW s, RowInv(s.row), NEW t \in SettledRows(w, s)
  PROVE  Leaves(s.row, w.claim, t)
<1>1. PartialFailure(w, s.row) \in {Failed(s.row), FailedBefore(s.row)}
  BY DEF PartialFailure
<1>2. \/ t \in Tried(s.row, w.claim, <<PartialFailure(w, s.row)>>)
      \/ t \in Tried(s.row, w.claim, <<FailedAfter(s.row)>>)
      \/ t \in Tried(s.row, w.claim, <<Acked, Failed(s.row)>>)
      \/ t \in Tried(s.row, w.claim, <<Acked, FailedAfter(s.row)>>)
      \/ t = s.row
  BY DEF SettledRows
<1>3. CASE t = s.row
  BY <1>3 DEF Leaves
<1>4. CASE t \in Tried(s.row, w.claim, <<PartialFailure(w, s.row)>>)
  BY <1>1, <1>4, SettledByOne
<1>5. CASE t \in Tried(s.row, w.claim, <<FailedAfter(s.row)>>)
  BY <1>5, SettledByOne
<1>6. CASE t \in Tried(s.row, w.claim, <<Acked, Failed(s.row)>>)
  BY <1>6, SettledByTwo
<1>7. CASE t \in Tried(s.row, w.claim, <<Acked, FailedAfter(s.row)>>)
  BY <1>7, SettledByTwo
<1> QED
  BY <1>2, <1>3, <1>4, <1>5, <1>6, <1>7

\* LiveReturns settles as the owner, after the post-send record if there is one.
LEMMA LiveReturnsStep ==
  ASSUME IInv, NEW q \in Procs, LiveReturns(q)
  PROVE  IInv' /\ Excused(q)
<1> DEFINE w == worker[q]
<1>1. /\ IsSender(q) /\ End(q) /\ UNCHANGED <<handed, traits>> /\ Flights' /\ RowInv(row)
  BY Places DEF LiveReturns, Returned, IInv, Flights
<1>2. \/ row' = row
      \/ row' \in Tried(row, w.claim, <<FailedAfter(row)>>)
      \/ \E s : (s \in Persisted(w) \/ s \in Kept(w)) /\ row' \in SettledRows(w, s)
  BY DEF LiveReturns
<1>3. CASE row' = row
  BY <1>1, <1>3, SenderEnds DEF Leaves
<1>4. CASE row' \in Tried(row, w.claim, <<FailedAfter(row)>>)
  <2>1. Leaves(row, w.claim, row')
    BY <1>1, <1>4, SettledByOne
  <2> QED
    BY <1>1, <2>1, SenderEnds
<1>5. ASSUME NEW s, s \in Persisted(w) \/ s \in Kept(w), row' \in SettledRows(w, s)
      PROVE  IInv' /\ Excused(q)
  <2>1. Leaves(row, w.claim, s.row) /\ RowInv(s.row)
    BY <1>1, <1>5, PersistedLeaves
  <2>2. Leaves(s.row, w.claim, row')
    BY <1>5, <2>1, SettledLeaves
  <2>3. Leaves(row, w.claim, row')
    BY <1>1, <2>1, <2>2, LeavesAdd
  <2> QED
    BY <1>1, <2>3, SenderEnds
<1> QED
  BY <1>2, <1>3, <1>4, <1>5

\* LiveThrows settles as the owner, or leaves the row.
LEMMA LiveThrowsStep ==
  ASSUME IInv, NEW q \in Procs, LiveThrows(q)
  PROVE  IInv' /\ Excused(q)
<1> DEFINE w == worker[q]
<1>1. /\ IsSender(q) /\ End(q) /\ UNCHANGED <<handed, traits>> /\ Flights' /\ RowInv(row)
  BY Places DEF LiveThrows, IInv, Flights
<1>2. \/ row' = row
      \/ row' \in Tried(row, w.claim, <<FailedAfter(row)>>)
      \/ row' \in Tried(row, w.claim, <<Dropped>>)
      \/ row' \in Tried(row, w.claim, <<Dropped, FailedBefore(row)>>)
      \/ row' \in Tried(row, w.claim, <<FailedBefore(row)>>)
      \/ row' \in Tried(row, w.claim, <<Failed(row)>>)
      \/ \E s : /\ s \in Persisted(w) \/ s \in Kept(w)
                /\ row' \in Tried(s.row, w.claim, <<FailedAfter(s.row)>>) \/ row' = s.row
  BY DEF LiveThrows
<1>3. CASE row' = row
  BY <1>1, <1>3, SenderEnds DEF Leaves
<1>4. CASE \/ row' \in Tried(row, w.claim, <<FailedAfter(row)>>)
           \/ row' \in Tried(row, w.claim, <<Dropped>>)
           \/ row' \in Tried(row, w.claim, <<FailedBefore(row)>>)
           \/ row' \in Tried(row, w.claim, <<Failed(row)>>)
  <2>1. Leaves(row, w.claim, row')
    BY <1>1, <1>4, SettledByOne
  <2> QED
    BY <1>1, <2>1, SenderEnds
<1>5. CASE row' \in Tried(row, w.claim, <<Dropped, FailedBefore(row)>>)
  <2>1. Leaves(row, w.claim, row')
    BY <1>1, <1>5, SettledByTwo
  <2> QED
    BY <1>1, <2>1, SenderEnds
<1>6. ASSUME NEW s, s \in Persisted(w) \/ s \in Kept(w),
             row' \in Tried(s.row, w.claim, <<FailedAfter(s.row)>>) \/ row' = s.row
      PROVE  IInv' /\ Excused(q)
  <2>1. Leaves(row, w.claim, s.row) /\ RowInv(s.row)
    BY <1>1, <1>6, PersistedLeaves
  <2>2. Leaves(s.row, w.claim, row')
    BY <1>6, <2>1, SettledByOne DEF Leaves
  <2>3. Leaves(row, w.claim, row')
    BY <1>1, <2>1, <2>2, LeavesAdd
  <2> QED
    BY <1>1, <2>3, SenderEnds
<1> QED
  BY <1>2, <1>3, <1>4, <1>5, <1>6


\* RecoveryReturns settles as the owner, or throws.
LEMMA RecoveryReturnsStep ==
  ASSUME IInv, NEW q \in Procs, RecoveryReturns(q)
  PROVE  IInv' /\ Excused(q)
<1> DEFINE w == worker[q]
           v == [w EXCEPT !.pc = "caught", !.error = IF w.lost THEN "lost" ELSE "unproven"]
<1>1. /\ IsSender(q) /\ UNCHANGED <<handed, traits>> /\ Flights' /\ RowInv(row)
      /\ w \in Sender /\ w.pc = "sending"
  BY Places DEF RecoveryReturns, Returned, IInv, Flights, IsSender
<1>2. \/ row' = row /\ To(q, v)
      \/ /\ Owned(row, w.claim) /\ row' \in {FailedAfter(row), PartialFailure(w, row)} /\ End(q)
      \/ \E s : /\ s \in Persisted(w) \/ s \in Kept(w)
                /\ \/ s.post = "throws" /\ row' = s.row /\ To(q, v)
                   \/ /\ \/ row' = s.row
                         \/ row' \in Tried(s.row, w.claim, <<Acked, FailedAfter(s.row)>>)
                      /\ End(q)
  <2>1. CASE w.lost
    BY <2>1 DEF RecoveryReturns
  <2>2. CASE ~w.lost /\ (w.silent \/ (~w.sent /\ (w.pre # "none" \/ traits.exact)))
    BY <2>2 DEF RecoveryReturns
  <2>3. CASE ~w.lost /\ ~w.silent /\ ~w.sent /\ ~(w.pre # "none" \/ traits.exact)
    BY <2>3 DEF RecoveryReturns
  <2>4. CASE ~w.lost /\ ~w.silent /\ w.sent
    BY <2>4 DEF RecoveryReturns
  <2> QED
    BY <2>1, <2>2, <2>3, <2>4
<1>3. GoesOn(w, v, traits.payloads) /\ v # w
  <2>1. v \in Sender
    BY <1>1 DEF Sender
  <2>2. v.pc = "caught" /\ v.claim = w.claim /\ v.lease = w.lease /\ v.next = w.next
    BY <1>1 DEF Sender
  <2> HIDE DEF v
  <2> QED
    BY <1>1, <2>1, <2>2, WorkerNumbers DEF GoesOn, Room
<1>4. ASSUME row' = row, To(q, v) PROVE IInv' /\ Excused(q)
  <2> HIDE DEF v
  <2> QED
    BY <1>1, <1>3, <1>4, SenderStep DEF Leaves
<1>5. CASE /\ Owned(row, w.claim) /\ row' \in {FailedAfter(row), PartialFailure(w, row)} /\ End(q)
  <2>1. Leaves(row, w.claim, row')
    BY <1>1, <1>5, OwnerMoves DEF PartialFailure
  <2> QED
    BY <1>1, <1>5, <2>1, SenderEnds
<1>6. ASSUME NEW s, s \in Persisted(w) \/ s \in Kept(w),
             \/ s.post = "throws" /\ row' = s.row /\ To(q, v)
             \/ /\ \/ row' = s.row
                   \/ row' \in Tried(s.row, w.claim, <<Acked, FailedAfter(s.row)>>)
                /\ End(q)
      PROVE  IInv' /\ Excused(q)
  <2>1. /\ Leaves(row, w.claim, s.row) /\ RowInv(s.row)
        /\ s.post = "throws" => s.row = row
    BY <1>1, <1>6, PersistedLeaves
  <2>2. CASE s.post = "throws" /\ row' = s.row /\ To(q, v)
    <3>1. row' = row
      BY <2>1, <2>2
    <3> QED
      BY <1>4, <2>2, <3>1
  <2>3. CASE /\ \/ row' = s.row
                \/ row' \in Tried(s.row, w.claim, <<Acked, FailedAfter(s.row)>>)
             /\ End(q)
    <3>1. Leaves(s.row, w.claim, row')
      BY <2>1, <2>3, SettledByTwo DEF Leaves
    <3>2. Leaves(row, w.claim, row')
      BY <1>1, <2>1, <3>1, LeavesAdd
    <3> QED
      BY <1>1, <2>3, <3>2, SenderEnds
  <2> QED
    BY <1>6, <2>2, <2>3
<1> QED
  BY <1>2, <1>4, <1>5, <1>6

\* RecoveryThrows settles as the owner.
LEMMA RecoveryThrowsStep ==
  ASSUME IInv, NEW q \in Procs, RecoveryThrows(q)
  PROVE  IInv' /\ Excused(q)
<1> DEFINE w == worker[q]
<1>1. /\ IsSender(q) /\ End(q) /\ UNCHANGED <<handed, traits>> /\ Flights' /\ RowInv(row)
  BY Places DEF RecoveryThrows, IInv, Flights
<1>2. \/ \E s : (s \in Persisted(w) \/ s \in Kept(w)) /\ row' = s.row
      \/ row' \in Tried(row, w.claim, <<Dead>>)
      \/ row' \in Tried(row, w.claim, <<FailedBefore(row)>>)
      \/ row' \in Tried(row, w.claim, <<Failed(row)>>)
  BY DEF RecoveryThrows
<1>3. Leaves(row, w.claim, row')
  <2>1. CASE \E s : (s \in Persisted(w) \/ s \in Kept(w)) /\ row' = s.row
    BY <1>1, <2>1, PersistedLeaves
  <2>2. CASE \/ row' \in Tried(row, w.claim, <<Dead>>)
             \/ row' \in Tried(row, w.claim, <<FailedBefore(row)>>)
             \/ row' \in Tried(row, w.claim, <<Failed(row)>>)
    BY <1>1, <2>2, SettledByOne
  <2> QED
    BY <1>2, <2>1, <2>2
<1> QED
  BY <1>1, <1>3, SenderEnds

-----------------------------------------------------------------------------
(* Crashes, the wire and time.                                             *)

\* Crash leaves the row as it is.
LEMMA CrashStep ==
  ASSUME IInv, NEW q \in Procs, Crash(q)
  PROVE  IInv' /\ Excused(q)
<1>1. MaxCrashes \in Nat
  BY QueueAssumption
<1>2. Flights'
  BY <1>1 DEF Crash, IInv, Flights
<1>3. IInv'
  BY <1>2, EndStep DEF Crash
<1> QED
  BY <1>3 DEF Crash, Excused

\* The platform does not change the row.
LEMMA WireStep ==
  ASSUME IInv, NEW c \in Claims, NEW i \in 1 .. MaxPayloads, Land(c, i) \/ Vanish(c, i)
  PROVE  IInv' /\ row' = row
<1>1. UNCHANGED <<row, traits, worker, handed>> /\ Flights'
  BY DEF Land, Vanish, IInv, Flights
<1> QED
  BY <1>1 DEF IInv, Distinct, IsSender

\* Time takes from the row at least what it takes from the trust of a sender.
LEMMA ElapsedFits ==
  ASSUME IInv, NEW w, NEW h, NEW n, Fits(w, row, h, n),
         NEW s, s = [row EXCEPT !.lease = Less(@)]
  PROVE  /\ Fits(Elapsed(w), s, h, n)
         /\ Elapsed(w) \in Sender => w \in Sender /\ Elapsed(w).claim = w.claim
<1>1. row \in Row /\ row.lease \in Nat /\ row.lease \in 0 .. Lease
  BY RowNumbers DEF IInv, RowInv, Row
<1>2. /\ s.claim = row.claim /\ s.attempt = row.attempt /\ s.started = row.started
      /\ s.lease = Less(row.lease)
  BY <1>1 DEF Row
<1>3. CASE w \in Sender /\ w.lease > 0
  <2> DEFINE v == Elapsed(w)
  <2>1. v = [w EXCEPT !.lease = w.lease - 1, !.lost = w.lost \/ (traits.timely /\ w.lease = 1)]
    BY <1>3 DEF Elapsed
  <2>2. w.lease - 1 \in 0 .. Lease /\ w.lease \in Nat
    <3>1. w.lease \in 0 .. Lease
      BY <1>3 DEF Sender
    <3> QED
      BY <1>3, <3>1, RowAssumption
  <2>3. v \in Sender
    BY <1>3, <2>1, <2>2 DEF Sender
  <2>4. v.pc = w.pc /\ v.claim = w.claim /\ v.lease = w.lease - 1 /\ v.next = w.next
    BY <1>3, <2>1 DEF Sender
  <2> HIDE DEF v
  <2>5. Room(v) = Room(w)
    BY <2>4 DEF Room
  <2>6. Fits(v, s, h, n)
    BY <1>1, <1>2, <1>3, <2>2, <2>3, <2>4, <2>5, Kinds DEF Fits, Less
  <2> QED
    BY <1>3, <2>4, <2>6 DEF v
<1>4. CASE w \in Sender /\ ~(w.lease > 0)
  <2>1. Elapsed(w) = w /\ w.lease = 0
    BY <1>4, WorkerNumbers DEF Elapsed
  <2>2. Fits(w, s, h, n)
    BY <1>1, <1>2, <1>4, <2>1, Kinds DEF Fits, Less
  <2> QED
    BY <2>1, <2>2
<1>5. CASE w \in Scanner
  <2>1. Elapsed(w) = w /\ w \notin Sender
    BY <1>5, Kinds DEF Elapsed
  <2>2. Fits(w, s, h, n)
    BY <1>1, <1>2, <1>5, <2>1 DEF Fits, Less
  <2> QED
    BY <2>1, <2>2
<1>6. CASE w = Idle
  <2>1. Elapsed(w) = w /\ w \notin Sender
    BY <1>6, Kinds DEF Elapsed
  <2> QED
    BY <1>6, <2>1, IdleFits
<1> QED
  BY <1>3, <1>4, <1>5, <1>6 DEF Fits

\* Time leaves every process with a lease it may trust.
LEMMA PassStep ==
  ASSUME IInv, Pass
  PROVE  IInv'
<1>1. /\ row' = [row EXCEPT !.lease = Less(@)] /\ worker' = [p \in Procs |-> Elapsed(worker[p])]
      /\ UNCHANGED <<traits, handed>> /\ Flights' /\ row \in Row /\ RowInv(row)
  BY DEF Pass, IInv, RowInv, Flights
<1>2. row.lease \in Nat /\ Less(row.lease) \in 0 .. Lease
  <2>1. row.lease \in 0 .. Lease
    BY <1>1 DEF Row
  <2> QED
    BY <2>1, RowAssumption DEF Less
<1>3. RowInv(row') /\ row'.claim = row.claim /\ row'.attempt = row.attempt
  <2>1. row' \in Row
    BY <1>1, <1>2 DEF Row
  <2>2. /\ row'.status = row.status /\ row'.state = row.state /\ row'.claim = row.claim
        /\ row'.attempt = row.attempt /\ row'.started = row.started
        /\ row'.lease = Less(row.lease)
    BY <1>1 DEF Row
  <2>3. row.lease = 0 => Less(row.lease) = 0
    BY DEF Less
  <2> QED
    BY <1>1, <2>1, <2>2, <2>3 DEF RowInv, Pending
<1>4. ASSUME NEW p \in Procs
      PROVE  /\ Fits(worker'[p], row', handed, traits.payloads)
             /\ worker'[p] \in Sender => worker[p] \in Sender /\ worker'[p].claim = worker[p].claim
  <2>1. Fits(worker[p], row, handed, traits.payloads) /\ worker'[p] = Elapsed(worker[p])
    BY <1>1 DEF IInv
  <2> QED
    BY <1>1, <2>1, ElapsedFits
<1>5. worker' \in [Procs -> {Idle} \union Scanner \union Sender]
  BY <1>1, <1>4 DEF Fits
<1>6. Distinct'
  BY <1>4 DEF IInv, Distinct, IsSender
<1> QED
  BY <1>1, <1>3, <1>4, <1>5, <1>6 DEF IInv

-----------------------------------------------------------------------------
(* The theorems.                                                           *)

\* The invariant holds before the message is enqueued.
LEMMA Initially == Init => IInv
<1> SUFFICES ASSUME Init PROVE IInv
  OBVIOUS
<1>1. row = Gone("absent")
  BY DEF Init
<1>2. RowInv(row) /\ row.claim = None /\ row.attempt = None /\ None = 0
  <2>1. row \in Row
    BY <1>1, RowValues DEF Gone, Row
  <2> QED
    BY <1>1, <2>1 DEF RowInv, Gone, Pending, None
<1>3. \A p \in Procs : worker[p] = Idle /\ Fits(worker[p], row, handed, traits.payloads)
  BY IdleFits DEF Init
<1>4. Distinct
  BY <1>3, Kinds DEF Distinct, IsSender
<1>5. handed = 0 /\ handed \in 0 .. MaxClaims /\ crashes \in 0 .. MaxCrashes
  BY RowAssumption, QueueAssumption DEF Init
<1>6. Flights
  BY <1>5 DEF Init, Flights
<1> QED
  BY <1>2, <1>3, <1>4, <1>5, <1>6 DEF Init, IInv

\* A step of process q.
Steps(q) ==
  \/ \E turnedAway \in BOOLEAN : Enqueue(q, turnedAway)
  \/ Reuse(q) \/ Recovers(q) \/ AdmissionRejects(q)
  \/ Sends(q) \/ Settles(q)
  \/ Renew(q) \/ LeaseExpires(q) \/ Cancel(q) \/ Crash(q)

\* It keeps the invariant, and has a reason to change the row.
LEMMA ProcessStep ==
  ASSUME IInv, NEW q \in Procs, Steps(q)
  PROVE  IInv' /\ Excused(q)
<1>1. CASE \E turnedAway \in BOOLEAN : Enqueue(q, turnedAway)
  BY <1>1, EnqueueStep
<1>2. CASE Reuse(q) \/ Recovers(q) \/ AdmissionRejects(q)
  BY <1>2, ReuseStep, ScanStep, MoveExhaustedStep, ReconcileStep, ActOnAnswerStep, ClaimStep,
     ReserveStep, AdmissionStep DEF Recovers
<1>3. CASE Sends(q)
  BY <1>3, StartLeaseStep, SendStartStep, SendDispatchStep, OutcomeStep, DeliveryResultStep
     DEF Sends
<1>4. CASE Settles(q)
  BY <1>4, LiveReturnsStep, LiveThrowsStep, RecoveryReturnsStep, RecoveryThrowsStep DEF Settles
<1>5. CASE Renew(q) \/ LeaseExpires(q) \/ Cancel(q) \/ Crash(q)
  BY <1>5, RenewStep, LeaseExpiresStep, CancelStep, CrashStep
<1> QED
  BY <1>1, <1>2, <1>3, <1>4, <1>5 DEF Steps


\* Every step keeps the invariant, and changes the row for a reason.
LEMMA Inductive ==
  ASSUME IInv, Next
  PROVE  IInv' /\ (Pass \/ row' = row \/ \E q \in Procs : Excused(q))
<1>1. CASE Pass
  BY <1>1, PassStep
<1>2. ASSUME NEW c \in Claims, NEW i \in 1 .. MaxPayloads, Land(c, i) \/ Vanish(c, i)
      PROVE  IInv' /\ row' = row
  BY <1>2, WireStep
<1>3. ASSUME NEW q \in Procs, Steps(q)
      PROVE  IInv' /\ Excused(q)
  BY <1>3, ProcessStep
<1> QED
  BY <1>1, <1>2, <1>3 DEF Next, Steps

\* The invariant reads nothing but the variables.
LEMMA Stuttering == IInv /\ UNCHANGED vars => IInv'
BY DEF IInv, vars, Distinct, IsSender, Flights

\* The inductive invariant holds in every behaviour.
LEMMA Invariance == Spec => []IInv
<1>1. IInv /\ [Next]_vars => IInv'
  BY Inductive, Stuttering
<1> QED
  BY Initially, <1>1, PTL DEF Spec

\* Whatever the platform, the failures and the crashes, every variable has its
\* type: no owner marks more sends than the message has payloads, and no counter
\* or lease leaves its range.
THEOREM TypeCorrect == Spec => []TypeOK
<1>1. IInv => TypeOK
  BY DEF IInv, RowInv, Flights, TypeOK, IsScanner, IsSender
<1> QED
  BY <1>1, Invariance, PTL

\* The holder of the lease is the only owner of the row.
LEMMA OnlyOwner ==
  ASSUME IInv, NEW p \in Procs, Holder(p), worker'[p] = worker[p],
         NEW q \in Procs, Excused(q)
  PROVE  row' = row
<1>1. IsSender(p) /\ RowInv(row) /\ row.lease > 0
      /\ worker[p].claim \in {row.claim, row.attempt} /\ worker[p].claim # None
  BY Places, WorkerNumbers DEF Holder, Leased, IInv, IsSender
<1>2. ~Ownerless
  BY <1>1, RowNumbers DEF Ownerless, RowInv
<1>3. CASE IsSender(q) /\ Owned(row, worker[q].claim) /\ worker'[q] # worker[q]
  <2>1. q # p /\ worker[q].claim # None
    BY <1>3, WorkerNumbers DEF IsSender
  <2>2. worker[q].claim # worker[p].claim
    BY <1>1, <1>3, <2>1 DEF IInv, Distinct
  <2>3. worker[q].claim \in {row.claim, row.attempt}
    BY <1>3, <2>1 DEF Owned
  <2> QED
    BY <1>1, <2>1, <2>2, <2>3 DEF RowInv
<1> QED
  BY <1>2, <1>3 DEF Excused

\* As long as a process holds the lease of the row, nobody else changes it: a drain
\* leaves live owners alone, whatever it has read before, and no other claim owns
\* the row (recoverPendingDeliveries, transitionOwnedDeliveryQueueEntry).
THEOREM LeaseKept == Spec => LeaseRespected
<1> DEFINE Respected == \A p \in Procs : Holder(p) /\ worker'[p] = worker[p] =>
                      row' = row \/ row' = [row EXCEPT !.lease = Less(@)]
<1>1. IInv /\ [Next]_vars => [Respected]_vars
  <2> SUFFICES ASSUME IInv, Next PROVE Respected
    OBVIOUS
  <2>1. Pass \/ row' = row \/ \E q \in Procs : Excused(q)
    BY Inductive
  <2>2. CASE Pass
    BY <2>2 DEF Pass
  <2>3. CASE row' = row
    BY <2>3
  <2>4. CASE \E q \in Procs : Excused(q)
    BY <2>4, OnlyOwner
  <2> QED
    BY <2>1, <2>2, <2>3, <2>4
<1> QED
  BY <1>1, Invariance, PTL DEF Spec, LeaseRespected

-----------------------------------------------------------------------------
(* Messages that are sent once.                                            *)

\* A message of one payload; or a batch, if the expiry timers of its leases run on
\* time and each of its sends that arrives returns an identity.  Without either, a
\* batch can be repeated: a producer that does not know that its lease is over goes
\* on to the next payload, and one that was sent in silence counts as never sent
\* once a later one is refused.
Accountable == \A t \in Traits : t.payloads = 1 \/ (t.timely /\ t.identifies)

\* The requests that have left and were not lost, and the claims they were made under.
Requests == wire \union landed
AskedBy(c, F) == \E i \in 1 .. MaxPayloads : <<c, i>> \in F
Asks == {c \in Claims : AskedBy(c, Requests)}

\* Nothing that a sender did may have arrived.
Clean(w) == ~w.sent /\ ~w.silent /\ w.failures # "unproven"

\* A sender that may make a request without a look at the row: it has given the row
\* up, or has marked it and comes to a further payload.
Active(w) ==
  \/ w.pre = "acked"
  \/ /\ w.pre = "marked" /\ w.pc \in {"sending", "started", "io", "got"} /\ ~w.lost
     /\ traits.payloads # 1

\* The row r tells of the sends of an active sender, and nobody else claims it.
Held(w, r) ==
  /\ Marked(r) /\ r.attempt = w.claim
  /\ r.lease > 0 \/ (r.state = "unknown" /\ w.sent)

\* How a sender begins.
Begins(w) ==
  /\ w.pc \in {"reserve", "claimed"} => w.next = 1 /\ w.pre = "none"
  /\ w.pc = "sending" /\ w.next = 1 => w.pre = "none"
  /\ w.next = 1 /\ w.pc # "caught" => w.failures = "none" /\ ~w.silent
  /\ w.next = 1 /\ w.pc \notin {"got", "caught"} =>
       ~w.sent /\ (w.post = "none" \/ w.pre = "acked")
  /\ w.pc # "caught" => w.error = "none"
  /\ w.pre = "none" => w.post = "none"

\* What a sender knows of its requests among F, and of those that landed, l: it marks
\* the row before it asks, and calls a failure proven only if its requests are gone.
Tells(w, F, l) ==
  /\ w.pre = "none" => ~AskedBy(w.claim, F)
  /\ w.pc \in {"io", "got"} => w.pre # "none"
  /\ w.pc = "sending" /\ w.next # 1 /\ w.failures = "none" => w.pre # "none"
  /\ Clean(w) /\ w.pc \in {"sending", "started"} => ~AskedBy(w.claim, F)
  /\ Clean(w) /\ w.pc = "io" => \A i \in 1 .. MaxPayloads : <<w.claim, i>> \in F => i = w.next
  /\ w.pc = "got" => w.sent
  /\ w.sent => AskedBy(w.claim, l)
  /\ Proven(w.error) /\ ~w.sent => ~AskedBy(w.claim, F)

\* Failures are collected only for best effort, silence only where it is the rule,
\* and between two payloads a sender knows whether its lease is over.
Abides(w) ==
  /\ w.failures # "none" => traits.bestEffort
  /\ w.silent => ~traits.identifies /\ w.failures = "none"
  /\ w.pc \in {"sending", "started", "io", "got"} /\ ~w.lost /\ traits.payloads # 1 =>
       w.lease # 0

\* An active sender alone has asked, and the row r, while it is pending, is held for it.
HoldsRow(w, r, F) ==
  Active(w) =>
    /\ \A c \in Claims : AskedBy(c, F) => c = w.claim
    /\ w.pre = "acked" => ~traits.required /\ ~Pending(r)
    /\ Pending(r) => Held(w, r)

\* What a scanner knows: an attempt found not sent never sends after that.
SureScanner(w, r, F, l) ==
  /\ Pending(w.snap)
  /\ w.pc = "replay" => w.answer = "not_sent"
  /\ w.answer = "not_sent" /\ Pending(r) /\ r.attempt = w.snap.attempt /\ w.snap.attempt # None
       => ~AskedBy(w.snap.attempt, F)
  /\ w.answer = "sent" => l # {}

Sure(w, r, F, l) ==
  /\ w \in Sender => Begins(w) /\ Tells(w, F, l) /\ Abides(w) /\ HoldsRow(w, r, F)
  /\ w \in Scanner => SureScanner(w, r, F, l)

\* A pending row tells of the requests that were made.
Evident(r, A) == Pending(r) => \A c \in A : Marked(r) /\ r.attempt = c

\* Under the required policy the receipt of a stable intent tells the truth.
AckHonest == traits.stable /\ traits.required => landed # {}

\* Only one process is active.
OneActive ==
  \A p, q \in Procs : p # q /\ IsSender(p) /\ IsSender(q) =>
    ~(Active(worker[p]) /\ Active(worker[q]))

\* The inductive invariant, next to IInv.
Once ==
  /\ \A c \in Asks : c <= handed
  /\ \A c, d \in Asks : c = d
  /\ Evident(row, Asks)
  /\ row.status = "absent" => handed = 0
  /\ row.status = "acked" => AckHonest
  /\ Requests \subseteq Claims \X (1 .. traits.payloads)
  /\ OneActive
  /\ \A p \in Procs : Sure(worker[p], row, Requests, landed)

\* A change of the row r that keeps it true: the evidence stays while there is a
\* request, and so does what a receipt and a dropped message stand for.
Safe(r, s) ==
  \/ s = r
  \/ /\ Pending(r)
     /\ s.claim \in {None, r.claim} /\ s.attempt \in {None, r.attempt, r.claim}
     /\ Pending(s) => Asks = {} \/ (Marked(r) => Marked(s) /\ s.attempt = r.attempt)
     /\ s.status # "absent"
     /\ s.status = "acked" => AckHonest
     /\ s.status = "dropped" => Asks = {}

\* A message is dropped only while nothing was asked.
Honest == Pending(row) /\ row'.status = "dropped" => Asks = {}

\* A step of process q leaves the row to whoever else is active.
Spares(q) ==
  \A p \in Procs \ {q} :
    IsSender(p) /\ Active(worker[p]) /\ Pending(row') => Held(worker[p], row')

-----------------------------------------------------------------------------
(* Changes of the row.                                                     *)

\* One safe change after another.
LEMMA SafeTwice ==
  ASSUME NEW r, NEW s, Safe(r, s), NEW t, Safe(s, t)
  PROVE  Safe(r, t)
<1>1. CASE s = r
  BY <1>1
<1>2. CASE t = s
  BY <1>2
<1>3. CASE s # r /\ t # s
  BY <1>3 DEF Safe
<1> QED
  BY <1>1, <1>2, <1>3

\* The evidence stays.
LEMMA SafeEvident ==
  ASSUME NEW r, Evident(r, Asks), NEW s, Safe(r, s)
  PROVE  Evident(s, Asks)
BY DEF Evident, Safe

\* An owner without a request of its own owns a row without any.
LEMMA NobodyAsked ==
  ASSUME NEW r, RowInv(r), Evident(r, Asks), NEW c, Owned(r, c), c # None, c \notin Asks
  PROVE  Asks = {}
BY DEF RowInv, Evident, Owned, Marked

\* A row that is not marked tells that there is no request.
LEMMA UnmarkedMeansUnasked ==
  ASSUME NEW r, Pending(r), Evident(r, Asks), ~Marked(r)
  PROVE  Asks = {}
BY DEF Evident

\* The transactions that settle an attempt are safe, some of them with a reason.
LEMMA SafeMoves ==
  ASSUME NEW r, RowInv(r), Pending(r)
  PROVE  /\ Safe(r, Dead)
         /\ \A c : Safe(r, OutcomeUnknown(r, c))
         /\ Safe(r, Failed(r)) /\ Safe(r, FailedAfter(r))
         /\ Safe(r, Reserved(r)) /\ Safe(r, Renewed(r))
         /\ AckHonest => Safe(r, Acked)
         /\ Asks = {} => Safe(r, Dropped) /\ Safe(r, FailedBefore(r))
<1>1. r \in Row
  BY DEF RowInv
<1>2. Safe(r, Dead) /\ (AckHonest => Safe(r, Acked)) /\ (Asks = {} => Safe(r, Dropped))
  BY DEF Safe, Dead, Acked, Dropped, Gone, Pending
<1>3. ASSUME NEW c PROVE Safe(r, OutcomeUnknown(r, c))
  <2> DEFINE s == OutcomeUnknown(r, c)
  <2>1. s.status = r.status /\ s.state = "unknown" /\ s.claim = None /\ s.attempt = r.attempt
    BY <1>1 DEF OutcomeUnknown, Row
  <2> HIDE DEF s
  <2>2. Safe(r, s)
    BY <2>1 DEF Safe, Pending, Marked
  <2> QED
    BY <2>2 DEF s
<1>4. Safe(r, FailedAfter(r))
  <2> DEFINE s == FailedAfter(r)
  <2>1. s.status = r.status /\ s.state = "unknown" /\ s.claim = None /\ s.attempt = r.attempt
    BY <1>1 DEF FailedAfter, Row
  <2> HIDE DEF s
  <2>2. Safe(r, s)
    BY <2>1 DEF Safe, Pending, Marked
  <2> QED
    BY <2>2 DEF s
<1>5. Safe(r, Failed(r))
  <2> DEFINE s == Failed(r)
  <2>1. /\ s.status = r.status /\ (Marked(r) => s.state = r.state) /\ s.claim = None
        /\ s.attempt = r.attempt
    BY <1>1 DEF Failed, Row, Marked
  <2> HIDE DEF s
  <2>2. Safe(r, s)
    BY <2>1 DEF Safe, Pending, Marked
  <2> QED
    BY <2>2 DEF s
<1>6. Asks = {} => Safe(r, FailedBefore(r))
  <2> DEFINE s == FailedBefore(r)
  <2>1. s.status = r.status /\ s.claim = None /\ s.attempt = None
    BY <1>1 DEF FailedBefore, Row
  <2> HIDE DEF s
  <2>2. Asks = {} => Safe(r, s)
    BY <2>1 DEF Safe, Pending
  <2> QED
    BY <2>2 DEF s
<1>7. Safe(r, Reserved(r)) /\ Safe(r, Renewed(r))
  <2>1. \A s \in {Reserved(r), Renewed(r)} :
          s.status = r.status /\ s.state = r.state /\ s.claim = r.claim /\ s.attempt = r.attempt
    BY <1>1 DEF Reserved, Renewed, Row
  <2>2. \A s \in {Reserved(r), Renewed(r)} : Safe(r, s)
    BY <2>1 DEF Safe, Pending, Marked
  <2> QED
    BY <2>2
<1> QED
  BY <1>2, <1>3, <1>4, <1>5, <1>6, <1>7

\* A transaction that may fail, and one to fall back on.
LEMMA SafeOne ==
  ASSUME NEW r, NEW c, NEW a, Owned(r, c) => Safe(r, a), NEW s \in Tried(r, c, <<a>>)
  PROVE  Safe(r, s)
<1>1. CASE ~Owned(r, c)
  BY <1>1 DEF Tried, Safe
<1>2. CASE Owned(r, c)
  <2>1. DOMAIN <<a>> = {1} /\ <<a>>[1] = a
    OBVIOUS
  <2>2. s \in {a, r}
    BY <1>2, <2>1 DEF Tried
  <2> QED
    BY <1>2, <2>2 DEF Safe
<1> QED
  BY <1>1, <1>2

\* The same with two transactions.
LEMMA SafeTwo ==
  ASSUME NEW r, NEW c, NEW a, NEW b, Owned(r, c) => Safe(r, a) /\ Safe(r, b),
         NEW s \in Tried(r, c, <<a, b>>)
  PROVE  Safe(r, s)
<1>1. CASE ~Owned(r, c)
  BY <1>1 DEF Tried, Safe
<1>2. CASE Owned(r, c)
  <2>1. DOMAIN <<a, b>> = {1, 2} /\ <<a, b>>[1] = a /\ <<a, b>>[2] = b
    OBVIOUS
  <2>2. s \in {a, b, r}
    BY <1>2, <2>1 DEF Tried
  <2> QED
    BY <1>2, <2>2 DEF Safe
<1> QED
  BY <1>1, <1>2

\* Recording an outcome is safe: it is acknowledged only without a stable intent.
LEMMA PersistedSafe ==
  ASSUME IInv, NEW q \in Procs, IsSender(q),
         NEW s, s \in Persisted(worker[q]) \/ s \in Kept(worker[q])
  PROVE  /\ Safe(row, s.row)
         /\ s \in Persisted(worker[q]) => s.post # "none"
         /\ s \in Kept(worker[q]) => s.row = row /\ s.post = worker[q].post
<1> DEFINE c == worker[q].claim
<1>1. RowInv(row)
  BY DEF IInv
<1>2. s \in Persisted(worker[q]) =>
        \/ Owned(row, c) /\ s = [row |-> OutcomeUnknown(row, c), post |-> "marked"]
        \/ s = [row |-> row, post |-> "throws"]
        \/ Owned(row, c) /\ s = [row |-> FailedAfter(row), post |-> "failed"]
        \/ Owned(row, c) /\ ~traits.stable /\ s = [row |-> Acked, post |-> "acked"]
  BY DEF Persisted, PostSend
<1>3. s \in Persisted(worker[q]) =>
        /\ s.post # "none"
        /\ \/ s.row = row
           \/ Owned(row, c) /\ s.row \in {OutcomeUnknown(row, c), FailedAfter(row)}
           \/ Owned(row, c) /\ ~traits.stable /\ s.row = Acked
  BY <1>2
<1>4. s \in Kept(worker[q]) => s.row = row /\ s.post = worker[q].post
  BY DEF Kept
<1>5. Safe(row, s.row)
  BY <1>1, <1>3, <1>4, SafeMoves DEF Owned, AckHonest, Safe
<1> QED
  BY <1>3, <1>4, <1>5

-----------------------------------------------------------------------------
(* Changes of a process.                                                   *)

\* The messages at hand are of one payload, or their leases and sends are reliable.
LEMMA Reliable ==
  ASSUME Accountable, IInv
  PROVE  traits.payloads = 1 \/ (traits.timely /\ traits.identifies)
BY DEF Accountable, IInv

\* A sender that owns the row is the only active one.
LEMMA Lonely ==
  ASSUME IInv, Once, NEW q \in Procs, IsSender(q), Owned(row, worker[q].claim),
         NEW p \in Procs \ {q}, IsSender(p)
  PROVE  ~Active(worker[p])
<1> SUFFICES ASSUME Active(worker[p]) PROVE FALSE
  OBVIOUS
<1>1. /\ worker[p].claim # worker[q].claim /\ RowInv(row) /\ worker[p].claim # None
      /\ worker[q].claim # None
  BY WorkerNumbers DEF IInv, Distinct, IsSender
<1>2. Pending(row) /\ worker[q].claim \in {row.attempt, row.claim}
  BY <1>1 DEF Owned
<1>3. row.attempt = worker[p].claim
  BY <1>2 DEF Once, Sure, HoldsRow, Held, IsSender
<1> QED
  BY <1>1, <1>2, <1>3 DEF RowInv

\* Whoever changes the row for a reason spares the active senders.
LEMMA ExcusedSpares ==
  ASSUME IInv, Once, NEW q \in Procs, Excused(q)
  PROVE  Spares(q)
<1> SUFFICES ASSUME NEW p \in Procs \ {q}, IsSender(p), Active(worker[p]), Pending(row')
             PROVE  Held(worker[p], row')
  BY DEF Spares
<1>1. HoldsRow(worker[p], row, Requests) /\ RowInv(row) /\ worker[p] \in Sender
  BY DEF Once, Sure, IsSender, IInv
<1>2. CASE row' = row
  BY <1>1, <1>2 DEF HoldsRow
<1>3. CASE Ownerless /\ KeepsRecord
  <2>1. CASE Pending(row)
    <3>1. Held(worker[p], row) /\ worker[p].claim # None /\ row.lease \in Nat
      BY <1>1, <2>1, WorkerNumbers, RowNumbers DEF HoldsRow, RowInv
    <3>2. row.state = "unknown" /\ worker[p].sent
      BY <1>3, <3>1 DEF Held, Ownerless
    <3> QED
      BY <1>3, <2>1, <3>1, <3>2 DEF Held, KeepsRecord, Marked
  <2>2. CASE ~Pending(row)
    <3>1. handed = 0 /\ worker[p].claim <= handed
      BY <1>1, <1>3, <2>2 DEF KeepsRecord, Pending, Once, IInv, Fits
    <3> QED
      BY <1>1, <3>1, WorkerNumbers DEF Claims
  <2> QED
    BY <2>1, <2>2
<1>4. CASE IsSender(q) /\ Owned(row, worker[q].claim)
  BY <1>4, Lonely
<1> QED
  BY <1>2, <1>3, <1>4 DEF Excused

\* A safe change of the row leaves what a process knows, if the row is still held.
LEMMA SureSafe ==
  ASSUME NEW r, NEW s, Safe(r, s), NEW h, NEW n, NEW w, Fits(w, r, h, n),
         Sure(w, r, Requests, landed),
         w \in Sender /\ Active(w) /\ Pending(s) => Held(w, s)
  PROVE  Sure(w, s, Requests, landed)
<1>1. CASE s = r
  BY <1>1
<1>2. CASE s # r
  <2>1. w \in Sender => HoldsRow(w, s, Requests)
    BY <1>2 DEF Sure, HoldsRow, Safe
  <2>2. ASSUME w \in Scanner PROVE SureScanner(w, s, Requests, landed)
    BY <1>2, <2>2 DEF Sure, SureScanner, Safe, Fits
  <2> QED
    BY <2>1, <2>2 DEF Sure
<1> QED
  BY <1>1, <1>2

\* What the processes know after a step, said of the values after it.
LEMMA SurePrimed ==
  ASSUME UNCHANGED traits, NEW p, Sure(worker'[p], row', Requests', landed')
  PROVE  Sure(worker[p], row, Requests, landed)'
BY DEF Sure, SureScanner, Begins, Tells, Abides, HoldsRow, Active, Held

\* A process steps and changes the row safely; no request is made.
LEMMA WorkStep ==
  ASSUME IInv, Once, NEW q \in Procs, NEW v, To(q, v), Safe(row, row'), Spares(q),
         Sure(v, row', Requests, landed),
         v \in Sender /\ Active(v) =>
           IsSender(q) /\ (Active(worker[q]) \/ Owned(row, worker[q].claim)),
         UNCHANGED <<traits, handed, wire, landed>>
  PROVE  Once' /\ Honest
<1>1. Requests' = Requests /\ Asks' = Asks /\ AckHonest' = AckHonest
  BY DEF Requests, Asks, AckHonest
<1>2. /\ worker'[q] = v /\ \A p \in Procs \ {q} : worker'[p] = worker[p]
  BY DEF IInv, To
<1>3. Evident(row', Asks)
  BY SafeEvident DEF Once
<1>4. /\ row'.status = "absent" => row.status = "absent"
      /\ row'.status = "acked" => AckHonest
  BY DEF Safe, Once
<1>5. ASSUME NEW p \in Procs PROVE Sure(worker'[p], row', Requests, landed)
  <2>1. CASE p = q
    BY <1>2, <2>1
  <2>2. CASE p # q
    <3>1. Fits(worker[p], row, handed, traits.payloads) /\ Sure(worker[p], row, Requests, landed)
      BY DEF IInv, Once
    <3>2. Sure(worker[p], row', Requests, landed)
      BY <2>2, <3>1, SureSafe DEF Spares, IsSender
    <3> QED
      BY <1>2, <2>2, <3>2
  <2> QED
    BY <2>1, <2>2
<1>6. ASSUME v \in Sender, Active(v), NEW p \in Procs \ {q}, IsSender(p)
      PROVE  ~Active(worker[p])
  BY <1>6, Lonely DEF Once, OneActive
<1>7. OneActive'
  <2> SUFFICES ASSUME NEW p \in Procs, NEW u \in Procs, p # u,
                      worker'[p] \in Sender, worker'[u] \in Sender,
                      Active(worker'[p]), Active(worker'[u])
               PROVE  FALSE
    BY DEF OneActive, IsSender, Active
  <2>1. CASE p = q
    BY <1>2, <1>6, <2>1 DEF IsSender
  <2>2. CASE u = q
    BY <1>2, <1>6, <2>2 DEF IsSender
  <2>3. CASE p # q /\ u # q
    BY <1>2, <2>3 DEF Once, OneActive, IsSender
  <2> QED
    BY <2>1, <2>2, <2>3
<1>8. \A p \in Procs : Sure(worker[p], row, Requests, landed)'
  BY <1>1, <1>5, SurePrimed
<1>9. Honest
  BY DEF Honest, Safe, Pending
<1> QED
  BY <1>1, <1>3, <1>4, <1>7, <1>8, <1>9 DEF Once, Evident


\* A process that is idle, or has just taken the row, knows nothing yet.
LEMMA NewSure ==
  /\ \A r, F, l : Sure(Idle, r, F, l)
  /\ \A pc \in {"reserve", "claimed"}, role \in {"live", "recovery"}, c \in Claims :
       /\ \A r, F, l : ~AskedBy(c, F) => Sure(NewSender(pc, role, c), r, F, l)
       /\ ~Active(NewSender(pc, role, c))
<1>1. \A r, F, l : Sure(Idle, r, F, l)
  BY Kinds DEF Sure
<1>2. ASSUME NEW pc \in {"reserve", "claimed"}, NEW role \in {"live", "recovery"},
             NEW c \in Claims
      PROVE  /\ \A r, F, l : ~AskedBy(c, F) => Sure(NewSender(pc, role, c), r, F, l)
             /\ ~Active(NewSender(pc, role, c))
  <2> DEFINE v == NewSender(pc, role, c)
  <2>1. v \in Sender
    BY NewIsSender
  <2>2. /\ v.pc = pc /\ v.claim = c /\ v.next = 1 /\ v.pre = "none" /\ v.post = "none"
        /\ v.failures = "none" /\ v.error = "none" /\ v.sent = FALSE /\ v.silent = FALSE
    BY DEF NewSender
  <2> HIDE DEF v
  <2>3. ~Active(v)
    BY <2>2 DEF Active
  <2>4. ASSUME NEW r, NEW F, NEW l, ~AskedBy(c, F) PROVE Sure(v, r, F, l)
    <3>1. Begins(v) /\ Abides(v) /\ HoldsRow(v, r, F)
      BY <1>2, <2>2, <2>3 DEF Begins, Abides, HoldsRow
    <3>2. Tells(v, F, l)
      BY <1>2, <2>2, <2>4 DEF Tells, Proven
    <3> QED
      BY <2>1, <3>1, <3>2, Kinds DEF Sure
  <2> QED
    BY <2>3, <2>4 DEF v
<1> QED
  BY <1>1, <1>2

\* A process takes a row that nobody asked about.
LEMMA TakeStep ==
  ASSUME IInv, Once, NEW q \in Procs, NEW v, To(q, v), Spares(q), Asks = {},
         handed < MaxClaims, handed' = handed + 1, Pending(row'), row'.attempt = None,
         v = Idle \/ \E pc \in {"reserve", "claimed"}, role \in {"live", "recovery"} :
                      v = NewSender(pc, role, handed'),
         UNCHANGED <<traits, wire, landed>>
  PROVE  Once' /\ Honest
<1>1. /\ Requests' = Requests /\ Asks' = {} /\ handed' \in Claims /\ AckHonest' = AckHonest
      /\ handed \in Nat /\ ~AskedBy(handed', Requests)
  <2>1. handed' \in Claims /\ handed \in Nat
    BY NextClaim DEF IInv
  <2>2. \A c \in Claims : ~AskedBy(c, Requests)
    BY DEF Asks
  <2>3. Requests' = Requests /\ Asks' = Asks /\ AckHonest' = AckHonest
    BY DEF Requests, Asks, AckHonest
  <2> QED
    BY <2>1, <2>2, <2>3
<1>2. /\ worker'[q] = v /\ \A p \in Procs \ {q} : worker'[p] = worker[p]
  BY DEF IInv, To
<1>3. Sure(v, row', Requests, landed) /\ (v \in Sender => ~Active(v))
  BY <1>1, NewSure, Kinds
<1>4. ASSUME NEW p \in Procs \ {q}, IsSender(p) PROVE ~Active(worker[p])
  BY <1>4, WorkerNumbers DEF Spares, Held, IsSender
<1>5. ASSUME NEW p \in Procs PROVE Sure(worker'[p], row', Requests, landed)
  <2>1. CASE p = q
    BY <1>2, <1>3, <2>1
  <2>2. CASE p # q
    <3>1. Sure(worker[p], row, Requests, landed) /\ (worker[p] \in Sender => ~Active(worker[p]))
      BY <1>4, <2>2 DEF Once, IsSender
    <3>2. worker[p] \in Sender => HoldsRow(worker[p], row', Requests)
      BY <3>1 DEF HoldsRow
    <3>3. worker[p] \in Scanner => SureScanner(worker[p], row', Requests, landed)
      BY <3>1 DEF Sure, SureScanner
    <3>4. Sure(worker[p], row', Requests, landed)
      BY <3>1, <3>2, <3>3 DEF Sure
    <3> QED
      BY <1>2, <2>2, <3>4
  <2> QED
    BY <2>1, <2>2
<1>6. \A p \in Procs : Sure(worker[p], row, Requests, landed)'
  BY <1>1, <1>5, SurePrimed
<1>7. OneActive'
  <2> SUFFICES ASSUME NEW p \in Procs, worker'[p] \in Sender PROVE ~Active(worker'[p])
    BY DEF OneActive, IsSender, Active
  <2> QED
    BY <1>2, <1>3, <1>4 DEF IsSender
<1>8. row'.status = "pending"
  BY DEF Pending
<1> QED
  BY <1>1, <1>6, <1>7, <1>8 DEF Once, Evident, Honest

\* What decides what a sender knows.
LEMMA SameSure ==
  ASSUME NEW w \in Sender, NEW v \in Sender, NEW r, NEW F, NEW l, Sure(w, r, F, l),
         v.pc = w.pc, v.claim = w.claim, v.next = w.next, v.pre = w.pre, v.post = w.post,
         v.failures = w.failures, v.error = w.error, v.sent = w.sent, v.silent = w.silent,
         w.lost => v.lost,
         v.lost \/ v.lease # 0 \/ v.lease = w.lease \/ traits.payloads = 1
  PROVE  Sure(v, r, F, l) /\ (Active(v) => Active(w))
<1>1. Begins(w) /\ Tells(w, F, l) /\ Abides(w) /\ HoldsRow(w, r, F)
  BY DEF Sure
<1>2. Active(v) => Active(w)
  BY DEF Active
<1>3. Begins(v)
  BY <1>1 DEF Begins
<1>4. Tells(v, F, l)
  BY <1>1 DEF Tells, Clean
<1>5. Abides(v)
  BY <1>1 DEF Abides
<1>6. HoldsRow(v, r, F)
  BY <1>1, <1>2 DEF HoldsRow, Held
<1> QED
  BY <1>2, <1>3, <1>4, <1>5, <1>6, Kinds DEF Sure

\* A sender whose payload fails is still sure.
LEMMA FailingSure ==
  ASSUME Accountable, IInv, NEW w \in Sender, NEW r, NEW F, NEW l, Sure(w, r, F, l),
         w.next <= traits.payloads, w.pc \in {"sending", "started", "io", "got"},
         NEW e \in {"lost", "abort", "unproven", "proven", "rejected"},
         Proven(e) /\ Clean(w) => ~AskedBy(w.claim, F),
         NEW v \in Sender, v = Failing(w, e)
  PROVE  Sure(v, r, F, l) /\ (Active(v) => Active(w))
<1>1. Begins(w) /\ Tells(w, F, l) /\ Abides(w) /\ HoldsRow(w, r, F)
  BY DEF Sure
<1>2. ~w.silent /\ w.error = "none" /\ w.next \in Nat /\ w.next >= 1
  <2>1. w.next \in Nat /\ w.next >= 1
    BY WorkerNumbers
  <2>2. traits.payloads = 1 => w.next = 1
    BY <2>1
  <2> QED
    BY <1>1, <2>1, <2>2, Reliable DEF Begins, Abides
<1>3. CASE traits.bestEffort /\ ~w.lost
  <2>1. /\ v.pc = "sending" /\ v.next = w.next + 1 /\ v.claim = w.claim /\ v.pre = w.pre
        /\ v.failures = (IF Proven(e) /\ w.failures # "unproven" THEN "proven" ELSE "unproven")
        /\ v.error = w.error /\ v.post = w.post /\ v.sent = w.sent /\ v.silent = w.silent
        /\ v.lost = w.lost /\ v.lease = w.lease
    BY <1>3 DEF Failing, Sender
  <2>2. v.next # 1
    BY <1>2, <2>1
  <2>3. v.failures # "none" /\ (Clean(v) => Clean(w) /\ Proven(e))
    BY <2>1 DEF Clean
  <2>4. Active(v) => Active(w)
    BY <2>1 DEF Active
  <2>5. Begins(v)
    BY <1>1, <1>2, <2>1, <2>2 DEF Begins
  <2>6. Tells(v, F, l)
    BY <1>1, <1>2, <2>1, <2>2, <2>3 DEF Tells, Proven
  <2>7. Abides(v)
    BY <1>1, <1>2, <1>3, <2>1 DEF Abides
  <2>8. HoldsRow(v, r, F)
    BY <1>1, <2>1, <2>4 DEF HoldsRow, Held
  <2> QED
    BY <2>4, <2>5, <2>6, <2>7, <2>8, Kinds DEF Sure
<1>4. CASE ~(traits.bestEffort /\ ~w.lost)
  <2>1. /\ v.pc = "caught" /\ v.next = w.next /\ v.claim = w.claim /\ v.pre = w.pre
        /\ v.failures = w.failures /\ v.error = (IF w.lost THEN "lost" ELSE e)
        /\ v.post = w.post /\ v.sent = w.sent /\ v.silent = w.silent
        /\ v.lost = w.lost /\ v.lease = w.lease
    BY <1>4 DEF Failing, Sender
  <2>2. Active(v) => Active(w)
    BY <2>1 DEF Active
  <2>3. Begins(v)
    BY <1>1, <2>1 DEF Begins
  <2>4. Tells(v, F, l)
    <3>1. ASSUME Proven(v.error), ~v.sent PROVE ~AskedBy(v.claim, F)
      <4>1. ~w.lost /\ Proven(e)
        BY <2>1, <3>1 DEF Proven
      <4>2. w.failures = "none"
        BY <1>1, <1>4, <4>1 DEF Abides
      <4> QED
        BY <1>2, <2>1, <3>1, <4>1, <4>2 DEF Clean
    <3> QED
      BY <1>1, <2>1, <3>1 DEF Tells
  <2>5. Abides(v)
    BY <1>1, <2>1 DEF Abides
  <2>6. HoldsRow(v, r, F)
    BY <1>1, <2>1, <2>2 DEF HoldsRow, Held
  <2> QED
    BY <2>2, <2>3, <2>4, <2>5, <2>6, Kinds DEF Sure
<1> QED
  BY <1>3, <1>4

\* The requests after one more.
LEMMA OneMore ==
  ASSUME IInv, Once, NEW c \in Claims, NEW i \in 1 .. traits.payloads,
         wire' = wire \union {<<c, i>>}, UNCHANGED <<traits, landed>>
  PROVE  /\ Requests' = Requests \union {<<c, i>>}
         /\ Requests' \subseteq Claims \X (1 .. traits.payloads)
         /\ \A d : d # c => (AskedBy(d, Requests') <=> AskedBy(d, Requests))
         /\ \A d : AskedBy(d, landed) => AskedBy(d, Requests)
         /\ (\A d \in Asks : d = c) => Asks' = {c}
<1>1. Requests' = Requests \union {<<c, i>>} /\ i \in 1 .. MaxPayloads
  BY Payloads DEF Requests
<1>2. Requests' \subseteq Claims \X (1 .. traits.payloads)
  BY <1>1 DEF Once
<1>3. ASSUME NEW d, d # c PROVE AskedBy(d, Requests') <=> AskedBy(d, Requests)
  BY <1>1, <1>3 DEF AskedBy
<1>4. ASSUME NEW d, AskedBy(d, landed) PROVE AskedBy(d, Requests)
  BY <1>4 DEF AskedBy, Requests
<1>5. ASSUME \A d \in Asks : d = c PROVE Asks' = {c}
  <2>1. AskedBy(c, Requests')
    BY <1>1 DEF AskedBy
  <2>2. Asks' = {d \in Claims : AskedBy(d, Requests')}
    BY DEF Asks, AskedBy
  <2>3. \A d \in Claims : d # c => ~AskedBy(d, Requests)
    BY <1>5 DEF Asks
  <2> QED
    BY <1>3, <2>1, <2>2, <2>3
<1> QED
  BY <1>1, <1>2, <1>3, <1>4, <1>5

\* A process makes its request: nobody else had made one, and nobody else will.
LEMMA GoStep ==
  ASSUME IInv, IInv', Once, NEW q \in Procs, IsSender(q), NEW v \in Sender, To(q, v), Spares(q),
         Safe(row, row'), worker[q].pc \in {"sending", "started"},
         worker[q].next <= traits.payloads, \A d \in Asks : d = worker[q].claim,
         wire' = wire \union {<<worker[q].claim, worker[q].next>>},
         v.claim = worker[q].claim, v.next = worker[q].next, v.failures = worker[q].failures,
         v.error = worker[q].error, v.sent = worker[q].sent, v.silent = worker[q].silent,
         v.lost = worker[q].lost, v.lease = worker[q].lease,
         v.pc = "io", v.pre # "none", v.post = worker[q].post \/ v.pre = "acked",
         worker[q].pre = "acked" => v.pre = "acked",
         Active(worker[q]) \/ Owned(row, worker[q].claim),
         v.pre = "acked" => ~traits.required /\ ~Pending(row'),
         Pending(row') => Held(v, row'),
         UNCHANGED <<traits, handed, landed>>
  PROVE  Once' /\ Honest
<1> DEFINE w == worker[q]
           c == w.claim
<1>1. /\ w \in Sender /\ c \in Claims /\ c <= handed /\ c # None /\ w.next \in 1 .. traits.payloads
      /\ Begins(w) /\ Tells(w, Requests, landed) /\ Abides(w)
  <2>1. w \in Sender /\ Fits(w, row, handed, traits.payloads) /\ Sure(w, row, Requests, landed)
    BY DEF IInv, IsSender, Once
  <2>2. w.next \in Nat /\ w.next >= 1 /\ traits.payloads \in Nat
    BY <2>1, WorkerNumbers, Payloads
  <2> QED
    BY <2>1, <2>2, WorkerNumbers DEF Fits, Sure
<1>2. /\ Requests' = Requests \union {<<c, w.next>>}
      /\ Requests' \subseteq Claims \X (1 .. traits.payloads)
      /\ \A d : d # c => (AskedBy(d, Requests') <=> AskedBy(d, Requests))
      /\ \A d : AskedBy(d, landed) => AskedBy(d, Requests)
      /\ Asks' = {c}
  BY <1>1, OneMore
<1>3. AckHonest' = AckHonest
  BY DEF AckHonest
<1>4. /\ row'.status = "acked" => AckHonest
      /\ row'.status = "absent" => row.status = "absent"
      /\ Evident(row', {c})
  BY DEF Safe, Once, Evident, Held
<1>5. /\ worker'[q] = v /\ \A p \in Procs \ {q} : worker'[p] = worker[p]
  BY DEF IInv, To
<1>6. Sure(v, row', Requests', landed)
  <2>1. Begins(v)
    BY <1>1 DEF Begins
  <2>2. Tells(v, Requests', landed)
    <3>1. Clean(v) <=> Clean(w)
      BY DEF Clean
    <3>2. ASSUME Clean(v), NEW i \in 1 .. MaxPayloads, <<c, i>> \in Requests' PROVE i = w.next
      <4>1. ~AskedBy(c, Requests)
        BY <1>1, <3>1, <3>2 DEF Tells
      <4> QED
        BY <1>2, <3>2, <4>1 DEF AskedBy
    <3>3. ~Proven(v.error)
      BY <1>1 DEF Begins, Proven
    <3> QED
      BY <1>1, <3>2, <3>3 DEF Tells
  <2>3. Abides(v)
    BY <1>1 DEF Abides
  <2>4. HoldsRow(v, row', Requests')
    <3>1. \A d \in Claims : AskedBy(d, Requests') => d = c
      <4>1. \A d \in Claims : AskedBy(d, Requests) => d = c
        BY DEF Asks
      <4> QED
        BY <1>2, <4>1
    <3> QED
      BY <3>1 DEF HoldsRow
  <2> QED
    BY <2>1, <2>2, <2>3, <2>4, Kinds DEF Sure
<1>7. ASSUME NEW p \in Procs \ {q}, IsSender(p) PROVE ~Active(worker[p])
  BY <1>7, Lonely DEF Once, OneActive
<1>8. ASSUME NEW p \in Procs \ {q} PROVE Sure(worker[p], row', Requests', landed)
  <2>1. Sure(worker[p], row', Requests, landed)
    <3>1. Fits(worker[p], row, handed, traits.payloads) /\ Sure(worker[p], row, Requests, landed)
      BY DEF IInv, Once
    <3> QED
      BY <1>7, <3>1, SureSafe DEF IsSender
  <2>2. ASSUME worker[p] \in Sender
        PROVE  /\ Begins(worker[p]) /\ Tells(worker[p], Requests', landed)
               /\ Abides(worker[p]) /\ HoldsRow(worker[p], row', Requests')
    <3>1. worker[p].claim # c /\ ~Active(worker[p])
      BY <1>7, <2>2 DEF IInv, Distinct, IsSender
    <3>2. AskedBy(worker[p].claim, Requests') <=> AskedBy(worker[p].claim, Requests)
      BY <1>2, <3>1
    <3>3. \A i : <<worker[p].claim, i>> \in Requests' => <<worker[p].claim, i>> \in Requests
      BY <1>2, <3>1
    <3>4. Begins(worker[p]) /\ Tells(worker[p], Requests, landed) /\ Abides(worker[p])
      BY <2>1, <2>2 DEF Sure
    <3>5. Tells(worker[p], Requests', landed)
      BY <3>2, <3>3, <3>4 DEF Tells
    <3> QED
      BY <3>1, <3>4, <3>5 DEF HoldsRow
  <2>3. ASSUME worker[p] \in Scanner PROVE SureScanner(worker[p], row', Requests', landed)
    <3>1. Fits(worker[p], row', handed, traits.payloads)
      BY <1>5 DEF IInv
    <3>2. SureScanner(worker[p], row', Requests, landed)
      BY <2>1, <2>3 DEF Sure
    <3>3. ASSUME worker[p].answer = "not_sent", Pending(row'),
                 row'.attempt = worker[p].snap.attempt, worker[p].snap.attempt # None
          PROVE  FALSE
      <4>1. row'.lease = 0 /\ row'.attempt = c
        BY <2>3, <3>1, <3>3 DEF Fits, Held
      <4>2. v.sent
        BY <3>3, <4>1 DEF Held
      <4>3. AskedBy(c, Requests)
        BY <1>1, <1>2, <4>2 DEF Tells
      <4> QED
        BY <3>2, <3>3, <4>1, <4>3 DEF SureScanner
    <3> QED
      BY <3>2, <3>3 DEF SureScanner
  <2> QED
    BY <2>2, <2>3 DEF Sure
<1>9. \A p \in Procs : Sure(worker'[p], row', Requests', landed)
  BY <1>5, <1>6, <1>8
<1>10. \A p \in Procs : Sure(worker[p], row, Requests, landed)'
  <2>1. \A p \in Procs : Sure(worker'[p], row', Requests', landed')
    BY <1>9
  <2> QED
    BY <2>1, SurePrimed
<1>11. OneActive'
  <2> SUFFICES ASSUME NEW p \in Procs, p # q, worker'[p] \in Sender PROVE ~Active(worker'[p])
    BY DEF OneActive, IsSender, Active
  <2> QED
    BY <1>5, <1>7 DEF IsSender
<1>12. Honest
  BY DEF Honest, Safe, Pending
<1>13. /\ \A d \in Asks' : d <= handed'
       /\ \A d, e \in Asks' : d = e
       /\ Evident(row, Asks)'
       /\ row'.status = "absent" => handed' = 0
  BY <1>1, <1>2, <1>4 DEF Evident, Once
<1> QED
  BY <1>2, <1>3, <1>4, <1>10, <1>11, <1>12, <1>13 DEF Once


\* The platform only answers requests.
LEMMA WireOnce ==
  ASSUME Once, NEW c \in Claims, NEW i \in 1 .. MaxPayloads, Land(c, i) \/ Vanish(c, i)
  PROVE  Once' /\ Honest
<1>1. /\ UNCHANGED <<row, traits, worker, handed>>
      /\ landed \subseteq landed' /\ Requests' \subseteq Requests
  BY DEF Land, Vanish, Requests
<1>2. /\ \A d : AskedBy(d, Requests') => AskedBy(d, Requests)
      /\ \A d : AskedBy(d, landed) => AskedBy(d, landed')
      /\ Asks' \subseteq Asks
  <2>1. /\ \A d : AskedBy(d, Requests') => AskedBy(d, Requests)
        /\ \A d : AskedBy(d, landed) => AskedBy(d, landed')
    BY <1>1 DEF AskedBy
  <2>2. Asks' = {d \in Claims : AskedBy(d, Requests')}
    BY DEF Asks, AskedBy
  <2> QED
    BY <2>1, <2>2 DEF Asks
<1>3. AckHonest => AckHonest'
  BY <1>1 DEF AckHonest
<1>4. ASSUME NEW p \in Procs PROVE Sure(worker[p], row, Requests, landed)'
  <2>1. Sure(worker[p], row, Requests, landed)
    BY DEF Once
  <2>2. ASSUME NEW w, Tells(w, Requests, landed) PROVE Tells(w, Requests', landed')
    BY <1>1, <1>2, <2>2 DEF Tells
  <2>3. ASSUME NEW w, HoldsRow(w, row, Requests) PROVE HoldsRow(w, row, Requests')
    BY <1>2, <2>3 DEF HoldsRow
  <2>4. ASSUME NEW w, SureScanner(w, row, Requests, landed)
        PROVE  SureScanner(w, row, Requests', landed')
    BY <1>1, <1>2, <2>4 DEF SureScanner
  <2>5. Sure(worker[p], row, Requests', landed')
    BY <2>1, <2>2, <2>3, <2>4 DEF Sure
  <2>6. Sure(worker'[p], row', Requests', landed')
    BY <1>1, <2>5
  <2> QED
    BY <1>1, <2>6, SurePrimed
<1>5. OneActive'
  BY <1>1 DEF Once, OneActive, IsSender, Active
<1>6. Evident(row, Asks)'
  BY <1>1, <1>2 DEF Once, Evident
<1>7. Requests' \subseteq Claims \X (1 .. traits'.payloads)
  BY <1>1 DEF Once
<1> QED
  BY <1>1, <1>2, <1>3, <1>4, <1>5, <1>6, <1>7 DEF Once, Honest, Pending

\* Time changes no more than leases and what is lost: a sender whose lease is not
\* over has a lease in the row.
LEMMA PassOnce ==
  ASSUME Accountable, IInv, Once, Pass
  PROVE  Once' /\ Honest
<1>1. /\ row' = [row EXCEPT !.lease = Less(@)] /\ worker' = [p \in Procs |-> Elapsed(worker[p])]
      /\ UNCHANGED <<traits, handed, wire, landed>> /\ row \in Row
  BY DEF Pass, IInv, RowInv
<1>2. /\ row'.status = row.status /\ row'.state = row.state /\ row'.attempt = row.attempt
      /\ row'.lease = Less(row.lease) /\ row.lease \in Nat
  BY <1>1, RowNumbers DEF Row
<1>3. Requests' = Requests /\ Asks' = Asks /\ AckHonest' = AckHonest
  BY <1>1 DEF Requests, Asks, AckHonest
<1>4. ASSUME NEW p \in Procs
      PROVE  /\ Sure(worker'[p], row', Requests, landed)
             /\ worker'[p] \in Sender =>
                  worker[p] \in Sender /\ (Active(worker'[p]) => Active(worker[p]))
  <2> DEFINE w == worker[p]
             v == Elapsed(w)
  <2>1. /\ Sure(w, row, Requests, landed) /\ worker'[p] = v
        /\ Fits(w, row, handed, traits.payloads)
        /\ w = Idle \/ w \in Scanner \/ w \in Sender
    BY <1>1 DEF Once, IInv, Fits
  <2>2. CASE w \in Sender
    <3>1. w.lease \in 0 .. Lease /\ w.lease \in Nat
      BY <2>2, WorkerNumbers DEF Sender
    <3>2. /\ v \in Sender /\ v.pc = w.pc /\ v.claim = w.claim /\ v.next = w.next
          /\ v.pre = w.pre /\ v.post = w.post /\ v.failures = w.failures /\ v.error = w.error
          /\ v.sent = w.sent /\ v.silent = w.silent
          /\ v.lease = Less(w.lease)
          /\ v.lost = (w.lost \/ (traits.timely /\ w.lease = 1))
      <4>1. CASE w.lease > 0
        <5>1. /\ v = [w EXCEPT !.lease = w.lease - 1,
                               !.lost = w.lost \/ (traits.timely /\ w.lease = 1)]
              /\ Less(w.lease) = w.lease - 1 /\ w.lease - 1 \in 0 .. Lease
          BY <2>2, <3>1, <4>1, RowAssumption DEF Elapsed, Less
        <5> HIDE DEF v
        <5> QED
          BY <2>2, <5>1 DEF Sender
      <4>2. CASE ~(w.lease > 0)
        <5>1. v = w /\ w.lease = 0 /\ Less(w.lease) = 0
          BY <3>1, <4>2 DEF Elapsed, Less
        <5> QED
          BY <2>2, <5>1 DEF Sender
      <4> QED
        BY <4>1, <4>2
    <3> HIDE DEF v
    <3>3. w.lost => v.lost
      BY <3>2
    <3>4. v.lost \/ v.lease # 0 \/ v.lease = w.lease \/ traits.payloads = 1
      <4>1. w.lease = 1 /\ traits.timely => v.lost
        BY <3>2
      <4>2. w.lease # 1 => v.lease # 0 \/ v.lease = w.lease
        BY <3>1, <3>2 DEF Less
      <4> QED
        BY <4>1, <4>2, Reliable
    <3>5. Sure(v, row, Requests, landed) /\ (Active(v) => Active(w))
      BY <2>1, <2>2, <3>2, <3>3, <3>4, SameSure
    <3>6. Active(v) /\ Pending(row') => Held(v, row')
      <4> SUFFICES ASSUME Active(v), Pending(row') PROVE Held(v, row')
        OBVIOUS
      <4>1. Held(w, row) /\ Held(v, row) /\ v.pre # "acked" /\ Abides(v)
        BY <1>2, <2>1, <2>2, <3>2, <3>5, Kinds DEF Sure, HoldsRow, Pending
      <4>2. v.lease # 0
        BY <4>1 DEF Active, Abides
      <4>3. row.lease > 0 => w.lease <= row.lease
        BY <2>1, <2>2, <4>1 DEF Fits, Held
      <4>4. row.lease > 0 => Less(row.lease) > 0
        BY <1>2, <3>1, <3>2, <4>2, <4>3 DEF Less
      <4> QED
        BY <1>2, <4>1, <4>4 DEF Held, Marked
    <3>7. HoldsRow(v, row', Requests)
      BY <1>2, <3>2, <3>5, <3>6, Kinds DEF Sure, HoldsRow, Pending
    <3> QED
      BY <2>1, <2>2, <3>2, <3>5, <3>7, Kinds DEF Sure
  <2>3. CASE w \notin Sender
    <3>1. v = w
      BY <2>3 DEF Elapsed
    <3> HIDE DEF v
    <3>2. w \in Scanner => SureScanner(w, row', Requests, landed)
      BY <1>2, <2>1 DEF Sure, SureScanner, Pending
    <3> QED
      BY <2>1, <2>3, <3>1, <3>2 DEF Sure
  <2> QED
    BY <2>2, <2>3
<1>5. \A p \in Procs : Sure(worker[p], row, Requests, landed)'
  <2>1. \A p \in Procs : Sure(worker'[p], row', Requests', landed')
    BY <1>1, <1>3, <1>4
  <2> QED
    BY <1>1, <2>1, SurePrimed
<1>6. OneActive'
  BY <1>1, <1>4 DEF Once, OneActive, IsSender, Active
<1>7. Evident(row, Asks)'
  BY <1>2, <1>3 DEF Once, Evident, Marked, Pending
<1>8. Requests' \subseteq Claims \X (1 .. traits'.payloads)
  BY <1>1, <1>3 DEF Once
<1> QED
  BY <1>1, <1>2, <1>3, <1>5, <1>6, <1>7, <1>8 DEF Once, Honest, Pending

-----------------------------------------------------------------------------
(* Ownership changes hands.                                                *)

\* The message is enqueued before anything was asked.
LEMMA EnqueueOnce ==
  ASSUME IInv, Once, NEW q \in Procs, Spares(q),
         NEW turnedAway \in BOOLEAN, Enqueue(q, turnedAway)
  PROVE  Once' /\ Honest
<1>1. /\ row' = Enqueued(handed') /\ handed < MaxClaims
      /\ handed' = handed + 1 /\ UNCHANGED <<traits, wire, landed, crashes>>
      /\ handed = 0
  BY DEF Enqueue, Once
<1>2. Pending(row') /\ row'.attempt = None
  BY <1>1 DEF Enqueued, Gone, Pending
<1>3. Asks = {}
  <2>1. \A c \in Asks : c \in Claims /\ c <= 0
    BY <1>1 DEF Once, Asks
  <2> QED
    BY <2>1, RowAssumption DEF Claims
<1>4. To(q, Idle) \/ To(q, NewSender("claimed", "live", handed'))
  BY DEF Enqueue, End, To
<1>5. CASE To(q, Idle)
  BY <1>1, <1>2, <1>3, <1>5, TakeStep
<1>6. CASE To(q, NewSender("claimed", "live", handed'))
  BY <1>1, <1>2, <1>3, <1>6, TakeStep
<1> QED
  BY <1>4, <1>5, <1>6

\* A row that is claimed anew.
LEMMA ClaimedAnew ==
  ASSUME NEW r \in Row, Pending(r), NEW c
  PROVE  Pending(Claimed(r, c)) /\ Claimed(r, c).attempt = None
BY DEF Claimed, Row, Pending

\* An intent is reused only before a send was marked.
LEMMA ReuseOnce ==
  ASSUME IInv, Once, NEW q \in Procs, Spares(q), Reuse(q)
  PROVE  Once' /\ Honest
<1>1. /\ row' = Claimed(row, handed') /\ handed < MaxClaims
      /\ handed' = handed + 1 /\ UNCHANGED <<traits, wire, landed, crashes>>
      /\ Pending(row) /\ row \in Row /\ Claimable(row, None, 0)
      /\ To(q, NewSender("claimed", "live", handed'))
  BY DEF Reuse, Claimable, IInv, RowInv
<1>2. Pending(row') /\ row'.attempt = None
  BY <1>1, ClaimedAnew
<1>3. ~Marked(row)
  BY <1>1 DEF Claimable, Reconciled, Marked
<1>4. Asks = {}
  BY <1>1, <1>3, UnmarkedMeansUnasked DEF Once
<1> QED
  BY <1>1, <1>2, <1>4, TakeStep

\* A drain reads a pending row.
LEMMA ScanOnce ==
  ASSUME IInv, Once, NEW q \in Procs, Spares(q), Scan(q)
  PROVE  Once' /\ Honest
<1> DEFINE v == [pc |-> "scanned", snap |-> row, answer |-> "none"]
<1>1. To(q, v) /\ row' = row /\ UNCHANGED <<traits, handed, wire, landed>> /\ Pending(row)
  BY DEF Scan
<1>2. v \in Scanner
  BY DEF IInv, RowInv, Scanner
<1>3. v.pc = "scanned" /\ v.snap = row /\ v.answer = "none"
  OBVIOUS
<1> HIDE DEF v
<1>4. Sure(v, row', Requests, landed) /\ v \notin Sender
  BY <1>1, <1>2, <1>3, Kinds DEF Sure, SureScanner
<1> QED
  BY <1>1, <1>4, WorkStep DEF Safe

\* A process ends with a safe change of the row.
LEMMA EndOnce ==
  ASSUME IInv, Once, NEW q \in Procs, Spares(q), End(q), Safe(row, row'),
         UNCHANGED <<traits, handed, wire, landed>>
  PROVE  Once' /\ Honest
BY Kinds, NewSure, WorkStep DEF End, To

\* A spent budget only dead-letters.
LEMMA MoveExhaustedOnce ==
  ASSUME IInv, Once, NEW q \in Procs, Spares(q), MoveExhausted(q)
  PROVE  Once' /\ Honest
<1>1. /\ End(q) /\ UNCHANGED <<traits, handed, wire, landed>> /\ RowInv(row)
      /\ row' \in Tried(row, Snapped(q), <<Dead>>)
  BY DEF MoveExhausted, IInv
<1>2. Safe(row, row')
  BY <1>1, SafeMoves, SafeOne DEF Owned
<1> QED
  BY <1>1, <1>2, EndOnce

\* So does a rejected admission, of the very row that was read.
LEMMA AdmissionOnce ==
  ASSUME IInv, Once, NEW q \in Procs, Spares(q), AdmissionRejects(q)
  PROVE  Once' /\ Honest
<1>1. /\ End(q) /\ UNCHANGED <<traits, handed, wire, landed>> /\ RowInv(row)
      /\ IsScanner(q) /\ (row' = row \/ (row' = Dead /\ row = worker[q].snap))
  BY Places DEF AdmissionRejects, Scanned, IInv
<1>2. Pending(worker[q].snap)
  BY <1>1 DEF Once, Sure, SureScanner, IsScanner
<1>3. Safe(row, row')
  BY <1>1, <1>2, SafeMoves DEF Safe
<1> QED
  BY <1>1, <1>3, EndOnce

\* What the platform answers is true.
LEMMA ReconcileOnce ==
  ASSUME IInv, Once, NEW q \in Procs, Spares(q), Reconcile(q)
  PROVE  Once' /\ Honest
<1>1. /\ IsScanner(q) /\ worker[q] \in Scanner /\ UNCHANGED <<traits, handed, row, wire, landed>>
      /\ SureScanner(worker[q], row, Requests, landed)
      /\ Requests \subseteq Claims \X (1 .. traits.payloads)
  BY Places DEF Reconcile, Scanned, IInv, IsScanner, Once, Sure
<1>2. PICK a \in Answers(Snapped(q)) :
        To(q, [worker[q] EXCEPT !.pc = "answered", !.answer = a])
  BY DEF Reconcile
<1>3. /\ a \in {"unresolved", "unsupported", "sent", "not_sent"}
      /\ a = "sent" => \A i \in 1 .. traits.payloads : <<Snapped(q), i>> \in landed
      /\ a = "not_sent" => ~OnWire(Snapped(q)) /\ ~Landed(Snapped(q))
  BY DEF Answers
<1>4. /\ a = "sent" => landed # {}
      /\ a = "not_sent" => ~AskedBy(Snapped(q), Requests)
  <2>1. 1 \in 1 .. traits.payloads
    BY Payloads, QueueAssumption DEF IInv
  <2>2. ASSUME NEW i \in 1 .. MaxPayloads, <<Snapped(q), i>> \in Requests
        PROVE  OnWire(Snapped(q)) \/ Landed(Snapped(q))
    BY <1>1, <2>2 DEF OnWire, Landed, Requests
  <2> QED
    BY <1>3, <2>1, <2>2 DEF AskedBy
<1> DEFINE v == [worker[q] EXCEPT !.pc = "answered", !.answer = a]
<1>5. v \in Scanner /\ v.snap = worker[q].snap /\ v.pc = "answered" /\ v.answer = a
  BY <1>1, <1>3 DEF Scanner
<1>6. To(q, v)
  BY <1>2
<1> HIDE DEF v
<1>7. Sure(v, row', Requests, landed) /\ v \notin Sender
  BY <1>1, <1>4, <1>5, Kinds DEF Sure, SureScanner, Snapped
<1> QED
  BY <1>1, <1>6, <1>7, WorkStep DEF Safe

\* A drain acknowledges only what the platform has called sent.
LEMMA ActOnAnswerOnce ==
  ASSUME IInv, Once, NEW q \in Procs, Spares(q), ActOnAnswer(q)
  PROVE  Once' /\ Honest
<1>1. /\ IsScanner(q) /\ worker[q] \in Scanner /\ UNCHANGED <<traits, handed, wire, landed>>
      /\ SureScanner(worker[q], row, Requests, landed) /\ RowInv(row)
  BY Places DEF ActOnAnswer, IInv, IsScanner, Once, Sure
<1>2. CASE Replays(q)
  <2> DEFINE v == [worker[q] EXCEPT !.pc = "replay"]
  <2>1. /\ v \in Scanner /\ v.snap = worker[q].snap /\ v.pc = "replay"
        /\ v.answer = worker[q].answer
    BY <1>1 DEF Scanner
  <2>2. To(q, v) /\ row' = row /\ worker[q].answer = "not_sent"
    BY <1>2 DEF ActOnAnswer, Replays
  <2> HIDE DEF v
  <2>3. Sure(v, row', Requests, landed) /\ v \notin Sender
    BY <1>1, <2>1, <2>2, Kinds DEF Sure, SureScanner
  <2> QED
    BY <1>1, <2>2, <2>3, WorkStep DEF Safe
<1>3. CASE ~Replays(q)
  <2>1. /\ End(q)
        /\ \/ /\ worker[q].answer = "sent"
              /\ row' \in Tried(row, Snapped(q), <<Acked, Failed(row)>>)
           \/ row' \in Tried(row, Snapped(q), <<Failed(row)>>)
           \/ row' \in Tried(row, Snapped(q), <<Dead>>)
    BY <1>3 DEF ActOnAnswer
  <2>2. Safe(row, row')
    <3>1. CASE /\ worker[q].answer = "sent"
               /\ row' \in Tried(row, Snapped(q), <<Acked, Failed(row)>>)
      <4>1. AckHonest
        BY <1>1, <3>1 DEF SureScanner, AckHonest
      <4> QED
        BY <1>1, <3>1, <4>1, SafeMoves, SafeTwo DEF Owned
    <3>2. CASE row' \in Tried(row, Snapped(q), <<Failed(row)>>)
      BY <1>1, <3>2, SafeMoves, SafeOne DEF Owned
    <3>3. CASE row' \in Tried(row, Snapped(q), <<Dead>>)
      BY <1>1, <3>3, SafeMoves, SafeOne DEF Owned
    <3> QED
      BY <2>1, <3>1, <3>2, <3>3
  <2> QED
    BY <1>1, <2>1, <2>2, EndOnce
<1> QED
  BY <1>2, <1>3

\* A row is claimed for recovery only while nothing was asked.
LEMMA ClaimOnce ==
  ASSUME IInv, Once, NEW q \in Procs, Spares(q), Claim(q)
  PROVE  Once' /\ Honest
<1>1. /\ IsScanner(q) /\ worker[q] \in Scanner /\ UNCHANGED <<traits, wire, landed>>
      /\ SureScanner(worker[q], row, Requests, landed) /\ RowInv(row) /\ row \in Row
      /\ Evident(row, Asks)
  BY Places DEF Claim, Scanned, IInv, IsScanner, Once, Sure, RowInv
<1>2. CASE ~Claimable(row, ClaimIds(q)[1], ClaimIds(q)[2])
  <2>1. End(q) /\ UNCHANGED <<handed, row>>
    BY <1>2 DEF Claim
  <2> QED
    BY <1>1, <2>1, EndOnce DEF Safe
<1>3. CASE Claimable(row, ClaimIds(q)[1], ClaimIds(q)[2])
  <2>1. /\ handed < MaxClaims /\ handed' = handed + 1
        /\ row' = Claimed(row, handed') /\ Pending(row)
        /\ To(q, NewSender("reserve", "recovery", handed'))
    BY <1>3 DEF Claim, Claimable
  <2>2. Pending(row') /\ row'.attempt = None
    BY <1>1, <2>1, ClaimedAnew
  <2>3. \/ ~Marked(row)
        \/ /\ worker[q].pc = "replay" /\ row.attempt = worker[q].snap.attempt
           /\ row.attempt # None
    BY <1>3 DEF Claimable, Reconciled, ClaimIds, Marked, Snapped
  <2>4. Asks = {}
    <3>1. CASE ~Marked(row)
      BY <1>1, <2>1, <3>1, UnmarkedMeansUnasked
    <3>2. CASE /\ worker[q].pc = "replay" /\ row.attempt = worker[q].snap.attempt
               /\ row.attempt # None
      <4>1. row.attempt \notin Asks
        BY <1>1, <2>1, <3>2 DEF SureScanner, Asks
      <4> QED
        BY <1>1, <2>1, <4>1 DEF Evident
    <3> QED
      BY <2>3, <3>1, <3>2
  <2> QED
    BY <1>1, <2>1, <2>2, <2>4, TakeStep
<1> QED
  BY <1>2, <1>3


-----------------------------------------------------------------------------
(* A sender steps.                                                         *)

\* What is known of a sender before it steps.
LEMMA SenderKnows ==
  ASSUME IInv, Once, NEW q \in Procs, IsSender(q)
  PROVE  /\ worker[q] \in Sender /\ Fits(worker[q], row, handed, traits.payloads)
         /\ Sure(worker[q], row, Requests, landed)
         /\ Begins(worker[q]) /\ Tells(worker[q], Requests, landed) /\ Abides(worker[q])
         /\ HoldsRow(worker[q], row, Requests)
         /\ worker[q].claim \in Claims /\ worker[q].claim # None /\ worker[q].claim <= handed
         /\ RowInv(row) /\ row \in Row /\ Evident(row, Asks)
         /\ worker[q].next \in Nat /\ worker[q].next >= 1
         /\ worker[q].pc \in {"started", "io", "got"} => worker[q].next <= traits.payloads
         /\ worker[q].claim \in Asks <=> AskedBy(worker[q].claim, Requests)
<1>1. /\ worker[q] \in Sender /\ Fits(worker[q], row, handed, traits.payloads)
      /\ RowInv(row) /\ row \in Row /\ Evident(row, Asks)
      /\ Sure(worker[q], row, Requests, landed)
  BY DEF IInv, IsSender, Once, RowInv
<1>2. /\ worker[q].claim \in Claims /\ worker[q].claim # None
      /\ worker[q].next \in Nat /\ worker[q].next >= 1
  BY <1>1, WorkerNumbers
<1> QED
  BY <1>1, <1>2 DEF Fits, Sure, Asks

\* A sender is as sure as before, whatever becomes of its lease.
LEMMA SameOnce ==
  ASSUME IInv, Once, NEW q \in Procs, Spares(q), IsSender(q), NEW v \in Sender, To(q, v),
         v.pc = worker[q].pc, v.claim = worker[q].claim, v.next = worker[q].next,
         v.pre = worker[q].pre, v.post = worker[q].post, v.failures = worker[q].failures,
         v.error = worker[q].error, v.sent = worker[q].sent, v.silent = worker[q].silent,
         worker[q].lost => v.lost, v.lost \/ v.lease # 0 \/ v.lease = worker[q].lease,
         Safe(row, row'), Held(worker[q], row) => Held(worker[q], row'),
         UNCHANGED <<traits, handed, wire, landed>>
  PROVE  Once' /\ Honest
<1>1. Active(worker[q]) /\ Pending(row') => Held(worker[q], row')
  BY SenderKnows DEF HoldsRow, Safe
<1>2. Sure(worker[q], row', Requests, landed) /\ worker[q] \in Sender
  BY <1>1, SenderKnows, SureSafe
<1>3. Sure(v, row', Requests, landed) /\ (Active(v) => Active(worker[q]))
  BY <1>2, SameSure
<1> QED
  BY <1>3, WorkStep

\* A sender that has not marked anything is not active.
LEMMA BeginsOnce ==
  ASSUME IInv, Once, NEW q \in Procs, Spares(q), IsSender(q), NEW v \in Sender, To(q, v),
         worker[q].pc \in {"reserve", "claimed"}, v.pc \in {"claimed", "sending", "caught"},
         v.claim = worker[q].claim, v.next = worker[q].next,
         v.pre = worker[q].pre, v.post = worker[q].post, v.failures = worker[q].failures,
         v.error = worker[q].error \/ (v.pc = "caught" /\ v.error = "lost"),
         v.sent = worker[q].sent, v.silent = worker[q].silent, v.pc = "sending" => v.lease # 0,
         Safe(row, row'), UNCHANGED <<traits, handed, wire, landed>>
  PROVE  Once' /\ Honest
<1>1. /\ Begins(worker[q]) /\ Tells(worker[q], Requests, landed) /\ Abides(worker[q])
  BY SenderKnows
<1>2. v.pre = "none" /\ v.next = 1 /\ ~Active(v) /\ ~Proven(v.error)
  BY <1>1 DEF Begins, Active, Proven
<1>3. Begins(v)
  BY <1>1 DEF Begins
<1>4. Tells(v, Requests, landed)
  BY <1>1, <1>2 DEF Tells, Begins, Clean
<1>5. Abides(v) /\ HoldsRow(v, row', Requests)
  BY <1>1, <1>2 DEF Abides, HoldsRow
<1>6. Sure(v, row', Requests, landed)
  BY <1>3, <1>4, <1>5, Kinds DEF Sure
<1> QED
  BY <1>2, <1>6, WorkStep

\* Reserving an attempt changes a counter.
LEMMA ReserveOnce ==
  ASSUME IInv, Once, NEW q \in Procs, Spares(q), Reserve(q)
  PROVE  Once' /\ Honest
<1> DEFINE w == worker[q]
           v == [w EXCEPT !.pc = "claimed"]
<1>1. IsSender(q) /\ UNCHANGED <<traits, handed, wire, landed>> /\ w.pc = "reserve"
  BY Places DEF Reserve
<1>2. w \in Sender /\ RowInv(row)
  BY <1>1, SenderKnows
<1>3. CASE Owned(row, w.claim) /\ row' = Reserved(row) /\ To(q, v)
  <2>1. Safe(row, row')
    BY <1>2, <1>3, SafeMoves DEF Owned
  <2>2. v \in Sender
    BY <1>2 DEF Sender
  <2>3. /\ v.pc = "claimed" /\ v.claim = w.claim /\ v.next = w.next /\ v.pre = w.pre
        /\ v.post = w.post /\ v.failures = w.failures /\ v.error = w.error /\ v.sent = w.sent
        /\ v.silent = w.silent
    BY <1>2 DEF Sender
  <2> HIDE DEF v
  <2> QED
    BY <1>1, <1>3, <2>1, <2>2, <2>3, BeginsOnce
<1>4. CASE End(q) /\ (row' = row \/ row' \in Tried(row, w.claim, <<Dead>>))
  <2>1. Safe(row, row')
    BY <1>2, <1>4, SafeMoves, SafeOne DEF Owned, Safe
  <2> QED
    BY <1>1, <1>4, <2>1, EndOnce
<1> QED
  BY <1>3, <1>4 DEF Reserve

\* Starting a lease changes the time it runs out.
LEMMA StartLeaseOnce ==
  ASSUME IInv, Once, NEW q \in Procs, Spares(q), StartLease(q)
  PROVE  Once' /\ Honest
<1> DEFINE w == worker[q]
           v == [w EXCEPT !.pc = "sending", !.lease = Lease]
           x == [w EXCEPT !.pc = "caught", !.error = "lost"]
<1>1. IsSender(q) /\ UNCHANGED <<traits, handed, wire, landed>> /\ w.pc = "claimed"
  BY Places DEF StartLease
<1>2. /\ w \in Sender /\ RowInv(row)
  BY <1>1, SenderKnows
<1>3. CASE Renewable(row, w.claim) /\ row' = Renewed(row) /\ To(q, v)
  <2>1. Safe(row, row')
    BY <1>2, <1>3, SafeMoves DEF Renewable
  <2>2. v \in Sender
    BY <1>2, RowValues DEF Sender
  <2>3. /\ v.pc = "sending" /\ v.claim = w.claim /\ v.next = w.next /\ v.pre = w.pre
        /\ v.post = w.post /\ v.failures = w.failures /\ v.error = w.error /\ v.sent = w.sent
        /\ v.silent = w.silent /\ v.lease # 0
    BY <1>2, RowAssumption DEF Sender
  <2> HIDE DEF v
  <2> QED
    BY <1>1, <1>3, <2>1, <2>2, <2>3, BeginsOnce
<1>4. CASE End(q) /\ row' = row
  BY <1>1, <1>4, EndOnce DEF Safe
<1>5. CASE To(q, x) /\ row' = row
  <2>1. x \in Sender
    BY <1>2 DEF Sender
  <2>2. /\ x.pc = "caught" /\ x.claim = w.claim /\ x.next = w.next /\ x.pre = w.pre
        /\ x.post = w.post /\ x.failures = w.failures /\ x.error = "lost" /\ x.sent = w.sent
        /\ x.silent = w.silent
    BY <1>2 DEF Sender
  <2> HIDE DEF x
  <2> QED
    BY <1>1, <1>5, <2>1, <2>2, BeginsOnce DEF Safe
<1> QED
  BY <1>3, <1>4, <1>5 DEF StartLease

\* So does renewing it.
LEMMA RenewOnce ==
  ASSUME IInv, Once, NEW q \in Procs, Spares(q), Renew(q)
  PROVE  Once' /\ Honest
<1> DEFINE w == worker[q]
           v == [w EXCEPT !.lease = Lease]
           x == [w EXCEPT !.lost = TRUE]
<1>1. IsSender(q) /\ UNCHANGED <<traits, handed, wire, landed>>
  BY Places DEF Renew, Leased
<1>2. w \in Sender /\ RowInv(row) /\ row \in Row
  BY <1>1, SenderKnows
<1>3. CASE Renewable(row, w.claim)
  <2>1. row' = Renewed(row) /\ To(q, v)
    BY <1>3 DEF Renew
  <2>2. Safe(row, row')
    BY <1>2, <1>3, <2>1, SafeMoves DEF Renewable
  <2>3. v \in Sender
    BY <1>2, RowValues DEF Sender
  <2>4. /\ v.pc = w.pc /\ v.claim = w.claim /\ v.next = w.next /\ v.pre = w.pre
        /\ v.post = w.post /\ v.failures = w.failures /\ v.error = w.error /\ v.sent = w.sent
        /\ v.silent = w.silent /\ v.lost = w.lost /\ v.lease # 0
    BY <1>2, RowAssumption DEF Sender
  <2>5. row'.state = row.state /\ row'.attempt = row.attempt /\ row'.lease = Lease
    BY <1>2, <2>1 DEF Renewed, Row
  <2>6. Held(w, row) => Held(w, row')
    BY <2>5, RowAssumption DEF Held, Marked
  <2> HIDE DEF v
  <2> QED
    BY <1>1, <2>1, <2>2, <2>3, <2>4, <2>6, SameOnce
<1>4. CASE ~Renewable(row, w.claim)
  <2>1. row' = row /\ To(q, x)
    BY <1>4 DEF Renew
  <2>2. x \in Sender
    BY <1>2 DEF Sender
  <2>3. /\ x.pc = w.pc /\ x.claim = w.claim /\ x.next = w.next /\ x.pre = w.pre
        /\ x.post = w.post /\ x.failures = w.failures /\ x.error = w.error /\ x.sent = w.sent
        /\ x.silent = w.silent /\ x.lost
    BY <1>2 DEF Sender
  <2> HIDE DEF x
  <2> QED
    BY <1>1, <2>1, <2>2, <2>3, SameOnce DEF Safe
<1> QED
  BY <1>3, <1>4

\* A lease that expires, and a caller that cancels, change what the sender does next.
LEMMA StopOnce ==
  ASSUME IInv, Once, NEW q \in Procs, Spares(q), LeaseExpires(q) \/ Cancel(q)
  PROVE  Once' /\ Honest
<1> DEFINE w == worker[q]
<1>1. IsSender(q) /\ UNCHANGED <<row, traits, handed, wire, landed>>
  BY Places DEF LeaseExpires, Cancel, Leased
<1>2. w \in Sender
  BY <1>1, SenderKnows
<1>3. PICK v \in {[w EXCEPT !.lost = TRUE], [w EXCEPT !.cancelled = TRUE]} : To(q, v)
  BY DEF LeaseExpires, Cancel
<1> DEFINE SameSend == /\ v \in Sender
                       /\ v.pc = w.pc /\ v.claim = w.claim /\ v.next = w.next /\ v.pre = w.pre
                       /\ v.post = w.post /\ v.failures = w.failures /\ v.error = w.error
                       /\ v.sent = w.sent /\ v.silent = w.silent /\ (w.lost => v.lost)
                       /\ v.lease = w.lease
<1> HIDE DEF w
<1>4. ASSUME v = [w EXCEPT !.lost = TRUE] PROVE SameSend
  BY <1>2, <1>4 DEF Sender
<1>5. ASSUME v = [w EXCEPT !.cancelled = TRUE] PROVE SameSend
  BY <1>2, <1>5 DEF Sender
<1> USE DEF w
<1>6. SameSend
  <2> HIDE DEF w, SameSend
  <2> QED
    BY <1>3, <1>4, <1>5
<1> QED
  BY <1>1, <1>3, <1>6, SameOnce DEF Safe

\* A sender fails, with a safe change of the row.
LEMMA FailsOnce ==
  ASSUME Accountable, IInv, Once, NEW q \in Procs, Spares(q), IsSender(q),
         worker[q].next <= traits.payloads,
         worker[q].pc \in {"sending", "started", "io", "got"},
         NEW e \in {"lost", "abort", "unproven", "proven", "rejected"},
         Proven(e) /\ Clean(worker[q]) => ~AskedBy(worker[q].claim, Requests),
         To(q, Failing(worker[q], e)), row' = row,
         UNCHANGED <<traits, handed, wire, landed>>
  PROVE  Once' /\ Honest
<1> DEFINE w == worker[q]
           v == Failing(w, e)
<1>1. w \in Sender /\ Sure(w, row', Requests, landed)
  BY SenderKnows
<1>2. v \in Sender
  BY <1>1, FailingGoesOn DEF GoesOn
<1>3. Sure(v, row', Requests, landed) /\ (Active(v) => Active(w))
  BY <1>1, <1>2, FailingSure
<1> HIDE DEF v
<1>4. To(q, v)
  BY DEF v
<1> QED
  BY <1>3, <1>4, WorkStep DEF Safe

\* The request comes back.
LEMMA OutcomeOnce ==
  ASSUME Accountable, IInv, Once, NEW q \in Procs, Spares(q), NEW o \in Outcomes, Outcome(q, o)
  PROVE  Once' /\ Honest
<1> DEFINE w == worker[q]
           x == [w EXCEPT !.pc = "got", !.sent = TRUE]
           y == [w EXCEPT !.pc = "sending", !.next = @ + 1, !.silent = TRUE]
<1>1. IsSender(q) /\ UNCHANGED <<row, traits, handed, wire, landed>> /\ w.pc = "io"
  BY Places DEF Outcome
<1>2. /\ w \in Sender /\ Begins(w) /\ Tells(w, Requests, landed) /\ Abides(w)
      /\ HoldsRow(w, row, Requests) /\ w.next <= traits.payloads /\ w.next \in 1 .. MaxPayloads
      /\ Possible(o, <<w.claim, w.next>>) /\ w.claim \in Claims
      /\ w.next + 1 \in 1 .. MaxPayloads + 1 /\ w.next + 1 # 1 /\ w.next \in Nat /\ w.next >= 1
  <2>1. w \in Sender /\ w.next <= traits.payloads /\ w.next \in Nat /\ w.next >= 1
    BY <1>1, SenderKnows
  <2> QED
    BY <1>1, <2>1, SenderKnows, SenderValues DEF Outcome
<1>3. CASE o = "identity"
  <2>1. To(q, x) /\ AskedBy(w.claim, landed)
    BY <1>2, <1>3 DEF Outcome, Possible, AskedBy
  <2>2. x \in Sender
    BY <1>2 DEF Sender
  <2>3. /\ x.pc = "got" /\ x.claim = w.claim /\ x.next = w.next /\ x.pre = w.pre
        /\ x.post = w.post /\ x.failures = w.failures /\ x.error = w.error /\ x.sent
        /\ x.silent = w.silent /\ x.lost = w.lost /\ x.lease = w.lease
    BY <1>2 DEF Sender
  <2> HIDE DEF x
  <2>4. Begins(x) /\ Abides(x)
    BY <1>1, <1>2, <2>3 DEF Begins, Abides
  <2>5. Tells(x, Requests, landed)
    <3>1. ~Proven(x.error)
      BY <1>1, <1>2, <2>3 DEF Begins, Proven
    <3> QED
      BY <1>1, <1>2, <2>1, <2>3, <3>1 DEF Tells
  <2>6. HoldsRow(x, row', Requests) /\ (Active(x) => Active(w))
    BY <1>1, <1>2, <2>3 DEF HoldsRow, Active, Held
  <2>7. Sure(x, row', Requests, landed)
    BY <2>2, <2>4, <2>5, <2>6, Kinds DEF Sure
  <2> QED
    BY <1>1, <2>1, <2>6, <2>7, WorkStep DEF Safe
<1>4. CASE o = "silent"
  <2>1. To(q, y) /\ ~traits.identifies
    BY <1>2, <1>4 DEF Outcome, Possible
  <2>2. y \in Sender
    BY <1>2 DEF Sender
  <2>3. /\ y.pc = "sending" /\ y.claim = w.claim /\ y.next = w.next + 1 /\ y.pre = w.pre
        /\ y.post = w.post /\ y.failures = w.failures /\ y.error = w.error /\ y.sent = w.sent
        /\ y.silent /\ y.lost = w.lost /\ y.lease = w.lease
    BY <1>2 DEF Sender
  <2> HIDE DEF y
  <2>4. traits.payloads = 1 /\ w.next = 1 /\ y.next # 1
    BY <1>2, <2>1, <2>3, Reliable
  <2>5. Begins(y) /\ Abides(y)
    BY <1>1, <1>2, <2>1, <2>3, <2>4 DEF Begins, Abides
  <2>6. Tells(y, Requests, landed)
    <3>1. ~Proven(y.error)
      BY <1>1, <1>2, <2>3 DEF Begins, Proven
    <3> QED
      BY <1>1, <1>2, <2>3, <3>1 DEF Tells, Clean
  <2>7. HoldsRow(y, row', Requests) /\ (Active(y) => Active(w))
    BY <1>1, <1>2, <2>3, <2>4 DEF HoldsRow, Active, Held
  <2>8. Sure(y, row', Requests, landed)
    BY <2>2, <2>5, <2>6, <2>7, Kinds DEF Sure
  <2> QED
    BY <1>1, <2>1, <2>7, <2>8, WorkStep DEF Safe
<1>5. CASE o \notin {"identity", "silent"}
  <2>1. o \in {"abort", "unproven", "proven", "rejected"}
    BY <1>5, QueueAssumption
  <2>2. To(q, Failing(w, o))
    BY <2>1 DEF Outcome
  <2>3. ASSUME Proven(o), Clean(w) PROVE ~AskedBy(w.claim, Requests)
    <3>1. <<w.claim, w.next>> \notin Requests
      BY <1>2, <2>3 DEF Proven, Possible, Requests
    <3> QED
      BY <1>1, <1>2, <2>3, <3>1 DEF Tells, AskedBy
  <2> QED
    BY <1>1, <1>2, <2>1, <2>2, <2>3, FailsOnce
<1> QED
  BY <1>3, <1>4, <1>5

\* A result on record keeps the row for its sender.
LEMMA PersistedHeld ==
  ASSUME IInv, NEW q \in Procs, IsSender(q), worker[q].sent, Held(worker[q], row),
         NEW s, s \in Persisted(worker[q]) \/ s \in Kept(worker[q]), Pending(s.row)
  PROVE  Held(worker[q], s.row)
<1> DEFINE c == worker[q].claim
<1>1. row \in Row
  BY DEF IInv, RowInv
<1>2. s.row \in {row, OutcomeUnknown(row, c), FailedAfter(row), Acked}
  <2>1. CASE s \in Persisted(worker[q])
    <3>1. \/ s = [row |-> OutcomeUnknown(row, c), post |-> "marked"]
          \/ s = [row |-> row, post |-> "throws"]
          \/ s = [row |-> FailedAfter(row), post |-> "failed"]
          \/ s = [row |-> Acked, post |-> "acked"]
      BY <2>1 DEF Persisted, PostSend
    <3> QED
      BY <3>1
  <2>2. CASE s \in Kept(worker[q])
    BY <2>2 DEF Kept
  <2> QED
    BY <2>1, <2>2
<1>3. s.row # Acked
  BY DEF Pending, Acked, Gone
<1>4. /\ OutcomeUnknown(row, c).state = "unknown" /\ OutcomeUnknown(row, c).attempt = row.attempt
      /\ FailedAfter(row).state = "unknown" /\ FailedAfter(row).attempt = row.attempt
  BY <1>1 DEF OutcomeUnknown, FailedAfter, Row
<1> QED
  BY <1>2, <1>3, <1>4 DEF Held, Marked

\* The result is on record before the sender goes on.
LEMMA DeliveryResultOnce ==
  ASSUME Accountable, IInv, Once, NEW q \in Procs, Spares(q), DeliveryResult(q)
  PROVE  Once' /\ Honest
<1> DEFINE w == worker[q]
<1>1. IsSender(q) /\ UNCHANGED <<traits, handed, wire, landed>> /\ w.pc = "got"
  BY Places DEF DeliveryResult
<1>2. /\ w \in Sender /\ RowInv(row) /\ w.next <= traits.payloads /\ w.next \in Nat /\ w.next >= 1
      /\ Begins(w) /\ Tells(w, Requests, landed) /\ Abides(w) /\ HoldsRow(w, row, Requests)
      /\ w.sent
  BY <1>1, SenderKnows DEF Tells
<1>3. w.next + 1 \in 1 .. MaxPayloads + 1 /\ w.next + 1 # 1
  BY <1>2, SenderValues
<1>4. CASE w.post = "none" /\ w.role = "live" /\ w.lost
  <2>1. To(q, Failing(w, "lost")) /\ row' = row /\ ~Proven("lost")
    BY <1>4 DEF DeliveryResult, Proven
  <2> QED
    BY <1>1, <1>2, <2>1, FailsOnce
<1>5. CASE ~(w.post = "none" /\ w.role = "live" /\ w.lost)
  <2>1. PICK s : /\ s \in Persisted(w) \/ s \in Kept(w)
                 /\ row' = s.row
                 /\ IF s.post = "throws" THEN To(q, Failing(w, "unproven"))
                    ELSE To(q, [w EXCEPT !.pc = "sending", !.next = @ + 1, !.post = s.post])
    BY <1>5 DEF DeliveryResult
  <2>2. /\ Safe(row, row') /\ s.post \in {"none", "marked", "acked", "failed", "throws"}
        /\ s.post = "throws" => row' = row
    BY <1>1, <2>1, PersistedSafe, PersistedLeaves
  <2>3. CASE s.post = "throws"
    <3>1. To(q, Failing(w, "unproven")) /\ ~Proven("unproven")
      BY <2>1, <2>3 DEF Proven
    <3> QED
      BY <1>1, <1>2, <2>2, <2>3, <3>1, FailsOnce
  <2>4. CASE s.post # "throws"
    <3> DEFINE v == [w EXCEPT !.pc = "sending", !.next = @ + 1, !.post = s.post]
    <3>1. To(q, v)
      BY <2>1, <2>4
    <3>2. v \in Sender
      BY <1>2, <1>3, <2>2, <2>4 DEF Sender
    <3>3. /\ v.pc = "sending" /\ v.claim = w.claim /\ v.next = w.next + 1 /\ v.pre = w.pre
          /\ v.failures = w.failures /\ v.error = w.error /\ v.sent = w.sent
          /\ v.silent = w.silent /\ v.lost = w.lost /\ v.lease = w.lease
      BY <1>2, <1>3 DEF Sender
    <3> HIDE DEF v
    <3>4. Active(w) /\ Pending(row') => Held(w, row')
      <4> SUFFICES ASSUME Active(w), Pending(row') PROVE Held(w, row')
        OBVIOUS
      <4>1. Pending(row)
        BY <2>2 DEF Safe
      <4>2. Held(w, row)
        BY <1>2, <4>1 DEF HoldsRow
      <4> QED
        BY <1>1, <1>2, <2>1, <4>2, PersistedHeld
    <3>5. HoldsRow(w, row', Requests)
      BY <1>1, <1>2, <2>2, <3>4, SenderKnows, SureSafe DEF Sure
    <3>6. Active(v) => Active(w)
      BY <1>1, <3>3 DEF Active
    <3>7. HoldsRow(v, row', Requests)
      BY <3>3, <3>5, <3>6 DEF HoldsRow, Held
    <3>8. Begins(v) /\ Abides(v)
      BY <1>1, <1>2, <1>3, <3>3 DEF Begins, Abides, Tells
    <3>9. Tells(v, Requests, landed)
      <4>1. ~Proven(v.error)
        BY <1>1, <1>2, <3>3 DEF Begins, Proven
      <4> QED
        BY <1>1, <1>2, <3>3, <4>1 DEF Tells, Clean
    <3>10. Sure(v, row', Requests, landed)
      BY <3>2, <3>7, <3>8, <3>9, Kinds DEF Sure
    <3> QED
      BY <1>1, <2>2, <3>1, <3>6, <3>10, WorkStep
  <2> QED
    BY <2>3, <2>4
<1> QED
  BY <1>4, <1>5


\* What marking the row leaves is safe, and tells what became of it.
LEMMA PremarkedSafe ==
  ASSUME IInv, Once, NEW q \in Procs, IsSender(q), NEW m \in Premarked(worker[q])
  PROVE  /\ Safe(row, m.row)
         /\ \/ m.row = row /\ m.pre = worker[q].pre /\ m.ok /\ (traits.exact \/ m.pre # "none")
            \/ m.row = row /\ m.pre = worker[q].pre /\ m.pre = "none" /\ ~m.ok
            \/ /\ worker[q].pre = "none" /\ m.pre = "marked" /\ m.ok /\ Asks = {}
               /\ Owned(row, worker[q].claim) /\ Pending(m.row) /\ Marked(m.row)
               /\ m.row.lease > 0 /\ m.row.attempt = worker[q].claim
            \/ /\ worker[q].pre = "none" /\ m.pre = "acked" /\ m.ok /\ Asks = {}
               /\ Owned(row, worker[q].claim) /\ m.row = Acked /\ ~traits.required
<1> DEFINE w == worker[q]
           c == w.claim
           s == Promoted(row, c)
<1>1. /\ w \in Sender /\ RowInv(row) /\ row \in Row /\ Evident(row, Asks) /\ c # None
      /\ (w.pre = "none" => c \notin Asks)
  BY SenderKnows DEF Tells
<1>2. CASE traits.exact \/ w.pre # "none"
  <2>1. m = [row |-> row, pre |-> w.pre, ok |-> TRUE]
    BY <1>2 DEF Premarked
  <2> QED
    BY <1>2, <2>1 DEF Safe
<1>3. CASE ~(traits.exact \/ w.pre # "none")
  <2>1. \/ Promotable(row, c) /\ m = [row |-> s, pre |-> "marked", ok |-> TRUE]
        \/ /\ Owned(row, c) /\ ~traits.required
           /\ m = [row |-> Acked, pre |-> "acked", ok |-> TRUE]
        \/ m = [row |-> row, pre |-> "none", ok |-> FALSE]
    BY <1>3 DEF Premarked
  <2>2. CASE m = [row |-> row, pre |-> "none", ok |-> FALSE]
    BY <1>3, <2>2 DEF Safe
  <2>3. CASE Promotable(row, c) /\ m = [row |-> s, pre |-> "marked", ok |-> TRUE]
    <3>1. /\ Pending(row) /\ row.state = "claimed" /\ row.claim = c /\ ~Marked(row)
          /\ Owned(row, c)
      BY <1>1, <2>3 DEF Promotable, Marked, Owned
    <3>2. /\ s.status = row.status /\ s.state = "started" /\ s.claim = None /\ s.attempt = c
          /\ s.lease = Lease
      BY <1>1 DEF Promoted, Row
    <3>3. m.row = s /\ m.pre = "marked" /\ m.ok
      BY <2>3
    <3> HIDE DEF s
    <3>4. Asks = {}
      BY <1>1, <3>1, UnmarkedMeansUnasked
    <3>5. Safe(row, s) /\ Pending(s) /\ Marked(s) /\ s.lease > 0
      BY <3>1, <3>2, RowAssumption DEF Safe, Pending, Marked
    <3> QED
      BY <1>3, <3>1, <3>2, <3>3, <3>4, <3>5
  <2>4. CASE /\ Owned(row, c) /\ ~traits.required
             /\ m = [row |-> Acked, pre |-> "acked", ok |-> TRUE]
    <3>1. Asks = {} /\ Pending(row)
      BY <1>1, <1>3, <2>4, NobodyAsked DEF Owned
    <3>2. Safe(row, Acked)
      BY <1>1, <2>4, <3>1, SafeMoves DEF AckHonest
    <3>3. m.row = Acked /\ m.pre = "acked" /\ m.ok
      BY <2>4
    <3> QED
      BY <1>3, <2>4, <3>1, <3>2, <3>3
  <2> QED
    BY <2>1, <2>2, <2>3, <2>4
<1> QED
  BY <1>2, <1>3

\* The row is marked before the first payload is asked for; a sender that comes to a
\* further one still holds it.
LEMMA SendStartOnce ==
  ASSUME Accountable, IInv, IInv', Once, NEW q \in Procs, Spares(q), PlatformSendStart(q)
  PROVE  Once' /\ Honest
<1> DEFINE w == worker[q]
<1>1. /\ IsSender(q) /\ w.pc = "sending" /\ w.next <= traits.payloads
      /\ UNCHANGED <<traits, handed, landed>>
  BY Places DEF PlatformSendStart
<1>2. /\ w \in Sender /\ w.next \in Nat /\ w.next >= 1
      /\ Begins(w) /\ Tells(w, Requests, landed) /\ Abides(w) /\ HoldsRow(w, row, Requests)
  BY <1>1, SenderKnows
<1>3. CASE Stopped(w)
  <2>1. /\ To(q, Failing(w, StopError(w))) /\ row' = row /\ wire' = wire
        /\ StopError(w) \in {"lost", "abort"} /\ ~Proven(StopError(w))
    BY <1>3 DEF PlatformSendStart, StopError, Proven
  <2> QED
    BY <1>1, <2>1, FailsOnce
<1>4. CASE ~Stopped(w)
  <2>1. PICK m \in Premarked(w) :
          /\ row' = m.row
          /\ LET v == [w EXCEPT !.pre = m.pre,
                                !.post = IF m.pre = "acked" /\ w.role = "live" THEN "acked" ELSE @]
             IN IF ~m.ok THEN To(q, Failing(v, "unproven")) /\ UNCHANGED wire
                ELSE IF traits.dispatches
                     THEN To(q, [v EXCEPT !.pc = "started"]) /\ UNCHANGED wire
                     ELSE Go(q, v)
    BY <1>4 DEF PlatformSendStart
  <2> DEFINE post == IF m.pre = "acked" /\ w.role = "live" THEN "acked" ELSE w.post
             v == [w EXCEPT !.pre = m.pre, !.post = post]
             x == [v EXCEPT !.pc = "started"]
             y == [v EXCEPT !.pc = "io"]
  <2>2. /\ Safe(row, m.row)
        /\ \/ m.row = row /\ m.pre = w.pre /\ m.ok /\ (traits.exact \/ m.pre # "none")
           \/ m.row = row /\ m.pre = w.pre /\ m.pre = "none" /\ ~m.ok
           \/ /\ w.pre = "none" /\ m.pre = "marked" /\ m.ok /\ Asks = {}
              /\ Owned(row, w.claim) /\ Pending(m.row) /\ Marked(m.row)
              /\ m.row.lease > 0 /\ m.row.attempt = w.claim
           \/ /\ w.pre = "none" /\ m.pre = "acked" /\ m.ok /\ Asks = {}
              /\ Owned(row, w.claim) /\ m.row = Acked /\ ~traits.required
    BY <1>1, PremarkedSafe
  <2>3. m.pre \in {"none", "marked", "acked"} /\ ~Pending(Acked)
    BY <1>2, <2>2 DEF Acked, Gone, Pending, Sender
  <2>4. /\ post \in {"none", "marked", "acked", "failed"}
        /\ post = w.post \/ m.pre = "acked"
    BY <1>2 DEF Sender
  <2>5. /\ v \in Sender /\ v.claim = w.claim /\ v.next = w.next
        /\ x \in Sender /\ y \in Sender
    <3> HIDE DEF post, w
    <3>1. v \in Sender /\ v.claim = w.claim /\ v.next = w.next
      BY <1>2, <2>3, <2>4 DEF Sender
    <3> HIDE DEF v
    <3> QED
      BY <3>1 DEF Sender
  <2>6. /\ x.pc = "started" /\ x.claim = w.claim /\ x.next = w.next /\ x.pre = m.pre
        /\ x.post = post /\ x.failures = w.failures /\ x.error = w.error /\ x.sent = w.sent
        /\ x.silent = w.silent /\ x.lost = w.lost /\ x.lease = w.lease
    <3> HIDE DEF post, w
    <3> QED
      BY <1>2 DEF Sender
  <2>7. /\ y.pc = "io" /\ y.claim = w.claim /\ y.next = w.next /\ y.pre = m.pre
        /\ y.post = post /\ y.failures = w.failures /\ y.error = w.error /\ y.sent = w.sent
        /\ y.silent = w.silent /\ y.lost = w.lost /\ y.lease = w.lease
    <3> HIDE DEF post, w
    <3> QED
      BY <1>2 DEF Sender
  <2>8. CASE ~m.ok
    <3>1. m.row = row /\ m.pre = w.pre /\ m.pre # "acked"
      BY <2>2, <2>8
    <3>2. post = w.post
      BY <2>4, <3>1
    <3> HIDE DEF post
    <3>4. v = w
      BY <1>2, <3>1, <3>2 DEF Sender
    <3>5. To(q, Failing(w, "unproven")) /\ wire' = wire /\ row' = row
      BY <2>1, <2>8, <3>1, <3>4
    <3>6. ~Proven("unproven")
      BY DEF Proven
    <3> QED
      BY <1>1, <3>5, <3>6, FailsOnce
  <2>9. CASE m.ok /\ traits.dispatches
    <3>1. To(q, x) /\ wire' = wire /\ row' = m.row
      BY <2>1, <2>9
    <3> HIDE DEF x, y, v, post
    <3>2. Begins(x)
      BY <1>1, <1>2, <2>2, <2>4, <2>6 DEF Begins
    <3>3. Tells(x, Requests, landed)
      <4>1. ~Proven(x.error)
        BY <1>1, <1>2, <2>6 DEF Begins, Proven
      <4>2. (Clean(x) <=> Clean(w)) /\ (m.pre = "none" => w.pre = "none")
        BY <2>2, <2>6 DEF Clean
      <4> QED
        BY <1>1, <1>2, <2>6, <4>1, <4>2 DEF Tells
    <3>4. Abides(x)
      BY <1>1, <1>2, <2>6 DEF Abides
    <3>5. HoldsRow(x, row', Requests) /\ (Active(x) => Active(w) \/ Owned(row, w.claim))
      <4>1. CASE m.row = row /\ m.pre = w.pre
        <5>1. Active(x) => Active(w)
          BY <1>1, <2>6, <4>1 DEF Active
        <5> QED
          BY <1>2, <2>6, <3>1, <4>1, <5>1 DEF HoldsRow, Held
      <4>2. CASE /\ m.pre = "marked" /\ Asks = {} /\ Owned(row, w.claim)
                 /\ Marked(m.row) /\ m.row.lease > 0 /\ m.row.attempt = w.claim
        BY <2>6, <3>1, <4>2 DEF HoldsRow, Held, Asks
      <4>3. CASE /\ m.pre = "acked" /\ Asks = {} /\ Owned(row, w.claim)
                 /\ m.row = Acked /\ ~traits.required
        BY <2>3, <2>6, <3>1, <4>3 DEF HoldsRow, Asks
      <4> QED
        BY <2>2, <2>9, <4>1, <4>2, <4>3
    <3>6. Sure(x, row', Requests, landed)
      BY <2>5, <3>2, <3>3, <3>4, <3>5, Kinds DEF Sure
    <3> QED
      BY <1>1, <2>2, <3>1, <3>5, <3>6, WorkStep
  <2>10. CASE m.ok /\ ~traits.dispatches
    <3>1. Go(q, v) /\ row' = m.row
      BY <2>1, <2>10
    <3>2. To(q, y) /\ wire' = wire \union {<<w.claim, w.next>>}
      BY <2>5, <3>1 DEF Go
    <3>3. ~traits.exact
      BY <2>10, QueueAssumption DEF IInv
    <3> HIDE DEF y, v, x, post
    <3>4. y.pre # "none"
      BY <2>2, <2>7, <2>10, <3>3
    <3>5. /\ Active(w) \/ Owned(row, w.claim)
          /\ \A d \in Asks : d = w.claim
          /\ y.pre = "acked" => ~traits.required /\ ~Pending(row')
          /\ Pending(row') => Held(y, row')
          /\ w.pre = "acked" => y.pre = "acked"
      <4>1. CASE m.row = row /\ m.pre = w.pre
        <5>1. w.next # 1
          BY <1>1, <1>2, <2>7, <3>4, <4>1 DEF Begins
        <5>2. ~w.lost /\ traits.payloads # 1
          BY <1>1, <1>2, <1>4, <5>1 DEF Stopped
        <5>3. Active(w)
          BY <1>1, <2>3, <2>7, <3>4, <4>1, <5>2 DEF Active
        <5> QED
          BY <1>2, <2>7, <3>1, <4>1, <5>3 DEF HoldsRow, Held, Asks
      <4>2. CASE /\ w.pre = "none" /\ m.pre = "marked" /\ Asks = {} /\ Owned(row, w.claim)
                 /\ Marked(m.row) /\ m.row.lease > 0 /\ m.row.attempt = w.claim
        BY <2>7, <3>1, <4>2 DEF Held
      <4>3. CASE /\ w.pre = "none" /\ m.pre = "acked" /\ Asks = {} /\ Owned(row, w.claim)
                 /\ m.row = Acked /\ ~traits.required
        BY <2>3, <2>7, <3>1, <4>3
      <4> QED
        BY <2>2, <2>10, <4>1, <4>2, <4>3
    <3>6. Safe(row, row')
      BY <2>2, <3>1
    <3>7. y.post = w.post \/ y.pre = "acked"
      BY <2>4, <2>7
    <3> QED
      BY <1>1, <2>5, <2>7, <3>2, <3>4, <3>5, <3>6, <3>7, GoStep
  <2> QED
    BY <2>8, <2>9, <2>10
<1> QED
  BY <1>3, <1>4


\* The process proves that the row is its own once more, right before the request.
LEMMA SendDispatchOnce ==
  ASSUME Accountable, IInv, IInv', Once, NEW q \in Procs, Spares(q), PlatformSendDispatch(q)
  PROVE  Once' /\ Honest
<1> DEFINE w == worker[q]
           pre == IF w.pre = "none" THEN "marked" ELSE w.pre
           x == [w EXCEPT !.pc = "io"]
           y == [[w EXCEPT !.pre = pre] EXCEPT !.pc = "io"]
           s == Dispatched(row, w.claim)
<1>1. /\ IsSender(q) /\ w.pc = "started" /\ UNCHANGED <<traits, handed, landed>>
  BY Places DEF PlatformSendDispatch
<1>2. /\ w \in Sender /\ RowInv(row) /\ row \in Row /\ Evident(row, Asks)
      /\ w.claim \in Claims /\ w.claim # None /\ w.next <= traits.payloads
      /\ Begins(w) /\ HoldsRow(w, row, Requests)
  BY <1>1, SenderKnows
<1>3. x \in Sender /\ y \in Sender
  BY <1>2 DEF Sender
<1>4. /\ x.pc = "io" /\ x.claim = w.claim /\ x.next = w.next /\ x.pre = w.pre
      /\ x.post = w.post /\ x.failures = w.failures /\ x.error = w.error /\ x.sent = w.sent
      /\ x.silent = w.silent /\ x.lost = w.lost /\ x.lease = w.lease
  BY <1>2 DEF Sender
<1>5. /\ y.pc = "io" /\ y.claim = w.claim /\ y.next = w.next /\ y.pre = pre
      /\ y.post = w.post /\ y.failures = w.failures /\ y.error = w.error /\ y.sent = w.sent
      /\ y.silent = w.silent /\ y.lost = w.lost /\ y.lease = w.lease
  BY <1>2 DEF Sender
<1>6. \/ /\ \E e \in {"lost", "abort", "unproven"} : To(q, Failing(w, e))
         /\ UNCHANGED <<row, wire>>
      \/ ~w.lost /\ ~Proves(w) /\ Go(q, w) /\ UNCHANGED row
      \/ /\ Proves(w) /\ Dispatchable(row, w.claim) /\ row' = s
         /\ Go(q, [w EXCEPT !.pre = pre])
  BY DEF PlatformSendDispatch, StopError, Stopped
<1>7. CASE /\ \E e \in {"lost", "abort", "unproven"} : To(q, Failing(w, e))
           /\ UNCHANGED <<row, wire>>
  <2>1. \A e \in {"lost", "abort", "unproven"} : ~Proven(e)
    BY DEF Proven
  <2> QED
    BY <1>1, <1>2, <1>7, <2>1, FailsOnce
<1>8. CASE ~w.lost /\ ~Proves(w) /\ Go(q, w) /\ UNCHANGED row
  <2>1. To(q, x) /\ wire' = wire \union {<<w.claim, w.next>>} /\ row' = row
    BY <1>2, <1>8 DEF Go
  <2>2. w.pre # "none" /\ Active(w)
    BY <1>1, <1>2, <1>8 DEF Proves, Begins, Active, Sender
  <2>3. /\ \A d \in Asks : d = w.claim
        /\ w.pre = "acked" => ~traits.required /\ ~Pending(row)
        /\ Pending(row) => Held(w, row)
    BY <1>2, <2>2 DEF HoldsRow, Asks
  <2> HIDE DEF x, y, s, pre
  <2>4. Pending(row') => Held(x, row')
    BY <1>4, <2>1, <2>3 DEF Held
  <2>5. Safe(row, row')
    BY <2>1 DEF Safe
  <2> QED
    BY <1>1, <1>2, <1>3, <1>4, <2>1, <2>2, <2>3, <2>4, <2>5, GoStep
<1>9. CASE /\ Proves(w) /\ Dispatchable(row, w.claim) /\ row' = s
           /\ Go(q, [w EXCEPT !.pre = pre])
  <2>1. To(q, y) /\ wire' = wire \union {<<w.claim, w.next>>}
    <3>1. [w EXCEPT !.pre = pre].claim = w.claim /\ [w EXCEPT !.pre = pre].next = w.next
      BY <1>2 DEF Sender
    <3> QED
      BY <1>2, <1>9, <3>1 DEF Go
  <2>2. pre \notin {"none", "acked"} /\ w.pre # "acked"
    BY <1>9 DEF Proves
  <2>3. /\ Owned(row, w.claim) /\ Pending(row) /\ row.lease > 0
        /\ Marked(row) => row.attempt = w.claim
    BY <1>2, <1>9 DEF Dispatchable, Owned, Marked
  <2>4. \A d \in Asks : d = w.claim
    BY <1>2, <2>3 DEF Evident
  <2>5. /\ s.status = row.status /\ s.state \in {"started", "unknown"} /\ s.attempt = w.claim
        /\ s.claim = None /\ s.lease \in {row.lease, Lease}
    BY <1>2, <1>9 DEF Dispatched, Row
  <2> HIDE DEF x, y, s, pre
  <2>6. /\ Pending(row') /\ Marked(row') /\ row'.attempt = w.claim /\ row'.lease > 0
        /\ row'.claim = None
    BY <1>9, <2>3, <2>5, RowAssumption DEF Pending, Marked
  <2>7. Safe(row, row')
    <3>1. row.attempt = w.claim \/ row.claim = w.claim
      BY <2>3 DEF Owned
    <3>2. Pending(row') => (Marked(row) => Marked(row') /\ row'.attempt = row.attempt)
      BY <2>3, <2>6
    <3> QED
      BY <2>3, <2>6, <3>1, <3>2 DEF Safe, Pending
  <2>8. Held(y, row')
    BY <1>5, <2>6 DEF Held
  <2> QED
    BY <1>1, <1>2, <1>3, <1>5, <2>1, <2>2, <2>3, <2>4, <2>6, <2>7, <2>8, GoStep
<1> QED
  BY <1>6, <1>7, <1>8, <1>9

-----------------------------------------------------------------------------
(* A sender settles the row.                                               *)

\* Best effort takes the failures for proven only if every request is gone.
LEMMA PartialSafe ==
  ASSUME IInv, Once, NEW q \in Procs, IsSender(q), Returned(q),
         NEW r, RowInv(r), Evident(r, Asks), Owned(r, worker[q].claim)
  PROVE  Safe(r, PartialFailure(worker[q], r))
<1>1. /\ Tells(worker[q], Requests, landed) /\ Abides(worker[q]) /\ worker[q].claim # None
      /\ worker[q].claim \in Asks <=> AskedBy(worker[q].claim, Requests)
      /\ Pending(r)
  BY SenderKnows DEF Owned
<1>2. CASE ~worker[q].sent /\ worker[q].failures = "proven"
  <2>1. worker[q].claim \notin Asks
    BY <1>1, <1>2 DEF Tells, Abides, Clean, Returned
  <2>2. Asks = {}
    BY <1>1, <2>1, NobodyAsked
  <2> QED
    BY <1>1, <1>2, <2>2, SafeMoves DEF PartialFailure
<1>3. CASE ~(~worker[q].sent /\ worker[q].failures = "proven")
  BY <1>1, <1>3, SafeMoves DEF PartialFailure
<1> QED
  BY <1>2, <1>3

\* What a live producer settles is safe: it acknowledges what it knows to be sent.
LEMMA SettledSafe ==
  ASSUME IInv, Once, NEW q \in Procs, IsSender(q), Returned(q),
         NEW s, RowInv(s.row), Evident(s.row, Asks),
         s.post = "none" => ~worker[q].sent /\
           (worker[q].failures = "none" => worker[q].pre # "marked"),
         NEW t \in SettledRows(worker[q], s)
  PROVE  Safe(s.row, t)
<1> DEFINE w == worker[q]
           c == w.claim
<1>1. /\ Tells(w, Requests, landed) /\ HoldsRow(w, row, Requests)
      /\ w.pc = "sending" /\ w.next # 1
  <2>1. 1 <= traits.payloads /\ traits.payloads \in Nat
    BY Payloads
  <2> QED
    BY <2>1, SenderKnows DEF Returned
<1>0. w.sent => AckHonest
  BY <1>1 DEF Tells, AskedBy, AckHonest
<1>2. CASE w.failures # "none"
  <2>1. \/ t \in Tried(s.row, c, <<PartialFailure(w, s.row)>>)
        \/ t = s.row
    BY <1>2 DEF SettledRows
  <2> QED
    BY <2>1, PartialSafe, SafeOne DEF Safe
<1>3. CASE w.failures = "none"
  <2>1. \/ t \in Tried(s.row, c, <<FailedAfter(s.row)>>)
        \/ s.post = "none" /\ t \in Tried(s.row, c, <<Acked, Failed(s.row)>>)
        \/ w.sent /\ t \in Tried(s.row, c, <<Acked, FailedAfter(s.row)>>)
        \/ t = s.row
    BY <1>3 DEF SettledRows
  <2>2. CASE t \in Tried(s.row, c, <<FailedAfter(s.row)>>)
    BY <2>2, SafeMoves, SafeOne DEF Owned
  <2>3. CASE s.post = "none" /\ t \in Tried(s.row, c, <<Acked, Failed(s.row)>>)
    <3>1. w.pre # "none" /\ w.pre # "marked"
      BY <1>1, <1>3, <2>3 DEF Tells
    <3>2. w \in Sender
      BY DEF IsSender
    <3>3. w.pre = "acked"
      BY <3>1, <3>2 DEF Sender
    <3>4. AckHonest
      BY <1>1, <3>3 DEF HoldsRow, Active, AckHonest
    <3> QED
      BY <2>3, <3>4, SafeMoves, SafeTwo DEF Owned
  <2>4. CASE w.sent /\ t \in Tried(s.row, c, <<Acked, FailedAfter(s.row)>>)
    <3>1. AckHonest
      BY <1>0, <2>4
    <3> QED
      BY <2>4, <3>1, SafeMoves, SafeTwo DEF Owned
  <2> QED
    BY <2>1, <2>2, <2>3, <2>4 DEF Safe
<1> QED
  BY <1>2, <1>3

\* A live delivery returned.
LEMMA LiveReturnsOnce ==
  ASSUME IInv, Once, NEW q \in Procs, Spares(q), LiveReturns(q)
  PROVE  Once' /\ Honest
<1> DEFINE w == worker[q]
           evidence == w.sent \/ (w.failures = "none" /\ w.pre = "marked")
<1>1. /\ IsSender(q) /\ End(q) /\ UNCHANGED <<traits, handed, wire, landed>> /\ RowInv(row)
      /\ Returned(q) /\ Evident(row, Asks)
  BY Places DEF LiveReturns, Returned, IInv, Once
<1>2. \/ row' = row
      \/ row' \in Tried(row, w.claim, <<FailedAfter(row)>>)
      \/ \E s : /\ \/ s \in Persisted(w)
                   \/ s \in Kept(w) /\ ~(w.post = "none" /\ evidence)
                /\ row' \in SettledRows(w, s)
  BY DEF LiveReturns
<1>3. CASE row' = row
  BY <1>1, <1>3, EndOnce DEF Safe
<1>4. CASE row' \in Tried(row, w.claim, <<FailedAfter(row)>>)
  <2>1. Safe(row, row')
    BY <1>1, <1>4, SafeMoves, SafeOne DEF Owned
  <2> QED
    BY <1>1, <2>1, EndOnce
<1>5. ASSUME NEW s, s \in Persisted(w) \/ (s \in Kept(w) /\ ~(w.post = "none" /\ evidence)),
             row' \in SettledRows(w, s)
      PROVE  Once' /\ Honest
  <2>1. /\ Safe(row, s.row) /\ RowInv(s.row)
        /\ s \in Persisted(w) => s.post # "none"
        /\ s \in Kept(w) => s.post = w.post
    BY <1>1, <1>5, PersistedSafe, PersistedLeaves
  <2>2. Evident(s.row, Asks)
    BY <1>1, <2>1, SafeEvident
  <2>3. s.post = "none" => ~w.sent /\ (w.failures = "none" => w.pre # "marked")
    BY <1>5, <2>1
  <2>4. Safe(s.row, row')
    BY <1>1, <1>5, <2>1, <2>2, <2>3, SettledSafe
  <2>5. Safe(row, row')
    BY <2>1, <2>4, SafeTwice
  <2> QED
    BY <1>1, <2>5, EndOnce
<1> QED
  BY <1>2, <1>3, <1>4, <1>5

\* A live delivery threw: it drops the row only if it never asked, or was refused.
LEMMA LiveThrowsOnce ==
  ASSUME IInv, Once, NEW q \in Procs, Spares(q), LiveThrows(q)
  PROVE  Once' /\ Honest
<1> DEFINE w == worker[q]
           c == w.claim
<1>1. /\ IsSender(q) /\ End(q) /\ UNCHANGED <<traits, handed, wire, landed>> /\ RowInv(row)
      /\ Evident(row, Asks)
  BY Places DEF LiveThrows, IInv, Once
<1>2. /\ Tells(w, Requests, landed) /\ c # None /\ w \in Sender
      /\ c \in Asks <=> AskedBy(c, Requests)
  BY <1>1, SenderKnows
<1>3. \/ row' = row
      \/ row' \in Tried(row, c, <<FailedAfter(row)>>)
      \/ ~SendEvidence(w) /\ w.pre # "acked" /\ row' \in Tried(row, c, <<Dropped>>)
      \/ /\ ~w.sent /\ w.error = "rejected"
         /\ row' \in Tried(row, c, <<Dropped, FailedBefore(row)>>)
      \/ ~w.sent /\ w.error = "proven" /\ row' \in Tried(row, c, <<FailedBefore(row)>>)
      \/ row' \in Tried(row, c, <<Failed(row)>>)
      \/ \E s : /\ s \in Persisted(w) \/ s \in Kept(w)
                /\ row' \in Tried(s.row, c, <<FailedAfter(s.row)>>) \/ row' = s.row
  BY DEF LiveThrows
<1>4. ASSUME Owned(row, c), \/ ~SendEvidence(w) /\ w.pre # "acked"
                            \/ ~w.sent /\ w.error \in {"rejected", "proven"}
      PROVE  Asks = {}
  <2>1. c \notin Asks
    BY <1>2, <1>4 DEF Tells, SendEvidence, Proven, Sender
  <2> QED
    BY <1>1, <1>2, <1>4, <2>1, NobodyAsked
<1>5. Safe(row, row')
  <2>1. CASE row' = row
    BY <2>1 DEF Safe
  <2>2. CASE row' \in Tried(row, c, <<FailedAfter(row)>>)
    BY <1>1, <2>2, SafeMoves, SafeOne DEF Owned
  <2>3. CASE ~SendEvidence(w) /\ w.pre # "acked" /\ row' \in Tried(row, c, <<Dropped>>)
    BY <1>1, <1>4, <2>3, SafeMoves, SafeOne DEF Owned
  <2>4. CASE /\ ~w.sent /\ w.error = "rejected"
             /\ row' \in Tried(row, c, <<Dropped, FailedBefore(row)>>)
    BY <1>1, <1>4, <2>4, SafeMoves, SafeTwo DEF Owned
  <2>5. CASE ~w.sent /\ w.error = "proven" /\ row' \in Tried(row, c, <<FailedBefore(row)>>)
    BY <1>1, <1>4, <2>5, SafeMoves, SafeOne DEF Owned
  <2>6. CASE row' \in Tried(row, c, <<Failed(row)>>)
    BY <1>1, <2>6, SafeMoves, SafeOne DEF Owned
  <2>7. ASSUME NEW s, s \in Persisted(w) \/ s \in Kept(w),
               row' \in Tried(s.row, c, <<FailedAfter(s.row)>>) \/ row' = s.row
        PROVE  Safe(row, row')
    <3>1. Safe(row, s.row) /\ RowInv(s.row)
      BY <1>1, <2>7, PersistedSafe, PersistedLeaves
    <3>2. Safe(s.row, row')
      BY <2>7, <3>1, SafeMoves, SafeOne DEF Owned, Safe
    <3> QED
      BY <3>1, <3>2, SafeTwice
  <2> QED
    BY <1>3, <2>1, <2>2, <2>3, <2>4, <2>5, <2>6, <2>7
<1> QED
  BY <1>1, <1>5, EndOnce

\* A recovered delivery returned: it acknowledges what returned an identity.
LEMMA RecoveryReturnsOnce ==
  ASSUME IInv, Once, NEW q \in Procs, Spares(q), RecoveryReturns(q)
  PROVE  Once' /\ Honest
<1> DEFINE w == worker[q]
           v == [w EXCEPT !.pc = "caught", !.error = IF w.lost THEN "lost" ELSE "unproven"]
<1>1. /\ IsSender(q) /\ UNCHANGED <<traits, handed, wire, landed>> /\ RowInv(row)
      /\ Evident(row, Asks) /\ w.pc = "sending" /\ Returned(q)
  BY Places DEF RecoveryReturns, Returned, IInv, Once
<1>2. /\ Begins(w) /\ Tells(w, Requests, landed) /\ Abides(w) /\ HoldsRow(w, row, Requests)
      /\ w \in Sender
  BY <1>1, SenderKnows
<1>3. \/ row' = row /\ To(q, v)
      \/ /\ Owned(row, w.claim) /\ row' \in {FailedAfter(row), PartialFailure(w, row)} /\ End(q)
      \/ \E s : /\ s \in Persisted(w) \/ s \in Kept(w)
                /\ \/ s.post = "throws" /\ row' = s.row /\ To(q, v)
                   \/ /\ w.sent
                      /\ \/ row' = s.row
                         \/ row' \in Tried(s.row, w.claim, <<Acked, FailedAfter(s.row)>>)
                      /\ End(q)
  <2>1. CASE w.lost
    BY <2>1 DEF RecoveryReturns
  <2>2. CASE ~w.lost /\ (w.silent \/ (~w.sent /\ (w.pre # "none" \/ traits.exact)))
    BY <2>2 DEF RecoveryReturns
  <2>3. CASE ~w.lost /\ ~w.silent /\ ~w.sent /\ ~(w.pre # "none" \/ traits.exact)
    BY <2>3 DEF RecoveryReturns
  <2>4. CASE ~w.lost /\ ~w.silent /\ w.sent
    BY <2>4 DEF RecoveryReturns
  <2> QED
    BY <2>1, <2>2, <2>3, <2>4
<1>4. Sure(v, row, Requests, landed) /\ (Active(v) => Active(w))
  <2> PICK e \in {"lost", "unproven"} : e = IF w.lost THEN "lost" ELSE "unproven"
    OBVIOUS
  <2>1. /\ v \in Sender /\ v.pc = "caught" /\ v.error = e
        /\ v.claim = w.claim /\ v.next = w.next /\ v.lease = w.lease /\ v.pre = w.pre
        /\ v.post = w.post /\ v.failures = w.failures /\ v.sent = w.sent
        /\ v.silent = w.silent
    <3>1. v = GivenUp(w, e)
      BY DEF GivenUp
    <3> HIDE DEF v, w
    <3> QED
      BY <1>2, <3>1, GivesUp
  <2>2. v.error \in {"lost", "unproven"}
    BY <2>1
  <2> HIDE DEF v
  <2>3. Active(v) => v.pre = "acked" /\ Active(w)
    BY <2>1, <2>2 DEF Active
  <2>4. Begins(v) /\ Abides(v) /\ HoldsRow(v, row, Requests)
    BY <1>2, <2>1, <2>3 DEF Begins, Abides, HoldsRow
  <2>5. Tells(v, Requests, landed)
    BY <1>2, <2>1, <2>2 DEF Tells, Proven
  <2> QED
    BY <2>1, <2>3, <2>4, <2>5, Kinds DEF Sure
<1>5. ASSUME row' = row, To(q, v) PROVE Once' /\ Honest
  <2> HIDE DEF v
  <2>1. Sure(v, row', Requests, landed) /\ Safe(row, row')
    BY <1>4, <1>5 DEF Safe
  <2>2. v \in Sender /\ Active(v) => IsSender(q) /\ Active(worker[q])
    BY <1>1, <1>4
  <2>3. To(q, v) /\ UNCHANGED <<traits, handed, wire, landed>>
    BY <1>1, <1>5
  <2> HIDE DEF w
  <2> QED
    BY <2>1, <2>2, <2>3, WorkStep
<1>6. CASE /\ Owned(row, w.claim) /\ row' \in {FailedAfter(row), PartialFailure(w, row)} /\ End(q)
  <2>1. Safe(row, row')
    BY <1>1, <1>6, SafeMoves, PartialSafe DEF Owned
  <2> QED
    BY <1>1, <1>6, <2>1, EndOnce
<1>7. ASSUME NEW s, s \in Persisted(w) \/ s \in Kept(w),
             \/ s.post = "throws" /\ row' = s.row /\ To(q, v)
             \/ /\ w.sent
                /\ \/ row' = s.row
                   \/ row' \in Tried(s.row, w.claim, <<Acked, FailedAfter(s.row)>>)
                /\ End(q)
      PROVE  Once' /\ Honest
  <2>1. /\ Safe(row, s.row) /\ RowInv(s.row) /\ (s.post = "throws" => s.row = row)
    BY <1>1, <1>7, PersistedSafe, PersistedLeaves
  <2>2. CASE s.post = "throws" /\ row' = s.row /\ To(q, v)
    <3>1. row' = row
      BY <2>1, <2>2
    <3> QED
      BY <1>5, <2>2, <3>1
  <2>3. CASE /\ w.sent
             /\ \/ row' = s.row
                \/ row' \in Tried(s.row, w.claim, <<Acked, FailedAfter(s.row)>>)
             /\ End(q)
    <3>1. AckHonest
      BY <1>2, <2>3 DEF Tells, AskedBy, AckHonest
    <3>2. Safe(s.row, row')
      BY <2>1, <2>3, <3>1, SafeMoves, SafeTwo DEF Owned, Safe
    <3>3. Safe(row, row')
      BY <2>1, <3>2, SafeTwice
    <3> QED
      BY <1>1, <2>3, <3>3, EndOnce
  <2> QED
    BY <1>7, <2>2, <2>3
<1> QED
  BY <1>3, <1>5, <1>6, <1>7

\* A recovered delivery threw.
LEMMA RecoveryThrowsOnce ==
  ASSUME IInv, Once, NEW q \in Procs, Spares(q), RecoveryThrows(q)
  PROVE  Once' /\ Honest
<1> DEFINE w == worker[q]
           c == w.claim
<1>1. /\ IsSender(q) /\ End(q) /\ UNCHANGED <<traits, handed, wire, landed>> /\ RowInv(row)
      /\ Evident(row, Asks)
  BY Places DEF RecoveryThrows, IInv, Once
<1>2. /\ Tells(w, Requests, landed) /\ c # None
      /\ c \in Asks <=> AskedBy(c, Requests)
  BY <1>1, SenderKnows
<1>3. \/ \E s : (s \in Persisted(w) \/ s \in Kept(w)) /\ row' = s.row
      \/ row' \in Tried(row, c, <<Dead>>)
      \/ ~w.sent /\ w.error = "proven" /\ row' \in Tried(row, c, <<FailedBefore(row)>>)
      \/ row' \in Tried(row, c, <<Failed(row)>>)
  BY DEF RecoveryThrows
<1>4. Safe(row, row')
  <2>1. CASE \E s : (s \in Persisted(w) \/ s \in Kept(w)) /\ row' = s.row
    BY <1>1, <2>1, PersistedSafe
  <2>2. CASE row' \in Tried(row, c, <<Dead>>)
    BY <1>1, <2>2, SafeMoves, SafeOne DEF Owned
  <2>3. CASE ~w.sent /\ w.error = "proven" /\ row' \in Tried(row, c, <<FailedBefore(row)>>)
    <3>1. c \notin Asks
      BY <1>2, <2>3 DEF Tells, Proven
    <3>2. Owned(row, c) => Asks = {}
      BY <1>1, <1>2, <3>1, NobodyAsked
    <3> QED
      BY <1>1, <2>3, <3>2, SafeMoves, SafeOne DEF Owned
  <2>4. CASE row' \in Tried(row, c, <<Failed(row)>>)
    BY <1>1, <2>4, SafeMoves, SafeOne DEF Owned
  <2> QED
    BY <1>3, <2>1, <2>2, <2>3, <2>4
<1> QED
  BY <1>1, <1>4, EndOnce

\* A crash changes neither the row nor what was asked.
LEMMA CrashOnce ==
  ASSUME IInv, Once, NEW q \in Procs, Spares(q), Crash(q)
  PROVE  Once' /\ Honest
BY EndOnce DEF Crash, Safe

-----------------------------------------------------------------------------
(* The theorems.                                                           *)

\* Nothing was asked before the message is enqueued.
LEMMA InitiallyOnce == Init => Once
<1> SUFFICES ASSUME Init PROVE Once
  OBVIOUS
<1>1. /\ row.status = "absent" /\ ~Pending(row) /\ handed = 0 /\ Requests = {}
  BY DEF Init, Requests, Gone, Pending
<1>2. Asks = {}
  BY <1>1 DEF Asks, AskedBy
<1>3. \A p \in Procs : worker[p] = Idle
  BY DEF Init
<1>4. OneActive /\ \A p \in Procs : Sure(worker[p], row, Requests, landed)
  BY <1>3, NewSure, Kinds DEF OneActive, IsSender
<1> QED
  BY <1>1, <1>2, <1>4 DEF Once, Evident

\* A step of a process keeps the invariant, and drops nothing that was asked for.
LEMMA ProcessOnce ==
  ASSUME Accountable, IInv, Once, NEW q \in Procs, Steps(q)
  PROVE  Once' /\ Honest
<1>1. IInv' /\ Spares(q)
  BY ProcessStep, ExcusedSpares
<1>2. CASE \E turnedAway \in BOOLEAN : Enqueue(q, turnedAway)
  BY <1>1, <1>2, EnqueueOnce
<1>3. CASE Reuse(q) \/ Recovers(q) \/ AdmissionRejects(q)
  BY <1>1, <1>3, ReuseOnce, ScanOnce, MoveExhaustedOnce, ReconcileOnce, ActOnAnswerOnce,
     ClaimOnce, ReserveOnce, AdmissionOnce DEF Recovers
<1>4. CASE Sends(q)
  BY <1>1, <1>4, StartLeaseOnce, SendStartOnce, SendDispatchOnce, OutcomeOnce,
     DeliveryResultOnce DEF Sends
<1>5. CASE Settles(q)
  BY <1>1, <1>5, LiveReturnsOnce, LiveThrowsOnce, RecoveryReturnsOnce, RecoveryThrowsOnce
     DEF Settles
<1>6. CASE Renew(q) \/ LeaseExpires(q) \/ Cancel(q) \/ Crash(q)
  BY <1>1, <1>6, RenewOnce, StopOnce, CrashOnce
<1> QED
  BY <1>2, <1>3, <1>4, <1>5, <1>6 DEF Steps

\* So does every step.
LEMMA InductiveOnce ==
  ASSUME Accountable, IInv, Once, Next
  PROVE  Once' /\ Honest
<1>1. CASE Pass
  BY <1>1, PassOnce
<1>2. ASSUME NEW c \in Claims, NEW i \in 1 .. MaxPayloads, Land(c, i) \/ Vanish(c, i)
      PROVE  Once' /\ Honest
  BY <1>2, WireOnce
<1>3. ASSUME NEW q \in Procs, Steps(q)
      PROVE  Once' /\ Honest
  BY <1>3, ProcessOnce
<1> QED
  BY <1>1, <1>2, <1>3 DEF Next, Steps

\* The invariant reads nothing but the variables.
LEMMA StutteringOnce == Once /\ UNCHANGED vars => Once'
<1> SUFFICES ASSUME Once, UNCHANGED vars PROVE Once'
  OBVIOUS
<1>1. UNCHANGED <<row, traits, worker, handed, wire, landed>>
  BY DEF vars
<1>2. Requests' = Requests /\ AckHonest' = AckHonest
  BY <1>1 DEF Requests, AckHonest
<1>3. Asks' = Asks
  BY <1>2 DEF Asks, AskedBy
<1>4. \A p \in Procs : Sure(worker[p], row, Requests, landed)'
  <2>1. \A p \in Procs : Sure(worker'[p], row', Requests', landed')
    BY <1>1, <1>2 DEF Once
  <2> QED
    BY <1>1, <2>1, SurePrimed
<1>5. OneActive'
  BY <1>1 DEF Once, OneActive, IsSender, Active
<1> QED
  BY <1>1, <1>2, <1>3, <1>4, <1>5 DEF Once, Evident

\* The inductive invariant holds in every behaviour.
LEMMA InvarianceOnce ==
  ASSUME Accountable
  PROVE  Spec => []Once
<1>1. IInv /\ Once /\ [Next]_vars => Once'
  BY InductiveOnce, StutteringOnce
<1> QED
  BY InitiallyOnce, <1>1, Invariance, PTL DEF Spec

\* No request at all is left out of Asks.
LEMMA NothingAsked == IInv /\ Once /\ Asks = {} => wire = {} /\ landed = {}
<1> SUFFICES ASSUME IInv, Once, Asks = {}, NEW f \in Requests PROVE FALSE
  BY DEF Requests
<1>1. PICK c \in Claims, i \in 1 .. traits.payloads : f = <<c, i>>
  BY DEF Once
<1>2. i \in 1 .. MaxPayloads
  BY Payloads
<1> QED
  BY <1>1, <1>2 DEF Asks, AskedBy

\* No payload of an accountable message reaches the recipient twice, whatever
\* crashes, leases that run out, failed transactions and drains there are (the
\* comment at delivery-queue-storage.ts:347).
THEOREM NothingTwice ==
  ASSUME Accountable
  PROVE  Spec => []NoDuplicate
<1>1. IInv /\ Once => NoDuplicate
  <2> SUFFICES ASSUME IInv, Once, NEW i \in 1 .. traits.payloads, NEW c \in Claims,
                      NEW d \in Claims, <<c, i>> \in landed, <<d, i>> \in landed
               PROVE  c = d
    BY DEF NoDuplicate
  <2>1. i \in 1 .. MaxPayloads /\ <<c, i>> \in Requests /\ <<d, i>> \in Requests
    BY Payloads DEF Requests
  <2> QED
    BY <2>1 DEF Once, Asks, AskedBy
<1> QED
  BY <1>1, Invariance, InvarianceOnce, PTL

\* While a send may have happened, a pending row says so (delivery-queue-storage.ts,
\* failDelivery keeps the evidence).
THEOREM EvidenceStays ==
  ASSUME Accountable
  PROVE  Spec => []EvidenceKept
<1>1. IInv /\ Once => EvidenceKept
  BY NothingAsked DEF Once, Evident, EvidenceKept
<1> QED
  BY <1>1, Invariance, InvarianceOnce, PTL

\* Under the required policy the receipt of a stable intent means that something
\* reached the recipient (ackDelivery is called for nothing else).
THEOREM ReceiptsTrue ==
  ASSUME Accountable
  PROVE  Spec => []AckMeansSent
<1>1. Once => AckMeansSent
  BY DEF Once, AckHonest, AckMeansSent
<1> QED
  BY <1>1, InvarianceOnce, PTL

\* A message is settled without a receipt only before it was sent: it was cancelled
\* in time, or refused for good (deliverOutboundPayloadsWithQueueCleanup).
THEOREM DroppedUnsent ==
  ASSUME Accountable
  PROVE  Spec => DroppedMeansUnsent
<1>1. IInv /\ Once /\ [Next]_vars =>
        [row.status = "pending" /\ row'.status = "dropped" => wire = {} /\ landed = {}]_vars
  BY InductiveOnce, NothingAsked DEF Honest, Pending
<1> QED
  BY <1>1, Invariance, InvarianceOnce, PTL DEF Spec, DroppedMeansUnsent
=============================================================================
