------------------------ MODULE CommandQueueProofs ------------------------
(***************************************************************************)
(* TLAPS proofs about CommandQueue: type correctness and every safety      *)
(* property of the module, in the order shared budget, accounts of the     *)
(* entries, waits, stranded work, hook reservation.                        *)
(*                                                                         *)
(* All go through lane tables: what is claimed of a table survives a pump  *)
(* (Drain) of any lane, and every action installs a table built from the   *)
(* present one by edits and pumps.                                         *)
(***************************************************************************)
EXTENDS CommandQueue, FunctionTheorems, FiniteSetTheorems, SequenceTheorems, TLAPS

-----------------------------------------------------------------------------
(* Least elements, for the two CHOOSEs of the model.                       *)

\* A nonempty set of naturals has a least element.
LEMMA LeastNatural ==
  ASSUME NEW T, T \subseteq Nat, T # {}
  PROVE  \E x \in T : \A y \in T : x <= y
<1>1. PICK x \in T : \A y \in T : ~(<<y, x>> \in OpToRel(<, Nat))
  BY NatLessThanWellFounded, WFMin, Zenon
<1>2. \A y \in T : ~(y < x)
  BY <1>1 DEF OpToRel
<1> QED
  BY <1>2

\* The pump's loop stops, after a number of entries the queue has.
LEMMA AdmittedProperties ==
  ASSUME NEW s, NEW l, Len(s.queue[l]) \in Nat
  PROVE  /\ Admitted(s, l) \in 0 .. Len(s.queue[l])
         /\ StopsAt(s, l, Admitted(s, l))
         /\ \A k \in 0 .. Admitted(s, l) - 1 : ~StopsAt(s, l, k)
<1> DEFINE T == {n \in 0 .. Len(s.queue[l]) : StopsAt(s, l, n)}
<1>1. Len(s.queue[l]) \in T
  BY DEF StopsAt
<1>0. T \subseteq Nat /\ T # {}
  BY <1>1
<1> HIDE DEF T
<1>2. PICK n \in T : \A m \in T : n <= m
  BY <1>0, LeastNatural
<1> USE DEF T
<1>3. /\ n \in 0 .. Len(s.queue[l])
      /\ StopsAt(s, l, n)
      /\ \A k \in 0 .. n - 1 : ~StopsAt(s, l, k)
  BY <1>2
<1> QED
  BY <1>3 DEF Admitted

\* An entry is inserted at one place of its queue.
LEMMA InsertEntryType ==
  ASSUME NEW ent, NEW q \in Seq(Entries), NEW e \in Entries
  PROVE  InsertEntry(ent, q, e) \in Seq(Entries)
<1> DEFINE At(i) == i = Len(q) + 1 \/ Outranks(ent, e, q[i])
           T == {i \in 1 .. Len(q) + 1 : At(i)}
           ok(i) == At(i) /\ \A j \in 1 .. i - 1 : ~Outranks(ent, e, q[j])
           at == CHOOSE i \in 1 .. Len(q) + 1 : ok(i)
<1>1. Len(q) \in Nat
  OBVIOUS
<1>2. Len(q) + 1 \in T
  BY <1>1
<1>0. T \subseteq Nat /\ T # {}
  BY <1>1, <1>2
<1> HIDE DEF T
<1>3. PICK i \in T : \A j \in T : i <= j
  BY <1>0, LeastNatural
<1> USE DEF T
<1>4. \A j \in 1 .. i - 1 : ~Outranks(ent, e, q[j])
  BY <1>1, <1>3
<1>5. \E j \in 1 .. Len(q) + 1 : ok(j)
  BY <1>3, <1>4
<1>6. at \in 1 .. Len(q) + 1
  BY <1>5
<1> HIDE DEF at
<1>7. [j \in 1 .. Len(q) + 1 |->
         IF j < at THEN q[j] ELSE IF j = at THEN e ELSE q[j - 1]] \in Seq(Entries)
  BY <1>1, <1>6
<1> QED
  BY <1>7 DEF InsertEntry, at

-----------------------------------------------------------------------------
(* Lane tables.                                                            *)

LaneTable == [queue : [Lanes -> Seq(Entries)], active : [Lanes -> SUBSET Entries],
              width : [Lanes -> Nat], group : Group]

\* The entries a pump starts were queued, and a pump yields a lane table.
LEMMA DrainType ==
  ASSUME NEW s \in LaneTable, NEW l \in Lanes
  PROVE  Drain(s, l) \in LaneTable
<1> DEFINE n == Admitted(s, l)
           q == s.queue[l]
           started == {q[i] : i \in 1 .. n}
<1>1. q \in Seq(Entries) /\ Len(q) \in Nat
  BY DEF LaneTable
<1>2. n \in 0 .. Len(q)
  BY <1>1, AdmittedProperties
<1> HIDE DEF n
<1>3. SubSeq(q, n + 1, Len(q)) \in Seq(Entries)
  BY <1>1, <1>2
<1>4. started \subseteq Entries
  BY <1>1, <1>2
<1>5. Drain(s, l) = [s EXCEPT
        !.queue[l] = SubSeq(q, n + 1, Len(q)),
        !.active[l] = @ \union started]
  BY DEF Drain, n
<1> HIDE DEF started, q
<1>6. [s.queue EXCEPT ![l] = SubSeq(q, n + 1, Len(q))] \in [Lanes -> Seq(Entries)]
  BY <1>3 DEF LaneTable
<1>7. [s.active EXCEPT ![l] = s.active[l] \union started] \in [Lanes -> SUBSET Entries]
  BY <1>4 DEF LaneTable
<1> QED
  BY <1>5, <1>6, <1>7 DEF LaneTable

\* The sibling drain after a completion keeps a lane table well typed.
LEMMA DrainSiblingsType ==
  ASSUME NEW s \in LaneTable, NEW l \in Lanes
  PROVE  DrainSiblings(s, l) \in LaneTable
  BY DrainType, LanesAssumption DEF DrainSiblings, Sibling, Members

\* What a step may leave in the entry table before its pumps install it.
EntryTable == [Entries -> [lane : Lanes, priority : Int, timed : BOOLEAN,
                           state : EntryStates, generation : Nat]]

\* A task of which only the state changes keeps the entry table typed.
LEMMA StateSet ==
  ASSUME NEW ent \in EntryTable, NEW e \in Entries, NEW st \in EntryStates
  PROVE  [ent EXCEPT ![e].state = st] \in EntryTable
<1>1. ent[e] \in [lane : Lanes, priority : Int, timed : BOOLEAN,
                  state : EntryStates, generation : Nat]
  BY DEF EntryTable
<1>2. [ent[e] EXCEPT !.state = st] \in [lane : Lanes, priority : Int, timed : BOOLEAN,
                                        state : EntryStates, generation : Nat]
  BY <1>1
<1>3. [ent EXCEPT ![e] = [ent[e] EXCEPT !.state = st]] \in EntryTable
  BY <1>2 DEF EntryTable
<1> QED
  BY <1>3

\* Writing a well-typed lane table back keeps the types of what it writes.
LEMMA InstallType ==
  ASSUME NEW s \in LaneTable, NEW ent \in EntryTable,
         NEW gen \in [Lanes -> Nat], Install(s, ent, gen)
  PROVE  /\ queue' \in [Lanes -> Seq(Entries)]
         /\ active' \in [Lanes -> SUBSET Entries]
         /\ maxConcurrent' \in [Lanes -> Nat]
         /\ group' \in Group
         /\ entry' \in EntryTable
<1>1. \A e \in Entries : entry'[e] \in [lane : Lanes, priority : Int, timed : BOOLEAN,
                                       state : EntryStates, generation : Nat]
  BY DEF Install, EntryTable, EntryStates
<1>2. entry' = [e \in Entries |-> entry'[e]]
  BY DEF Install
<1> QED
  BY <1>1, <1>2 DEF Install, EntryTable, LaneTable

\* Notification only moves waiters from pending to drained.
LEMMA NotifiedType ==
  ASSUME TypeOK, NEW remaining
  PROVE  Notified(remaining) \in [Waiters -> [state : {"idle", "pending", "drained", "expired"},
                                            ids : SUBSET Entries]]
  BY DEF TypeOK, Notified

\* The current state is a well-typed lane table.
LEMMA TableType == TypeOK => Table \in LaneTable
  BY DEF TypeOK, Table, LaneTable

-----------------------------------------------------------------------------
(* Type correctness.                                                       *)

\* The state after the first publication is well typed.
LEMMA InitType == Init => TypeOK
<1> SUFFICES ASSUME Init PROVE TypeOK
  OBVIOUS
<1> USE LanesAssumption, BudgetAssumption, BoundsAssumption DEF Init
<1>1. entry \in EntryTable
  <2>1. [lane |-> CronNested, priority |-> 0, timed |-> FALSE, state |-> "new",
         generation |-> 0] \in [lane : Lanes, priority : Int, timed : BOOLEAN,
                                state : EntryStates, generation : Nat]
    BY DEF EntryStates
  <2> QED
    BY <2>1 DEF EntryTable
<1>2. maxConcurrent \in [Lanes -> Nat] /\ group \in Group
  BY DEF Group
<1>3. present \subseteq Lanes
  BY DEF Members
<1>4. queue \in [Lanes -> Seq(Entries)] /\ active \in [Lanes -> SUBSET Entries]
  OBVIOUS
<1>5. generation \in [Lanes -> Nat] /\ restartDraining \in BOOLEAN
  OBVIOUS
<1>6. nextSequence \in 1 .. MaxEntries + 1
  OBVIOUS
<1>7. waiter \in [Waiters -> [state : {"idle", "pending", "drained", "expired"},
                             ids : SUBSET Entries]]
  OBVIOUS
<1> QED
  BY <1>1, <1>2, <1>3, <1>4, <1>5, <1>6, <1>7 DEF TypeOK, EntryTable

\* The seven conjuncts a step that installs a table has to re-establish.
LEMMA TypeFromInstall ==
  ASSUME NEW s \in LaneTable, NEW ent \in EntryTable, NEW gen \in [Lanes -> Nat],
         Install(s, ent, gen), generation' \in [Lanes -> Nat],
         present' \subseteq Lanes, nextSequence' \in 1 .. MaxEntries + 1,
         waiter' \in [Waiters -> [state : {"idle", "pending", "drained", "expired"},
                                  ids : SUBSET Entries]],
         restartDraining' \in BOOLEAN
  PROVE  TypeOK'
  BY InstallType DEF TypeOK, EntryTable

\* Type correctness, one operation at a time: an enqueue with its pump,
LEMMA EnqueueType ==
  ASSUME TypeOK, NEW l \in Lanes, NEW p \in Priorities, NEW t \in TimeoutChoices,
         EnqueueCommandInLane(l, p, t)
  PROVE  TypeOK'
<1> DEFINE e == nextSequence
           ent == [entry EXCEPT ![e] = [lane |-> l, priority |-> p, timed |-> t,
                                        state |-> "queued", generation |-> 0]]
           s == [Table EXCEPT !.queue[l] = InsertEntry(ent, @, e)]
<1> USE BoundsAssumption
<1>1. e \in Entries /\ nextSequence' \in 1 .. MaxEntries + 1
  BY DEF EnqueueCommandInLane, TypeOK, Entries
<1>2. ent \in EntryTable
  BY <1>1 DEF TypeOK, EntryTable, EntryStates
<1>3. queue[l] \in Seq(Entries)
  BY DEF TypeOK
<1>4. InsertEntry(ent, queue[l], e) \in Seq(Entries)
  BY <1>1, <1>3, InsertEntryType
<1>5. s \in LaneTable
  BY <1>4, TableType DEF Table, LaneTable
<1>6. Drain(s, l) \in LaneTable
  BY <1>5, DrainType
<1>7. Install(Drain(s, l), ent, generation)
  BY DEF EnqueueCommandInLane
<1>8. present' \subseteq Lanes /\ generation \in [Lanes -> Nat]
  BY DEF EnqueueCommandInLane, TypeOK
<1> HIDE DEF ent, s
<1> QED
  BY <1>1, <1>2, <1>6, <1>7, <1>8, TypeFromInstall DEF EnqueueCommandInLane, TypeOK

\* a completion, current or stale,
LEMMA SettleType ==
  ASSUME TypeOK, NEW e \in Entries, Settle(e)
  PROVE  TypeOK'
<1> DEFINE l == entry[e].lane
           ent == [entry EXCEPT ![e].state = "settled"]
           released == [Table EXCEPT !.active[l] = @ \ {e}]
           pumped == Drain(released, l)
<1>1. l \in Lanes
  BY DEF TypeOK
<1>2. ent \in EntryTable
  <2>1. entry \in EntryTable /\ "settled" \in EntryStates
    BY DEF TypeOK, EntryTable, EntryStates
  <2> QED
    BY <2>1, StateSet
<1>3. CASE entry[e].generation = generation[l]
  <2>1. released \in LaneTable
    BY <1>1, TableType DEF Table, LaneTable
  <2>2. DrainSiblings(pumped, l) \in LaneTable
    BY <1>1, <2>1, DrainType, DrainSiblingsType
  <2>3. /\ Install(DrainSiblings(pumped, l), ent, generation)
        /\ waiter' = Notified(AllActive(released.active))
        /\ present' \subseteq Lanes
    BY <1>3 DEF Settle, TypeOK
  <2> HIDE DEF l, ent, released, pumped
  <2> QED
    BY <1>2, <2>2, <2>3, NotifiedType, TypeFromInstall DEF Settle, TypeOK
<1>4. CASE entry[e].generation # generation[l]
  <2>1. entry' = ent
    BY <1>4 DEF Settle
  <2> HIDE DEF ent
  <2> QED
    BY <1>2, <1>4, <2>1 DEF Settle, TypeOK, EntryTable
<1> QED
  BY <1>3, <1>4

\* the clearing of a lane,
LEMMA ClearType ==
  ASSUME TypeOK, NEW l \in Lanes, ClearCommandLane(l)
  PROVE  TypeOK'
<1>1. ASSUME NEW e \in Entries
      PROVE  entry'[e] \in [lane : Lanes, priority : Int, timed : BOOLEAN,
                            state : EntryStates, generation : Nat]
  <2>1. entry[e] \in [lane : Lanes, priority : Int, timed : BOOLEAN,
                      state : EntryStates, generation : Nat]
    BY DEF TypeOK, EntryStates
  <2>2. entry'[e] = entry[e] \/ entry'[e] = [entry[e] EXCEPT !.state = "cleared"]
    BY DEF ClearCommandLane
  <2> QED
    BY <2>1, <2>2 DEF EntryStates
<1>2. entry' = [e \in Entries |-> entry'[e]]
  BY DEF ClearCommandLane
<1>3. entry' \in [Entries -> [lane : Lanes, priority : Int, timed : BOOLEAN,
                             state : EntryStates, generation : Nat]]
  BY <1>1, <1>2
<1>4. queue' \in [Lanes -> Seq(Entries)]
  BY DEF ClearCommandLane, TypeOK
<1> QED
  BY <1>3, <1>4 DEF ClearCommandLane, TypeOK

\* the reset of a lane and its sibling drain,
LEMMA ResetLaneType ==
  ASSUME TypeOK, NEW l \in Lanes, ResetCommandLane(l)
  PROVE  TypeOK'
<1> DEFINE released == [Table EXCEPT !.active[l] = {}]
           s == DrainSiblings(Drain(released, l), l)
<1>1. NextGeneration(l) \in [Lanes -> Nat]
  BY DEF NextGeneration, TypeOK
<1>2. released \in LaneTable
  BY TableType DEF Table, LaneTable
<1>3. s \in LaneTable
  BY <1>2, DrainType, DrainSiblingsType
<1>4. /\ Install(s, entry, NextGeneration(l))
      /\ generation' = NextGeneration(l)
      /\ waiter' = Notified(AllActive(s.active))
  BY DEF ResetCommandLane
<1> HIDE DEF s, released
<1>5. entry \in EntryTable
  BY DEF TypeOK, EntryTable
<1>6. waiter' \in [Waiters -> [state : {"idle", "pending", "drained", "expired"},
                              ids : SUBSET Entries]]
  BY <1>4, NotifiedType
<1>7. /\ present' \subseteq Lanes
      /\ nextSequence' \in 1 .. MaxEntries + 1
      /\ restartDraining' \in BOOLEAN
  BY DEF ResetCommandLane, TypeOK
<1> QED
  BY <1>1, <1>3, <1>4, <1>5, <1>6, <1>7, TypeFromInstall

\* the reset of all lanes,
LEMMA ResetAllType ==
  ASSUME TypeOK, NEW first \in Members, ResetAllLanes(first)
  PROVE  TypeOK'
<1> DEFINE gen == [l \in Lanes |-> IF l \in present THEN generation[l] + 1
                                                   ELSE generation[l]]
           released == [Table EXCEPT !.active = [l \in Lanes |-> {}]]
           grouped == Drain(Drain(released, first), Sibling(first))
           alone == [l \in Lanes |-> Drain(released, l)]
           s == [grouped EXCEPT
                   !.queue = [l \in Lanes |-> IF l \in Members THEN grouped.queue[l]
                                              ELSE alone[l].queue[l]],
                   !.active = [l \in Lanes |-> IF l \in Members THEN grouped.active[l]
                                               ELSE alone[l].active[l]]]
<1>1. gen \in [Lanes -> Nat]
  BY DEF TypeOK
<1>2. first \in Lanes /\ Sibling(first) \in Lanes
  BY LanesAssumption DEF Members, Sibling
<1>3. released \in LaneTable
  BY TableType DEF Table, LaneTable
<1>4. grouped \in LaneTable
  BY <1>2, <1>3, DrainType
<1>5. \A l \in Lanes : alone[l] \in LaneTable
  BY <1>3, DrainType
<1>6. /\ Install(s, entry, gen)
      /\ generation' = gen
      /\ waiter' = Notified(AllActive(s.active))
  BY DEF ResetAllLanes
<1> HIDE DEF gen, released, grouped, alone
<1>7. s \in LaneTable
  BY <1>4, <1>5 DEF LaneTable
<1> HIDE DEF s
<1>8. entry \in EntryTable
  BY DEF TypeOK, EntryTable
<1>9. waiter' \in [Waiters -> [state : {"idle", "pending", "drained", "expired"},
                              ids : SUBSET Entries]]
  BY <1>6, NotifiedType
<1>10. /\ present' \subseteq Lanes
       /\ nextSequence' \in 1 .. MaxEntries + 1
       /\ restartDraining' \in BOOLEAN
  BY DEF ResetAllLanes, TypeOK
<1> QED
  BY <1>1, <1>6, <1>7, <1>8, <1>9, <1>10, TypeFromInstall

\* the configuration the gateway publishes,
LEMMA PublishedType ==
  ASSUME TypeOK, NEW hooks \in BOOLEAN
  PROVE  Published(hooks) \in LaneTable
<1>1. PublishedGroup(hooks) \in Group
  BY BudgetAssumption DEF PublishedGroup, Group
<1> QED
  BY <1>1, BudgetAssumption, TableType DEF Published, Table, LaneTable

\* its publication with the commit-time drain,
LEMMA PublishType ==
  ASSUME TypeOK, NEW hooks \in BOOLEAN, PublishLaneConfiguration(hooks)
  PROVE  TypeOK'
<1> DEFINE s == Drain(Drain(Published(hooks), CronNested), HookDispatch)
<1>1. s \in LaneTable
  BY PublishedType, DrainType, LanesAssumption
<1>2. Install(s, entry, generation)
  BY DEF PublishLaneConfiguration
<1>3. present' \subseteq Lanes
  BY LanesAssumption DEF PublishLaneConfiguration, Members, TypeOK
<1>4. entry \in EntryTable
  BY DEF TypeOK, EntryTable
<1> HIDE DEF s
<1> QED
  BY <1>1, <1>2, <1>3, <1>4, TypeFromInstall DEF PublishLaneConfiguration, TypeOK

\* and the width of a single lane.
LEMMA SetConcurrencyType ==
  ASSUME TypeOK, NEW l \in FixedLanes, NEW width \in Widths,
         SetCommandLaneConcurrency(l, width)
  PROVE  TypeOK'
<1> DEFINE s == Drain([Table EXCEPT !.width[l] = width], l)
<1>1. l \in Lanes /\ width \in Nat
  BY BudgetAssumption DEF FixedLanes
<1>2. [Table EXCEPT !.width[l] = width] \in LaneTable
  BY <1>1, TableType DEF Table, LaneTable
<1>3. s \in LaneTable
  BY <1>1, <1>2, DrainType
<1>4. Install(s, entry, generation)
  BY DEF SetCommandLaneConcurrency
<1>5. entry \in EntryTable
  BY DEF TypeOK, EntryTable
<1> HIDE DEF s
<1> QED
  BY <1>1, <1>3, <1>4, <1>5, TypeFromInstall DEF SetCommandLaneConcurrency, TypeOK

\* Every step keeps the types.
LEMMA NextType == TypeOK /\ [Next]_vars => TypeOK'
<1> SUFFICES ASSUME TypeOK, [Next]_vars PROVE TypeOK'
  OBVIOUS
<1>1. ASSUME NEW l \in Lanes, NEW p \in Priorities, NEW t \in TimeoutChoices,
             EnqueueCommandInLane(l, p, t)
      PROVE  TypeOK'
  BY <1>1, EnqueueType
<1>2. ASSUME NEW e \in Entries, Settle(e) PROVE TypeOK'
  BY <1>2, SettleType
<1>3. ASSUME NEW l \in Lanes, ClearCommandLane(l) PROVE TypeOK'
  BY <1>3, ClearType
<1>4. ASSUME NEW l \in Lanes, ResetCommandLane(l) PROVE TypeOK'
  BY <1>4, ResetLaneType
<1>5. ASSUME NEW l \in Members, ResetAllLanes(l) PROVE TypeOK'
  BY <1>5, ResetAllType
<1>6. ASSUME MarkGatewayDraining PROVE TypeOK'
  BY <1>6 DEF MarkGatewayDraining, TypeOK
<1>7. ASSUME NEW w \in Waiters, WaitForActiveTasks(w) PROVE TypeOK'
  BY <1>7 DEF WaitForActiveTasks, TypeOK, AllActive
<1>8. ASSUME NEW w \in Waiters, WaiterTimeout(w) PROVE TypeOK'
  BY <1>8 DEF WaiterTimeout, TypeOK
<1>9. ASSUME NEW l \in FixedLanes, NEW width \in Widths,
             SetCommandLaneConcurrency(l, width)
      PROVE  TypeOK'
  BY <1>9, SetConcurrencyType
<1>10. ASSUME NEW hooks \in BOOLEAN, PublishLaneConfiguration(hooks) PROVE TypeOK'
  BY <1>10, PublishType
<1>11. CASE UNCHANGED vars
  BY <1>11 DEF vars, TypeOK
<1> QED
  BY <1>1, <1>2, <1>3, <1>4, <1>5, <1>6, <1>7, <1>8, <1>9, <1>10, <1>11 DEF Next

\* Every variable of the command queue keeps its type.
THEOREM TypeCorrect == Spec => []TypeOK
  BY InitType, NextType, PTL DEF Spec

-----------------------------------------------------------------------------
(* The shared budget.  GroupWithinBudget is not inductive: without a group *)
(* nothing bounds the sum, so the invariant adds that a hook task runs     *)
(* only while the group is installed and that cron-nested is never wider   *)
(* than the budget.                                                        *)

WithinBudget(s) ==
  /\ s.width[CronNested] = CronBudget
  /\ ~s.group.installed => s.active[HookDispatch] = {} /\ s.width[HookDispatch] = 0
  /\ Cardinality(s.active[CronNested]) + Cardinality(s.active[HookDispatch])
       <= CronBudget

BudgetInv == WithinBudget(Table)

\* Sets of entries are finite, so their cardinalities are naturals.
LEMMA EntriesFinite ==
  ASSUME NEW T \in SUBSET Entries
  PROVE  IsFiniteSet(T) /\ Cardinality(T) \in Nat
<1>1. 1 \in Int /\ MaxEntries \in Int
  BY BoundsAssumption
<1>2. IsFiniteSet(Entries)
  BY <1>1, FS_Interval, Zenon DEF Entries
<1>3. IsFiniteSet(T)
  BY <1>2, FS_Subset
<1> QED
  BY <1>3, FS_CardinalityType

\* Starting n entries of a queue adds at most n active tasks.
LEMMA StartedBound ==
  ASSUME NEW T \in SUBSET Entries, NEW q \in Seq(Entries), NEW n \in 0 .. Len(q)
  PROVE  Cardinality(T \union {q[i] : i \in 1 .. n}) <= Cardinality(T) + n
<1> DEFINE U == {q[i] : i \in 1 .. n}
           f == [i \in 1 .. n |-> q[i]]
<1>1. IsFiniteSet(1 .. n) /\ Cardinality(1 .. n) = n
  BY FS_Interval
<1>2. f \in Surjection(1 .. n, U)
  BY DEF Surjection
<1> HIDE DEF f
<1>3. IsFiniteSet(U) /\ Cardinality(U) <= n
  BY <1>1, <1>2, FS_Surjection
<1>4. U \subseteq Entries
  OBVIOUS
<1> HIDE DEF U
<1>5. Cardinality(T \union U) = Cardinality(T) + Cardinality(U) - Cardinality(T \cap U)
  BY <1>3, EntriesFinite, FS_Union
<1>6. Cardinality(T) \in Nat /\ Cardinality(U) \in Nat /\ Cardinality(T \cap U) \in Nat
  BY <1>4, EntriesFinite
<1> QED
  BY <1>3, <1>5, <1>6 DEF U

\* A pump keeps a table within its budget: the entry it starts last passed the
\* group check, or, without a group, the width check.
LEMMA DrainBudget ==
  ASSUME NEW s \in LaneTable, NEW l \in Lanes, WithinBudget(s)
  PROVE  WithinBudget(Drain(s, l))
<1> DEFINE n == Admitted(s, l)
           q == s.queue[l]
           a == s.active[l]
           b == s.active[Sibling(l)]
           started == {q[i] : i \in 1 .. n}
<1> USE LanesAssumption, BudgetAssumption
<1>1. q \in Seq(Entries) /\ Len(q) \in Nat
  BY DEF LaneTable
<1>2. n \in 0 .. Len(q) /\ \A k \in 0 .. n - 1 : ~StopsAt(s, l, k)
  BY <1>1, AdmittedProperties
<1>3. /\ Drain(s, l).width = s.width
      /\ Drain(s, l).group = s.group
      /\ Drain(s, l).active = [s.active EXCEPT ![l] = a \union started]
  BY DEF Drain, LaneTable
<1> HIDE DEF n
<1>4. CASE l \notin Members
  BY <1>3, <1>4 DEF WithinBudget, Members, LaneTable
<1>5. CASE n = 0
  <2>1. a \union started = a
    BY <1>5
  <2>2. [s.active EXCEPT ![l] = a] = s.active
    BY DEF LaneTable
  <2> HIDE DEF a, started
  <2>3. Drain(s, l).active = s.active
    BY <1>3, <2>1, <2>2
  <2> QED
    BY <1>3, <2>3 DEF WithinBudget
<1>6. CASE l \in Members /\ n # 0
  <2> DEFINE B == [Busy(s.active) EXCEPT ![l] = @ + (n - 1)]
  <2>1. Sibling(l) \in Lanes /\ Sibling(l) # l
    BY <1>6 DEF Sibling, Members
  <2>2. a \in SUBSET Entries /\ b \in SUBSET Entries
    BY <2>1 DEF LaneTable
  <2>3. Cardinality(a) \in Nat /\ Cardinality(b) \in Nat
    BY <2>2, EntriesFinite
  <2>4. n \in Nat \ {0} /\ n - 1 \in 0 .. n - 1
    BY <1>1, <1>2, <1>6
  <2>5. BlockReason(s.width, s.group, B, l) = "none"
    BY <1>2, <2>4 DEF StopsAt
  <2>6. B[l] = Cardinality(a) + (n - 1) /\ B[Sibling(l)] = Cardinality(b)
    BY <2>1 DEF Busy
  <2> HIDE DEF B
  <2>7. s.width[l] \in Nat /\ s.group.installed \in BOOLEAN
    BY DEF LaneTable, Group
  <2>8. B[l] < s.width[l]
    BY <2>3, <2>4, <2>5, <2>6, <2>7 DEF BlockReason
  <2>9. Cardinality(a \union started) <= Cardinality(a) + n
    BY <1>1, <1>2, <2>2, StartedBound
  <2>10. a \union started \in SUBSET Entries
    BY <1>1, <1>2, <2>2
  <2>11. Cardinality(a \union started) \in Nat
    BY <2>10, EntriesFinite
  <2>12. Cardinality(a \union started) + Cardinality(b) <= CronBudget
    <3>1. CASE s.group.installed
      <4>1. B[l] + B[Sibling(l)] < CronBudget
        BY <1>6, <2>3, <2>4, <2>5, <2>6, <2>7, <2>8, <3>1 DEF BlockReason
      <4> QED
        BY <4>1, <2>3, <2>4, <2>6, <2>9, <2>11
    <3>2. CASE ~s.group.installed
      <4>1. l = CronNested
        BY <1>6, <2>3, <2>4, <2>6, <2>8, <3>2 DEF WithinBudget, Members
      <4>2. Cardinality(b) = 0 /\ s.width[l] = CronBudget
        BY <3>2, <4>1, FS_EmptySet DEF WithinBudget, Sibling
      <4> QED
        BY <4>2, <2>3, <2>4, <2>6, <2>8, <2>9, <2>11
    <3> QED
      BY <3>1, <3>2, <2>7
  <2>13. ~s.group.installed => l = CronNested
    BY <1>6, <2>3, <2>4, <2>6, <2>8 DEF WithinBudget, Members
  <2> HIDE DEF started
  <2> QED
    BY <1>3, <1>6, <2>1, <2>3, <2>11, <2>12, <2>13 DEF WithinBudget, Members, Sibling, LaneTable
<1> QED
  BY <1>4, <1>5, <1>6

\* The sibling drain respects the budget as a drain does.
LEMMA DrainSiblingsBudget ==
  ASSUME NEW s \in LaneTable, NEW l \in Lanes, WithinBudget(s)
  PROVE  WithinBudget(DrainSiblings(s, l))
  BY DrainBudget, LanesAssumption DEF DrainSiblings, Sibling, Members

\* A lane table within the budget is written back within the budget.
LEMMA InstallBudget ==
  ASSUME NEW s, NEW ent, NEW gen, WithinBudget(s), Install(s, ent, gen)
  PROVE  BudgetInv'
  BY DEF BudgetInv, WithinBudget, Install, Table

\* Freeing slots keeps a table within its budget.
LEMMA ReleasedBudget ==
  ASSUME NEW s \in LaneTable, WithinBudget(s),
         NEW act \in [Lanes -> SUBSET Entries],
         \A k \in Lanes : act[k] \subseteq s.active[k]
  PROVE  WithinBudget([s EXCEPT !.active = act])
<1> DEFINE r == [s EXCEPT !.active = act]
<1>1. \A k \in Lanes : /\ Cardinality(act[k]) <= Cardinality(s.active[k])
                       /\ Cardinality(act[k]) \in Nat
                       /\ Cardinality(s.active[k]) \in Nat
  <2> SUFFICES ASSUME NEW k \in Lanes
               PROVE  /\ Cardinality(act[k]) <= Cardinality(s.active[k])
                      /\ Cardinality(act[k]) \in Nat
                      /\ Cardinality(s.active[k]) \in Nat
    OBVIOUS
  <2>1. act[k] \in SUBSET Entries /\ s.active[k] \in SUBSET Entries
    BY DEF LaneTable
  <2>2. IsFiniteSet(s.active[k]) /\ act[k] \in SUBSET s.active[k]
    BY <2>1, EntriesFinite
  <2> QED
    BY <2>1, <2>2, EntriesFinite, FS_Subset
<1>2. r.active = act /\ r.width = s.width /\ r.group = s.group
  BY DEF LaneTable
<1> HIDE DEF r
<1>3. WithinBudget(r)
  BY <1>1, <1>2, LanesAssumption, BudgetAssumption DEF WithinBudget
<1> QED
  BY <1>3 DEF r

\* Nothing runs initially.
LEMMA InitBudget == Init => BudgetInv
<1> SUFFICES ASSUME Init PROVE BudgetInv
  OBVIOUS
<1> QED
  BY LanesAssumption, BudgetAssumption, FS_EmptySet DEF Init, BudgetInv, WithinBudget, Table

\* Every step keeps the group within its budget.
LEMMA NextBudget == TypeOK /\ BudgetInv /\ [Next]_vars => BudgetInv'
<1> SUFFICES ASSUME TypeOK, BudgetInv, [Next]_vars PROVE BudgetInv'
  OBVIOUS
<1> USE LanesAssumption
<1>0. Table \in LaneTable /\ WithinBudget(Table)
  BY TableType DEF BudgetInv
<1>1. ASSUME NEW l \in Lanes, NEW p \in Priorities, NEW t \in TimeoutChoices,
             EnqueueCommandInLane(l, p, t)
      PROVE  BudgetInv'
  <2> DEFINE e == nextSequence
             ent == [entry EXCEPT ![e] = [lane |-> l, priority |-> p, timed |-> t,
                                          state |-> "queued", generation |-> 0]]
             s == [Table EXCEPT !.queue[l] = InsertEntry(ent, @, e)]
  <2>1. e \in Entries
    BY <1>1 DEF EnqueueCommandInLane, TypeOK, Entries
  <2>2. InsertEntry(ent, queue[l], e) \in Seq(Entries)
    BY <2>1, InsertEntryType DEF TypeOK
  <2>3. s \in LaneTable /\ WithinBudget(s)
    BY <1>0, <2>2 DEF Table, LaneTable, WithinBudget
  <2>4. WithinBudget(Drain(s, l))
    BY <2>3, DrainBudget
  <2>5. Install(Drain(s, l), ent, generation)
    BY <1>1 DEF EnqueueCommandInLane
  <2> HIDE DEF s, ent
  <2> QED
    BY <2>4, <2>5, InstallBudget
<1>2. ASSUME NEW e \in Entries, Settle(e) PROVE BudgetInv'
  <2> DEFINE l == entry[e].lane
             ent == [entry EXCEPT ![e].state = "settled"]
             released == [Table EXCEPT !.active[l] = @ \ {e}]
  <2>1. l \in Lanes
    BY DEF TypeOK
  <2>2. CASE entry[e].generation = generation[l]
    <3> DEFINE act == [active EXCEPT ![l] = @ \ {e}]
    <3>1. /\ act \in [Lanes -> SUBSET Entries]
          /\ \A k \in Lanes : act[k] \subseteq Table.active[k]
      BY <2>1 DEF TypeOK, Table
    <3>2. released = [Table EXCEPT !.active = act]
      BY DEF Table
    <3> HIDE DEF act
    <3>3. released \in LaneTable /\ WithinBudget(released)
      BY <1>0, <3>1, <3>2, ReleasedBudget DEF LaneTable
    <3>4. Install(DrainSiblings(Drain(released, l), l), ent, generation)
      BY <1>2, <2>2 DEF Settle
    <3> HIDE DEF released, l, ent
    <3>5. WithinBudget(DrainSiblings(Drain(released, l), l))
      BY <2>1, <3>3, DrainType, DrainBudget, DrainSiblingsBudget
    <3> QED
      BY <3>4, <3>5, InstallBudget
  <2>3. CASE entry[e].generation # generation[l]
    BY <1>0, <1>2, <2>3 DEF Settle, BudgetInv, WithinBudget, Table
  <2> QED
    BY <2>2, <2>3
<1>3. ASSUME NEW l \in Lanes, ClearCommandLane(l) PROVE BudgetInv'
  BY <1>0, <1>3 DEF ClearCommandLane, BudgetInv, WithinBudget, Table
<1>4. ASSUME NEW l \in Lanes, ResetCommandLane(l) PROVE BudgetInv'
  <2> DEFINE act == [active EXCEPT ![l] = {}]
             released == [Table EXCEPT !.active[l] = {}]
  <2>1. /\ act \in [Lanes -> SUBSET Entries]
        /\ \A k \in Lanes : act[k] \subseteq Table.active[k]
    BY DEF TypeOK, Table
  <2>2. released = [Table EXCEPT !.active = act]
    BY DEF Table
  <2> HIDE DEF act
  <2>3. released \in LaneTable /\ WithinBudget(released)
    BY <1>0, <2>1, <2>2, ReleasedBudget DEF LaneTable
  <2>4. Install(DrainSiblings(Drain(released, l), l), entry, NextGeneration(l))
    BY <1>4 DEF ResetCommandLane
  <2> HIDE DEF released
  <2>5. WithinBudget(DrainSiblings(Drain(released, l), l))
    BY <2>3, DrainType, DrainBudget, DrainSiblingsBudget
  <2> QED
    BY <2>4, <2>5, InstallBudget
<1>5. ASSUME NEW first \in Members, ResetAllLanes(first) PROVE BudgetInv'
  <2> DEFINE gen == [l \in Lanes |-> IF l \in present THEN generation[l] + 1
                                                     ELSE generation[l]]
             act == [l \in Lanes |-> {}]
             released == [Table EXCEPT !.active = act]
             grouped == Drain(Drain(released, first), Sibling(first))
             alone == [l \in Lanes |-> Drain(released, l)]
             s == [grouped EXCEPT
                     !.queue = [l \in Lanes |-> IF l \in Members THEN grouped.queue[l]
                                                ELSE alone[l].queue[l]],
                     !.active = [l \in Lanes |-> IF l \in Members THEN grouped.active[l]
                                                 ELSE alone[l].active[l]]]
  <2>1. first \in Lanes /\ Sibling(first) \in Lanes
    BY <1>5 DEF Members, Sibling
  <2>2. /\ act \in [Lanes -> SUBSET Entries]
        /\ \A k \in Lanes : act[k] \subseteq Table.active[k]
    OBVIOUS
  <2> HIDE DEF act
  <2>3. released \in LaneTable /\ WithinBudget(released)
    BY <1>0, <2>2, ReleasedBudget DEF LaneTable
  <2> HIDE DEF released
  <2>4. grouped \in LaneTable /\ WithinBudget(grouped)
    BY <2>1, <2>3, DrainType, DrainBudget
  <2> HIDE DEF grouped, alone
  <2>5. WithinBudget(s)
    BY <2>4 DEF WithinBudget, LaneTable, Members
  <2>6. Install(s, entry, gen)
    BY <1>5 DEF ResetAllLanes, act, released, grouped, alone
  <2> HIDE DEF s, gen
  <2> QED
    BY <2>5, <2>6, InstallBudget
<1>6. ASSUME MarkGatewayDraining PROVE BudgetInv'
  BY <1>0, <1>6 DEF MarkGatewayDraining, BudgetInv, WithinBudget, Table
<1>7. ASSUME NEW w \in Waiters, WaitForActiveTasks(w) PROVE BudgetInv'
  BY <1>0, <1>7 DEF WaitForActiveTasks, BudgetInv, WithinBudget, Table
<1>8. ASSUME NEW w \in Waiters, WaiterTimeout(w) PROVE BudgetInv'
  BY <1>0, <1>8 DEF WaiterTimeout, BudgetInv, WithinBudget, Table
<1>9. ASSUME NEW l \in FixedLanes, NEW width \in Widths,
             SetCommandLaneConcurrency(l, width)
      PROVE  BudgetInv'
  <2> DEFINE s == [Table EXCEPT !.width[l] = width]
  <2>1. l \in Lanes /\ l \notin Members /\ width \in Nat
    BY <1>9, BudgetAssumption DEF FixedLanes, Members
  <2>2. s \in LaneTable
    BY <1>0, <2>1 DEF Table, LaneTable
  <2>3. WithinBudget(s)
    BY <1>0, <2>1 DEF WithinBudget, Table, LaneTable, Members
  <2>4. Install(Drain(s, l), entry, generation)
    BY <1>9 DEF SetCommandLaneConcurrency
  <2> HIDE DEF s
  <2> QED
    BY <2>1, <2>2, <2>3, <2>4, DrainBudget, InstallBudget
<1>10. ASSUME NEW hooks \in BOOLEAN, PublishLaneConfiguration(hooks)
       PROVE  BudgetInv'
  <2> DEFINE s == Published(hooks)
  <2>1. s \in LaneTable
    BY PublishedType
  <2>2. /\ s.active = active
        /\ s.width[CronNested] = CronBudget
        /\ s.width[HookDispatch] = IF hooks THEN CronBudget ELSE 0
        /\ s.group.installed = (hooks \/ active[HookDispatch] # {})
    BY <1>0 DEF Published, PublishedGroup, Table, LaneTable
  <2>3. WithinBudget(s)
    BY <1>0, <2>2 DEF WithinBudget, Table
  <2>4. Install(Drain(Drain(s, CronNested), HookDispatch), entry, generation)
    BY <1>10 DEF PublishLaneConfiguration
  <2> HIDE DEF s
  <2>5. WithinBudget(Drain(Drain(s, CronNested), HookDispatch))
    BY <2>1, <2>3, DrainType, DrainBudget
  <2> QED
    BY <2>4, <2>5, InstallBudget
<1>11. CASE UNCHANGED vars
  BY <1>0, <1>11 DEF vars, BudgetInv, WithinBudget, Table
<1> QED
  BY <1>1, <1>2, <1>3, <1>4, <1>5, <1>6, <1>7, <1>8, <1>9, <1>10, <1>11 DEF Next

\* Cron inner work and hook work never exceed the shared cron budget, whatever
\* the lanes, the budget, the reservation and the order of publications,
\* completions and resets.
THEOREM BudgetCorrect == Spec => []GroupWithinBudget
<1>1. BudgetInv => GroupWithinBudget
  BY DEF BudgetInv, WithinBudget, Table, GroupWithinBudget
<1> QED
  BY <1>1, InitType, NextType, InitBudget, NextBudget, PTL DEF Spec

-----------------------------------------------------------------------------
(* Accounting.  Between the pumps of one call an entry the call has started *)
(* is in the active set and still "queued" in the entry table; Install ends *)
(* that.  A queue is accounted for lane by lane, since a pump changes one.  *)

Listed(q) == {q[i] : i \in 1 .. Len(q)}

\* The queue and the active set of lane l fit the entry table: no entry is listed
\* twice or missing, and the active entries are of the lane's generation.
Tidy(q, a, ent, g, l) ==
  /\ \A i, j \in 1 .. Len(q) : q[i] = q[j] => i = j
  /\ \A e \in Listed(q) : ent[e].state = "queued" /\ ent[e].lane = l /\ e \notin a
  /\ \A e \in a : /\ ent[e].lane = l
                  /\ \/ ent[e].state = "queued"
                     \/ ent[e].state = "running" /\ ent[e].generation = g
  /\ \A e \in Entries : ent[e].lane = l =>
       /\ ent[e].state = "queued" => e \in a \/ e \in Listed(q)
       /\ ent[e].state = "running" => /\ ent[e].generation <= g
                                      /\ ent[e].generation = g => e \in a

Accounted(s, ent, gen) ==
  \A l \in Lanes : Tidy(s.queue[l], s.active[l], ent, gen[l], l)

\* Between two calls active entries run; an entry not yet enqueued is new; and a lane
\* whose state was removed had none.
AccountInv ==
  /\ Accounted(Table, entry, generation)
  /\ \A l \in Lanes : \A e \in active[l] : entry[e].state = "running"
  /\ \A e \in Entries : e >= nextSequence => entry[e].state = "new"
  /\ Members \subseteq present
  /\ \A l \in Lanes \ present : active[l] = {} /\ queue[l] = <<>>

\* What a pump does: it moves a first part of the queue to the active set.
LEMMA DrainEffect ==
  ASSUME NEW s \in LaneTable, NEW l \in Lanes
  PROVE  \E n \in 0 .. Len(s.queue[l]) :
           /\ StopsAt(s, l, n)
           /\ \A k \in 0 .. n - 1 : ~StopsAt(s, l, k)
           /\ Drain(s, l).queue
                = [s.queue EXCEPT ![l] = SubSeq(s.queue[l], n + 1, Len(s.queue[l]))]
           /\ Drain(s, l).active
                = [s.active EXCEPT ![l] = s.active[l] \union {s.queue[l][i] : i \in 1 .. n}]
           /\ Drain(s, l).width = s.width /\ Drain(s, l).group = s.group
<1>1. s.queue[l] \in Seq(Entries) /\ Len(s.queue[l]) \in Nat
  BY DEF LaneTable
<1>2. /\ Admitted(s, l) \in 0 .. Len(s.queue[l])
      /\ StopsAt(s, l, Admitted(s, l))
      /\ \A k \in 0 .. Admitted(s, l) - 1 : ~StopsAt(s, l, k)
  BY <1>1, AdmittedProperties
<1> QED
  BY <1>2 DEF Drain, LaneTable

\* In short: it takes the first n entries of the queue and runs them.
LEMMA DrainTakes ==
  ASSUME NEW s \in LaneTable, NEW l \in Lanes
  PROVE  \E n \in 0 .. Len(s.queue[l]) :
           /\ Drain(s, l).queue
                = [s.queue EXCEPT ![l] = SubSeq(s.queue[l], n + 1, Len(s.queue[l]))]
           /\ Drain(s, l).active
                = [s.active EXCEPT ![l] = s.active[l] \union {s.queue[l][i] : i \in 1 .. n}]
<1>1. PICK n \in 0 .. Len(s.queue[l]) :
        /\ StopsAt(s, l, n)
        /\ \A k \in 0 .. n - 1 : ~StopsAt(s, l, k)
        /\ Drain(s, l).queue
             = [s.queue EXCEPT ![l] = SubSeq(s.queue[l], n + 1, Len(s.queue[l]))]
        /\ Drain(s, l).active
             = [s.active EXCEPT ![l] = s.active[l] \union {s.queue[l][i] : i \in 1 .. n}]
        /\ Drain(s, l).width = s.width /\ Drain(s, l).group = s.group
  BY DrainEffect, Zenon
<1> QED
  BY <1>1, Zenon

\* It leaves the other lanes alone, and cannot start anything in an empty one.
LEMMA DrainElsewhere ==
  ASSUME NEW s \in LaneTable, NEW l \in Lanes, NEW k \in Lanes
  PROVE  /\ k # l => /\ Drain(s, l).queue[k] = s.queue[k]
                     /\ Drain(s, l).active[k] = s.active[k]
         /\ s.queue[k] = <<>> => /\ Drain(s, l).queue[k] = s.queue[k]
                                /\ Drain(s, l).active[k] = s.active[k]
         /\ s.active[k] \subseteq Drain(s, l).active[k]
         /\ Drain(s, l).active[k] \subseteq s.active[k] \union Listed(s.queue[k])
<1>1. s.queue \in [Lanes -> Seq(Entries)] /\ s.active \in [Lanes -> SUBSET Entries]
  BY DEF LaneTable
<1>2. PICK n \in 0 .. Len(s.queue[l]) :
        /\ Drain(s, l).queue
             = [s.queue EXCEPT ![l] = SubSeq(s.queue[l], n + 1, Len(s.queue[l]))]
        /\ Drain(s, l).active
             = [s.active EXCEPT ![l] = s.active[l] \union {s.queue[l][i] : i \in 1 .. n}]
  BY DrainTakes, Zenon
<1>3. CASE k # l
  <2>1. Drain(s, l).queue[k] = s.queue[k] /\ Drain(s, l).active[k] = s.active[k]
    BY <1>1, <1>2, <1>3, Zenon
  <2> QED
    BY <1>3, <2>1
<1>4. CASE k = l
  <2>1. /\ Drain(s, l).queue[l] = SubSeq(s.queue[l], n + 1, Len(s.queue[l]))
        /\ Drain(s, l).active[l] = s.active[l] \union {s.queue[l][i] : i \in 1 .. n}
    BY <1>1, <1>2, Zenon
  <2>2. {s.queue[k][i] : i \in 1 .. n} \subseteq Listed(s.queue[k])
    BY <1>1, <1>4 DEF Listed
  <2>3. CASE s.queue[k] = <<>>
    <3>1. n = 0 /\ Len(s.queue[k]) = 0
      BY <1>4, <2>3
    <3>2. SubSeq(s.queue[k], n + 1, Len(s.queue[k])) = <<>> /\ {s.queue[k][i] : i \in 1 .. n} = {}
      BY <2>3, <3>1
    <3> QED
      BY <1>4, <2>1, <2>3, <3>2
  <2> QED
    BY <1>4, <2>1, <2>2, <2>3
<1> QED
  BY <1>3, <1>4

\* The first n entries of a queue, and the rest.
LEMMA Halves ==
  ASSUME NEW q \in Seq(Entries), NEW n \in 0 .. Len(q)
  PROVE  /\ \A i \in 1 .. n : q[i] \in Listed(q)
         /\ Len(SubSeq(q, n + 1, Len(q))) = Len(q) - n
         /\ \A i \in 1 .. Len(q) - n : SubSeq(q, n + 1, Len(q))[i] = q[n + i]
         /\ Listed(SubSeq(q, n + 1, Len(q))) \subseteq Listed(q)
         /\ \A e \in Listed(q) :
              e \in {q[i] : i \in 1 .. n} \/ e \in Listed(SubSeq(q, n + 1, Len(q)))
<1> DEFINE r == SubSeq(q, n + 1, Len(q))
<1>1. Len(q) \in Nat
  OBVIOUS
<1>2. Len(r) = Len(q) - n /\ \A i \in 1 .. Len(q) - n : r[i] = q[n + i]
  BY <1>1
<1> HIDE DEF r
<1>3. Listed(r) \subseteq Listed(q)
  BY <1>1, <1>2 DEF Listed
<1>4. ASSUME NEW e \in Listed(q)
      PROVE  e \in {q[i] : i \in 1 .. n} \/ e \in Listed(r)
  <2>1. PICK i \in 1 .. Len(q) : e = q[i]
    BY <1>4 DEF Listed
  <2>2. CASE i <= n
    BY <2>1, <2>2
  <2>3. CASE i > n
    <3>1. i - n \in 1 .. Len(r) /\ r[i - n] = q[n + (i - n)] /\ n + (i - n) = i
      BY <1>1, <1>2, <2>3
    <3> QED
      BY <2>1, <3>1 DEF Listed
  <2> QED
    BY <1>1, <2>2, <2>3
<1>5. \A i \in 1 .. n : q[i] \in Listed(q)
  BY <1>1 DEF Listed
<1> QED
  BY <1>2, <1>3, <1>4, <1>5 DEF r

\* A pump loses no entry and starts none twice.
LEMMA DrainTidy ==
  ASSUME NEW q \in Seq(Entries), NEW n \in 0 .. Len(q), NEW a \in SUBSET Entries,
         NEW ent, NEW g, NEW l, Tidy(q, a, ent, g, l)
  PROVE  Tidy(SubSeq(q, n + 1, Len(q)), a \union {q[i] : i \in 1 .. n}, ent, g, l)
<1> DEFINE r == SubSeq(q, n + 1, Len(q))
           b == {q[i] : i \in 1 .. n}
<1>1. /\ Len(q) \in Nat /\ Len(r) = Len(q) - n
      /\ \A i \in 1 .. Len(r) : r[i] = q[n + i] /\ n + i \in 1 .. Len(q)
      /\ b \subseteq Listed(q) /\ Listed(r) \subseteq Listed(q)
      /\ \A e \in Listed(q) : e \in b \/ e \in Listed(r)
  BY Halves
<1>2. \A i \in 1 .. n : i \in 1 .. Len(q)
  BY <1>1
<1>3. ASSUME NEW e \in b PROVE e \notin Listed(r)
  <2>1. PICK i \in 1 .. n : e = q[i]
    OBVIOUS
  <2>2. ASSUME NEW j \in 1 .. Len(r), e = r[j] PROVE FALSE
    <3>1. i = n + j
      BY <1>1, <1>2, <2>1, <2>2 DEF Tidy
    <3> QED
      BY <1>1, <3>1
  <2> HIDE DEF r
  <2> QED
    BY <2>2 DEF Listed
<1>4. ASSUME NEW i \in 1 .. Len(r), NEW j \in 1 .. Len(r), r[i] = r[j] PROVE i = j
  <2> HIDE DEF r
  <2>1. q[n + i] = q[n + j] /\ n + i \in 1 .. Len(q) /\ n + j \in 1 .. Len(q)
    BY <1>1, <1>4
  <2>2. i \in Nat /\ j \in Nat /\ n \in Nat
    BY <1>1
  <2>3. n + i = n + j
    BY <2>1 DEF Tidy
  <2> QED
    BY <2>2, <2>3
<1> HIDE DEF r, b
<1>5. ASSUME NEW e \in Listed(r)
      PROVE  ent[e].state = "queued" /\ ent[e].lane = l /\ e \notin a \union b
  BY <1>1, <1>3 DEF Tidy
<1>6. ASSUME NEW e \in a \union b
      PROVE  /\ ent[e].lane = l
             /\ \/ ent[e].state = "queued"
                \/ ent[e].state = "running" /\ ent[e].generation = g
  BY <1>1, <1>6 DEF Tidy
<1>7. ASSUME NEW e \in Entries, ent[e].lane = l
      PROVE  /\ ent[e].state = "queued" => e \in a \union b \/ e \in Listed(r)
             /\ ent[e].state = "running" => /\ ent[e].generation <= g
                                            /\ ent[e].generation = g => e \in a \union b
  BY <1>1, <1>7 DEF Tidy
<1>8. Tidy(r, a \union b, ent, g, l)
  BY <1>4, <1>5, <1>6, <1>7 DEF Tidy
<1> QED
  BY <1>8 DEF r, b

\* The same of lane tables, for one pump and for the sibling drain.
LEMMA DrainAccounted ==
  ASSUME NEW s \in LaneTable, NEW l \in Lanes, NEW ent, NEW gen, Accounted(s, ent, gen)
  PROVE  Accounted(Drain(s, l), ent, gen)
<1>1. PICK n \in 0 .. Len(s.queue[l]) :
        /\ Drain(s, l).queue
             = [s.queue EXCEPT ![l] = SubSeq(s.queue[l], n + 1, Len(s.queue[l]))]
        /\ Drain(s, l).active
             = [s.active EXCEPT ![l] = s.active[l] \union {s.queue[l][i] : i \in 1 .. n}]
  BY DrainTakes, Zenon
<1>2. s.queue \in [Lanes -> Seq(Entries)] /\ s.active \in [Lanes -> SUBSET Entries]
  BY DEF LaneTable
<1>3. ASSUME NEW k \in Lanes
      PROVE  Tidy(Drain(s, l).queue[k], Drain(s, l).active[k], ent, gen[k], k)
  <2>1. Tidy(s.queue[k], s.active[k], ent, gen[k], k)
    BY DEF Accounted
  <2>2. CASE k = l
    <3>1. Tidy(SubSeq(s.queue[l], n + 1, Len(s.queue[l])),
               s.active[l] \union {s.queue[l][i] : i \in 1 .. n}, ent, gen[k], k)
      BY <1>2, <2>1, <2>2, DrainTidy
    <3>2. /\ Drain(s, l).queue[k] = SubSeq(s.queue[l], n + 1, Len(s.queue[l]))
          /\ Drain(s, l).active[k] = s.active[l] \union {s.queue[l][i] : i \in 1 .. n}
      BY <1>1, <1>2, <2>2, Zenon
    <3> QED
      BY <3>1, <3>2, Zenon
  <2>3. CASE k # l
    <3>1. Drain(s, l).queue[k] = s.queue[k] /\ Drain(s, l).active[k] = s.active[k]
      BY <1>1, <1>2, <2>3, Zenon
    <3> QED
      BY <2>1, <3>1, Zenon
  <2> QED
    BY <2>2, <2>3
<1> QED
  BY <1>3 DEF Accounted

LEMMA DrainSiblingsAccounted ==
  ASSUME NEW s \in LaneTable, NEW l \in Lanes, NEW ent, NEW gen, Accounted(s, ent, gen)
  PROVE  Accounted(DrainSiblings(s, l), ent, gen)
  BY DrainAccounted, LanesAssumption DEF DrainSiblings, Sibling, Members

\* Writing the table back turns the entries that were started into running ones.
LEMMA InstallAccounted ==
  ASSUME NEW s \in LaneTable, NEW ent \in EntryTable, NEW gen \in [Lanes -> Nat],
         Accounted(s, ent, gen), Install(s, ent, gen), generation' = gen
  PROVE  /\ Accounted(Table, entry, generation)'
         /\ \A l \in Lanes : \A e \in active'[l] : entry'[e].state = "running"
         /\ \A e \in Entries : ent[e].state = "new" => entry'[e] = ent[e]
<1> DEFINE Started(e) == ent[e].state = "queued" /\ e \in s.active[ent[e].lane]
<1>1. ASSUME NEW e \in Entries
      PROVE  entry'[e] = IF Started(e) THEN [ent[e] EXCEPT !.state = "running",
                                                           !.generation = gen[ent[e].lane]]
                         ELSE ent[e]
  BY DEF Install
<1>2. ASSUME NEW e \in Entries
      PROVE  /\ entry'[e].lane = ent[e].lane /\ ent[e].lane \in Lanes
             /\ Started(e) => /\ entry'[e].state = "running"
                              /\ entry'[e].generation = gen[ent[e].lane]
             /\ ~Started(e) => entry'[e] = ent[e]
  BY <1>1 DEF EntryTable
<1> HIDE DEF Started
<1>3. queue' = s.queue /\ active' = s.active
  BY DEF Install
<1>4. ASSUME NEW l \in Lanes
      PROVE  /\ Tidy(s.queue[l], s.active[l], entry', gen[l], l)
             /\ \A e \in s.active[l] : entry'[e].state = "running"
  <2>1. s.queue[l] \in Seq(Entries) /\ s.active[l] \in SUBSET Entries /\ gen[l] \in Nat
    BY DEF LaneTable
  <2>2. Listed(s.queue[l]) \subseteq Entries
    BY <2>1 DEF Listed
  <2>3. Tidy(s.queue[l], s.active[l], ent, gen[l], l)
    BY DEF Accounted
  <2>4. \A e \in Listed(s.queue[l]) : ~Started(e)
    BY <2>2, <2>3 DEF Tidy, Started
  <2>5. \A e \in s.active[l] : Started(e) \/ ent[e].state = "running"
    BY <2>1, <2>3 DEF Tidy, Started
  <2>6. \A e \in Entries : Started(e) => e \in s.active[ent[e].lane]
    BY DEF Started
  <2> QED
    BY <1>2, <2>1, <2>2, <2>3, <2>4, <2>5, <2>6 DEF Tidy
<1>5. \A e \in Entries : ent[e].state = "new" => ~Started(e)
  BY DEF Started
<1>6. Accounted(Table, entry, generation)' <=> Accounted(s, entry', gen)
  BY <1>3 DEF Accounted, Table
<1> QED
  BY <1>2, <1>3, <1>4, <1>5, <1>6 DEF Accounted

\* An insertion adds the one entry.
LEMMA InsertEntryEffect ==
  ASSUME NEW ent, NEW q \in Seq(Entries), NEW e \in Entries, e \notin Listed(q),
         \A i, j \in 1 .. Len(q) : q[i] = q[j] => i = j
  PROVE  /\ Listed(InsertEntry(ent, q, e)) = Listed(q) \union {e}
         /\ \A i, j \in 1 .. Len(InsertEntry(ent, q, e)) :
              InsertEntry(ent, q, e)[i] = InsertEntry(ent, q, e)[j] => i = j
<1> DEFINE At(i) == i = Len(q) + 1 \/ Outranks(ent, e, q[i])
           T == {i \in 1 .. Len(q) + 1 : At(i)}
           ok(i) == At(i) /\ \A j \in 1 .. i - 1 : ~Outranks(ent, e, q[j])
           at == CHOOSE i \in 1 .. Len(q) + 1 : ok(i)
           r == [j \in 1 .. Len(q) + 1 |->
                   IF j < at THEN q[j] ELSE IF j = at THEN e ELSE q[j - 1]]
<1>1. Len(q) \in Nat
  OBVIOUS
<1>2. Len(q) + 1 \in T
  BY <1>1
<1>3. T \subseteq Nat /\ T # {}
  BY <1>1, <1>2
<1> HIDE DEF T
<1>4. PICK i \in T : \A j \in T : i <= j
  BY <1>3, LeastNatural
<1> USE DEF T
<1>5. \A j \in 1 .. i - 1 : ~Outranks(ent, e, q[j])
  BY <1>1, <1>4
<1>6. \E j \in 1 .. Len(q) + 1 : ok(j)
  BY <1>4, <1>5
<1>7. at \in 1 .. Len(q) + 1
  BY <1>6
<1>8. InsertEntry(ent, q, e) = r
  BY DEF InsertEntry
<1> HIDE DEF at, T
<1>9. r \in Seq(Entries) /\ Len(r) = Len(q) + 1
  BY <1>1, <1>7
<1>10. \A j \in 1 .. Len(q) + 1 :
        /\ j < at => r[j] = q[j] /\ j \in 1 .. Len(q)
        /\ j = at => r[j] = e
        /\ j > at => r[j] = q[j - 1] /\ j - 1 \in 1 .. Len(q)
  BY <1>1, <1>7
<1> HIDE DEF r
<1>11. \A j \in 1 .. Len(q) : q[j] # e
  BY DEF Listed
<1>12. ASSUME NEW f \in Listed(r) PROVE f \in Listed(q) \union {e}
  <2>1. PICK j \in 1 .. Len(q) + 1 : f = r[j]
    BY <1>9 DEF Listed
  <2>2. j < at \/ j = at \/ j > at
    BY <1>1, <1>7
  <2> QED
    BY <1>10, <2>1, <2>2 DEF Listed
<1>13. ASSUME NEW f \in Listed(q) \union {e} PROVE f \in Listed(r)
  <2>1. CASE f = e
    BY <1>7, <1>9, <1>10, <2>1 DEF Listed
  <2>2. CASE f \in Listed(q)
    <3>1. PICK j \in 1 .. Len(q) : f = q[j]
      BY <2>2 DEF Listed
    <3>2. CASE j < at
      BY <1>1, <1>9, <1>10, <3>1, <3>2 DEF Listed
    <3>3. CASE j >= at
      <4>1. j + 1 \in 1 .. Len(q) + 1 /\ j + 1 > at /\ (j + 1) - 1 = j
        BY <1>1, <1>7, <3>3
      <4>2. r[j + 1] = q[j]
        BY <1>10, <4>1
      <4> QED
        BY <1>9, <3>1, <4>1, <4>2 DEF Listed
    <3> QED
      BY <1>1, <1>7, <3>2, <3>3
  <2> QED
    BY <2>1, <2>2
<1>14. ASSUME NEW k \in 1 .. Len(r), NEW j \in 1 .. Len(r), r[k] = r[j] PROVE k = j
  <2>1. k \in 1 .. Len(q) + 1 /\ j \in 1 .. Len(q) + 1
    BY <1>9
  <2>2. k \in Nat /\ j \in Nat /\ at \in Nat
    BY <1>1, <1>7, <2>1
  <2>3. CASE k = at
    <3>1. r[j] = e
      BY <1>10, <1>14, <2>1, <2>3
    <3>2. ~(j < at)
      BY <1>10, <1>11, <2>1, <3>1
    <3>3. ~(j > at)
      BY <1>10, <1>11, <2>1, <3>1
    <3> QED
      BY <2>2, <2>3, <3>2, <3>3
  <2>4. CASE j = at
    <3>1. r[k] = e
      BY <1>10, <1>14, <2>1, <2>4
    <3>2. ~(k < at)
      BY <1>10, <1>11, <2>1, <3>1
    <3>3. ~(k > at)
      BY <1>10, <1>11, <2>1, <3>1
    <3> QED
      BY <2>2, <2>4, <3>2, <3>3
  <2>5. CASE k < at /\ j < at
    BY <1>10, <1>14, <2>1, <2>5
  <2>6. CASE k > at /\ j > at
    <3>1. k - 1 = j - 1
      BY <1>10, <1>14, <2>1, <2>6
    <3> QED
      BY <2>2, <3>1
  <2>7. CASE k < at /\ j > at
    <3>1. k = j - 1
      BY <1>10, <1>14, <2>1, <2>7
    <3> QED
      BY <2>2, <2>7, <3>1
  <2>8. CASE k > at /\ j < at
    <3>1. k - 1 = j
      BY <1>10, <1>14, <2>1, <2>8
    <3> QED
      BY <2>2, <2>8, <3>1
  <2> QED
    BY <2>2, <2>3, <2>4, <2>5, <2>6, <2>7, <2>8
<1> QED
  BY <1>8, <1>12, <1>13, <1>14

LEMMA InitAccount == Init => AccountInv
<1> SUFFICES ASSUME Init PROVE AccountInv
  OBVIOUS
<1>1. \A e \in Entries : entry[e].state = "new"
  BY DEF Init
<1>2. \A l \in Lanes : queue[l] = <<>> /\ active[l] = {} /\ Listed(queue[l]) = {}
  BY DEF Init, Listed
<1>3. \A l \in Lanes : Tidy(queue[l], active[l], entry, generation[l], l)
  BY <1>1, <1>2 DEF Tidy
<1>4. Accounted(Table, entry, generation)
  BY <1>3 DEF Accounted, Table
<1>5. present = Members
  BY DEF Init
<1> QED
  BY <1>1, <1>2, <1>4, <1>5 DEF AccountInv

\* What a step that installs a table has to show for the accounting.
LEMMA AccountFromInstall ==
  ASSUME NEW s \in LaneTable, NEW ent \in EntryTable, NEW gen \in [Lanes -> Nat],
         Accounted(s, ent, gen), Install(s, ent, gen), generation' = gen,
         \A e \in Entries : e >= nextSequence' => ent[e].state = "new",
         Members \subseteq present',
         \A k \in Lanes \ present' : s.active[k] = {} /\ s.queue[k] = <<>>
  PROVE  AccountInv'
<1>1. /\ Accounted(Table, entry, generation)'
      /\ \A l \in Lanes : \A e \in active'[l] : entry'[e].state = "running"
      /\ \A e \in Entries : ent[e].state = "new" => entry'[e] = ent[e]
  BY InstallAccounted
<1>2. queue' = s.queue /\ active' = s.active
  BY DEF Install
<1>3. \A e \in Entries : e >= nextSequence' => entry'[e].state = "new"
  BY <1>1
<1> QED
  BY <1>1, <1>2, <1>3 DEF AccountInv

\* The parts of the invariant, lane by lane.
LEMMA Lanewise ==
  ASSUME TypeOK, AccountInv, NEW k \in Lanes
  PROVE  /\ queue[k] \in Seq(Entries) /\ active[k] \in SUBSET Entries
         /\ Listed(queue[k]) \subseteq Entries /\ generation[k] \in Nat
         /\ Tidy(queue[k], active[k], entry, generation[k], k)
         /\ \A e \in active[k] : entry[e].state = "running"
         /\ k \notin present => active[k] = {} /\ queue[k] = <<>>
         /\ Table.queue[k] = queue[k] /\ Table.active[k] = active[k]
<1>1. queue[k] \in Seq(Entries) /\ active[k] \in SUBSET Entries /\ generation[k] \in Nat
  BY DEF TypeOK
<1>2. Listed(queue[k]) \subseteq Entries
  BY <1>1 DEF Listed
<1> QED
  BY <1>1, <1>2 DEF AccountInv, Accounted, Table

\* An enqueue adds an entry that was new.
LEMMA EnqueueTable ==
  ASSUME TypeOK, AccountInv, NEW l \in Lanes, NEW p \in Priorities,
         NEW t \in TimeoutChoices, nextSequence <= MaxEntries, NEW ent, NEW s,
         ent = [entry EXCEPT ![nextSequence] = [lane |-> l, priority |-> p, timed |-> t,
                                                state |-> "queued", generation |-> 0]],
         s = [Table EXCEPT !.queue[l] = InsertEntry(ent, @, nextSequence)]
  PROVE  /\ nextSequence \in Entries /\ ent \in EntryTable /\ s \in LaneTable
         /\ Accounted(s, ent, generation)
<1> DEFINE e == nextSequence
           q == InsertEntry(ent, queue[l], e)
<1> USE BoundsAssumption
<1>1. e \in Entries /\ entry \in EntryTable /\ ent \in EntryTable /\ generation \in [Lanes -> Nat]
  BY DEF TypeOK, Entries, EntryTable, EntryStates
<1>2. /\ ent[e].lane = l /\ ent[e].state = "queued"
      /\ \A f \in Entries \ {e} : ent[f] = entry[f]
      /\ entry[e].state = "new"
  BY <1>1 DEF EntryTable, AccountInv, Entries
<1>3. queue[l] \in Seq(Entries) /\ active \in [Lanes -> SUBSET Entries] /\ queue \in [Lanes -> Seq(Entries)]
  BY DEF TypeOK
<1>4. \A k \in Lanes : /\ Tidy(queue[k], active[k], entry, generation[k], k)
                       /\ \A f \in active[k] : entry[f].state = "running"
                       /\ Listed(queue[k]) \subseteq Entries
  BY <1>3 DEF AccountInv, Accounted, Table, Listed
<1>5. \A k \in Lanes : e \notin Listed(queue[k]) /\ e \notin active[k]
  BY <1>2, <1>4 DEF Tidy
<1>6. /\ q \in Seq(Entries)
      /\ Listed(q) = Listed(queue[l]) \union {e}
      /\ \A i, j \in 1 .. Len(q) : q[i] = q[j] => i = j
  <2> HIDE DEF e
  <2>1. \A i, j \in 1 .. Len(queue[l]) : queue[l][i] = queue[l][j] => i = j
    BY <1>4 DEF Tidy
  <2>2. queue[l] \in Seq(Entries) /\ e \in Entries /\ e \notin Listed(queue[l])
    BY <1>1, <1>3, <1>5
  <2> HIDE BoundsAssumption
  <2>3. InsertEntry(ent, queue[l], e) \in Seq(Entries)
    BY <2>2, InsertEntryType, Zenon
  <2>4. ASSUME NEW table
        PROVE  /\ Listed(InsertEntry(table, queue[l], e)) = Listed(queue[l]) \union {e}
               /\ \A i, j \in 1 .. Len(InsertEntry(table, queue[l], e)) :
                    InsertEntry(table, queue[l], e)[i] = InsertEntry(table, queue[l], e)[j]
                      => i = j
    BY <2>1, <2>2, InsertEntryEffect
  <2> QED
    BY <2>3, <2>4
<1>7. /\ s.queue = [queue EXCEPT ![l] = q] /\ s.active = active
      /\ s \in LaneTable
  BY <1>3, <1>6, TableType DEF Table, LaneTable
<1> HIDE DEF e, q
<1>8. ASSUME NEW k \in Lanes PROVE Tidy(s.queue[k], s.active[k], ent, generation[k], k)
  <2>1. CASE k = l
    <3>1. s.queue[k] = q /\ s.active[k] = active[k]
      BY <1>3, <1>7, <2>1
    <3>2. /\ Tidy(queue[l], active[l], entry, generation[l], l)
          /\ Listed(queue[l]) \subseteq Entries /\ active[l] \subseteq Entries
          /\ e \notin active[l] /\ e \notin Listed(queue[l])
      BY <1>3, <1>4, <1>5
    <3>3. \A f \in Listed(q) :
            ent[f].state = "queued" /\ ent[f].lane = l /\ f \notin active[l]
      BY <1>2, <1>6, <3>2 DEF Tidy
    <3>4. \A f \in active[l] :
            /\ ent[f].lane = l
            /\ \/ ent[f].state = "queued"
               \/ ent[f].state = "running" /\ ent[f].generation = generation[l]
      BY <1>2, <3>2 DEF Tidy
    <3>5. ASSUME NEW f \in Entries, ent[f].lane = l
          PROVE  /\ ent[f].state = "queued" => f \in active[l] \/ f \in Listed(q)
                 /\ ent[f].state = "running" =>
                      /\ ent[f].generation <= generation[l]
                      /\ ent[f].generation = generation[l] => f \in active[l]
      <4>1. CASE f = e
        BY <1>2, <1>6, <4>1
      <4>2. CASE f # e
        BY <1>2, <1>6, <3>2, <3>5, <4>2 DEF Tidy
      <4> QED
        BY <4>1, <4>2
    <3>6. Tidy(q, active[l], ent, generation[l], l)
      BY <1>6, <3>3, <3>4, <3>5 DEF Tidy
    <3> QED
      BY <2>1, <3>1, <3>6
  <2>2. CASE k # l
    <3>1. s.queue[k] = queue[k] /\ s.active[k] = active[k]
      BY <1>3, <1>7, <2>2
    <3>2. /\ Tidy(queue[k], active[k], entry, generation[k], k)
          /\ Listed(queue[k]) \subseteq Entries /\ active[k] \subseteq Entries
          /\ e \notin active[k] /\ e \notin Listed(queue[k])
      BY <1>3, <1>4, <1>5
    <3>3. Tidy(queue[k], active[k], ent, generation[k], k)
      BY <1>2, <2>2, <3>2 DEF Tidy
    <3> QED
      BY <3>1, <3>3
  <2> QED
    BY <2>1, <2>2
<1>9. Accounted(s, ent, generation)
  BY <1>8 DEF Accounted
<1> QED
  BY <1>1, <1>7, <1>9 DEF e

LEMMA EnqueueAccount ==
  ASSUME TypeOK, AccountInv, NEW l \in Lanes, NEW p \in Priorities,
         NEW t \in TimeoutChoices, EnqueueCommandInLane(l, p, t)
  PROVE  AccountInv'
<1>1. PICK ent : ent = [entry EXCEPT ![nextSequence] =
                          [lane |-> l, priority |-> p, timed |-> t,
                           state |-> "queued", generation |-> 0]]
  OBVIOUS
<1>2. PICK s : s = [Table EXCEPT !.queue[l] = InsertEntry(ent, @, nextSequence)]
  OBVIOUS
<1>3. /\ Install(Drain(s, l), ent, generation) /\ generation' = generation
      /\ nextSequence <= MaxEntries /\ nextSequence' = nextSequence + 1
      /\ present' = present \union {l}
  BY <1>1, <1>2 DEF EnqueueCommandInLane
<1>4. /\ nextSequence \in Entries /\ ent \in EntryTable /\ s \in LaneTable
      /\ Accounted(s, ent, generation)
  BY <1>1, <1>2, <1>3, EnqueueTable
<1>5. Drain(s, l) \in LaneTable /\ Accounted(Drain(s, l), ent, generation)
  BY <1>4, DrainType, DrainAccounted
<1>6. ASSUME NEW f \in Entries, f >= nextSequence' PROVE ent[f].state = "new"
  <2>1. f # nextSequence /\ f >= nextSequence
    BY <1>3, <1>4, <1>6 DEF Entries
  <2>2. ent[f] = entry[f]
    BY <1>1, <2>1 DEF TypeOK
  <2> QED
    BY <2>1, <2>2 DEF AccountInv
<1>7. ASSUME NEW k \in Lanes \ present'
      PROVE  Drain(s, l).active[k] = {} /\ Drain(s, l).queue[k] = <<>>
  <2>1. k \in Lanes /\ k # l /\ queue[k] = <<>> /\ active[k] = {}
    BY <1>3, <1>7, Lanewise
  <2>2. s.queue[k] = queue[k] /\ s.active[k] = active[k]
    BY <1>2, <2>1 DEF Table, TypeOK
  <2> QED
    BY <1>4, <2>1, <2>2, DrainElsewhere
<1>8. Members \subseteq present' /\ generation \in [Lanes -> Nat]
  BY <1>3 DEF AccountInv, TypeOK
<1> QED
  BY <1>3, <1>4, <1>5, <1>6, <1>7, <1>8, AccountFromInstall

\* An entry that settles gives up its slot, if it still has one.
LEMMA TidySettled ==
  ASSUME NEW q \in Seq(Entries), NEW a \in SUBSET Entries, NEW ent \in EntryTable, NEW g,
         NEW l, NEW e \in Entries, Tidy(q, a, ent, g, l), ent[e].state = "running"
  PROVE  Tidy(q, a \ {e}, [ent EXCEPT ![e].state = "settled"], g, l)
<1> DEFINE new == [ent EXCEPT ![e].state = "settled"]
<1>1. Listed(q) \subseteq Entries
  BY DEF Listed
<1>2. /\ \A f \in Entries \ {e} : new[f] = ent[f]
      /\ new[e].state = "settled"
  BY DEF EntryTable
<1> HIDE DEF new
<1>3. \A f \in Listed(q) : new[f].state = "queued" /\ new[f].lane = l /\ f \notin a \ {e}
  BY <1>1, <1>2 DEF Tidy
<1>4. \A f \in a \ {e} : /\ new[f].lane = l
                         /\ \/ new[f].state = "queued"
                            \/ new[f].state = "running" /\ new[f].generation = g
  BY <1>2 DEF Tidy
<1>5. \A f \in Entries : new[f].lane = l =>
       /\ new[f].state = "queued" => f \in a \ {e} \/ f \in Listed(q)
       /\ new[f].state = "running" => /\ new[f].generation <= g
                                      /\ new[f].generation = g => f \in a \ {e}
  BY <1>2 DEF Tidy
<1>6. Tidy(q, a \ {e}, new, g, l)
  BY <1>3, <1>4, <1>5 DEF Tidy
<1> QED
  BY <1>6 DEF new

\* The lane table with the slot of e given back, the entry table with e settled.
Given(l, e) == [Table EXCEPT !.active[l] = @ \ {e}]
Ended(e) == [entry EXCEPT ![e].state = "settled"]

LEMMA SettleTable ==
  ASSUME TypeOK, AccountInv, NEW l \in Lanes, NEW e \in Entries, entry[e].state = "running",
         l = entry[e].lane, NEW ent, ent = Ended(e), NEW r, r = Given(l, e)
  PROVE  /\ r \in LaneTable /\ r.queue = queue /\ \A k \in Lanes : r.active[k] = active[k] \ {e}
         /\ Accounted(r, ent, generation)
<1>1. entry \in EntryTable
  BY DEF TypeOK, EntryTable
<1>2. \A k \in Lanes : Tidy(queue[k], active[k] \ {e}, ent, generation[k], k)
  BY <1>1, Lanewise, TidySettled DEF Ended
<1>3. /\ r \in LaneTable /\ r.queue = queue
      /\ r.active = [active EXCEPT ![l] = active[l] \ {e}]
  BY TableType DEF Given, Table, LaneTable
<1>4. \A k \in Lanes : r.active[k] = active[k] \ {e}
  <2>1. \A k \in Lanes \ {l} : e \notin active[k]
    BY Lanewise DEF Tidy
  <2>2. active \in [Lanes -> SUBSET Entries]
    BY DEF TypeOK
  <2>3. r.active = [active EXCEPT ![l] = active[l] \ {e}]
    BY <1>3
  <2>4. r.active[l] = active[l] \ {e} /\ \A k \in Lanes \ {l} : r.active[k] = active[k]
    BY <2>2, <2>3, Zenon
  <2> QED
    BY <2>1, <2>4
<1>5. Accounted(r, ent, generation)
  BY <1>2, <1>3, <1>4 DEF Accounted
<1> QED
  BY <1>3, <1>4, <1>5

\* A completion of the lane's generation returns its slot; a stale one has none.
LEMMA SettleAccount ==
  ASSUME TypeOK, AccountInv, NEW e \in Entries, Settle(e)
  PROVE  AccountInv'
<1>1. PICK ent : ent = [entry EXCEPT ![e].state = "settled"]
  OBVIOUS
<1>2. PICK l \in Lanes : l = entry[e].lane
  BY DEF TypeOK
<1>3. entry[e].state = "running" /\ nextSequence' = nextSequence /\ generation' = generation
  BY DEF Settle
<1>4. entry \in EntryTable /\ generation \in [Lanes -> Nat] /\ ent \in EntryTable
  <2>1. entry \in EntryTable /\ generation \in [Lanes -> Nat] /\ "settled" \in EntryStates
    BY DEF TypeOK, EntryTable, EntryStates
  <2> QED
    BY <1>1, <2>1, StateSet
<1>5. \A k \in Lanes : Tidy(queue[k], active[k] \ {e}, ent, generation[k], k)
  BY <1>3, <1>4, <1>1, Lanewise, TidySettled
<1>6. \A f \in Entries : f >= nextSequence' => ent[f].state = "new"
  <2>1. \A f \in Entries : entry[f].state = "new" => ent[f] = entry[f]
    BY <1>3, <1>4, <1>1
  <2> QED
    BY <1>3, <2>1 DEF AccountInv
<1>7. CASE entry[e].generation = generation[l]
  <2>1. PICK released : /\ released = [Table EXCEPT !.active[l] = @ \ {e}]
                        /\ Install(DrainSiblings(Drain(released, l), l), ent, generation)
                        /\ present' = IF Retires(Drain(released, l), l) THEN present \ {l}
                                      ELSE present
    BY <1>2, <1>7, <1>1 DEF Settle
  <2>2. /\ released \in LaneTable /\ released.queue = queue
        /\ \A k \in Lanes : released.active[k] = active[k] \ {e}
        /\ Accounted(released, ent, generation)
    <3>1. released = Given(l, e) /\ ent = Ended(e)
      BY <1>1, <2>1 DEF Given, Ended
    <3> QED
      BY <1>2, <1>3, <3>1, SettleTable
  <2>3. PICK pumped : pumped = Drain(released, l)
    OBVIOUS
  <2>4. pumped \in LaneTable /\ Accounted(pumped, ent, generation)
    BY <2>2, <2>3, DrainType, DrainAccounted
  <2>5. PICK s : s = DrainSiblings(pumped, l)
    OBVIOUS
  <2>6. s \in LaneTable /\ Accounted(s, ent, generation)
    BY <2>4, <2>5, DrainSiblingsType, DrainSiblingsAccounted
  <2>7. Members \subseteq present'
    BY <2>1, LanesAssumption DEF AccountInv, Retires, Members
  <2>8. ASSUME NEW k \in Lanes \ present' PROVE s.active[k] = {} /\ s.queue[k] = <<>>
    <3>1. k \in Lanes
      OBVIOUS
    <3>2. pumped.active[k] = {} /\ pumped.queue[k] = <<>>
      <4>1. CASE k \notin present
        <5>1. active[k] = {} /\ queue[k] = <<>>
          BY <3>1, <4>1, Lanewise
        <5>2. released.active[k] = {} /\ released.queue[k] = <<>>
          BY <2>2, <3>1, <5>1
        <5>3. released \in LaneTable
          BY <2>2
        <5> QED
          BY <2>3, <3>1, <5>2, <5>3, DrainElsewhere
      <4>2. CASE k \in present
        BY <2>1, <2>3, <4>2 DEF Retires
      <4> QED
        BY <4>1, <4>2
    <3>3. Sibling(l) \in Lanes
      BY LanesAssumption DEF Sibling
    <3>4. CASE s = pumped
      BY <3>2, <3>4
    <3>5. CASE s = Drain(pumped, Sibling(l))
      BY <2>4, <3>1, <3>2, <3>3, <3>5, DrainElsewhere
    <3> QED
      BY <2>5, <3>4, <3>5 DEF DrainSiblings
  <2>9. Install(s, ent, generation)
    BY <2>1, <2>3, <2>5
  <2> QED
    BY <1>3, <1>4, <1>6, <2>6, <2>7, <2>8, <2>9, AccountFromInstall
<1>8. CASE entry[e].generation # generation[l]
  <2>1. \A k \in Lanes : e \notin active[k]
    BY <1>2, <1>3, <1>8, Lanewise DEF Tidy
  <2>2. \A k \in Lanes : Tidy(queue[k], active[k], ent, generation[k], k)
    <3>1. \A k \in Lanes : active[k] \ {e} = active[k]
      BY <2>1
    <3> QED
      BY <1>5, <3>1
  <2>3. /\ entry' = ent
        /\ UNCHANGED <<queue, active, maxConcurrent, group, present>>
    BY <1>2, <1>8, <1>1 DEF Settle
  <2>4. \A k \in Lanes : \A f \in active[k] : ent[f].state = "running"
    BY <1>4, <1>1, <2>1, Lanewise
  <2>5. Accounted(Table, entry, generation)'
    BY <1>3, <2>2, <2>3 DEF Accounted, Table
  <2> QED
    BY <1>3, <1>6, <2>3, <2>4, <2>5 DEF AccountInv
<1> QED
  BY <1>7, <1>8

\* Clearing a lane clears what waits in it, and nothing else.
LEMMA ClearAccount ==
  ASSUME TypeOK, AccountInv, NEW l \in Lanes, ClearCommandLane(l)
  PROVE  AccountInv'
<1>1. /\ queue' = [queue EXCEPT ![l] = <<>>]
      /\ UNCHANGED <<active, maxConcurrent, generation, present, group, nextSequence>>
      /\ \A f \in Entries :
           entry'[f] = IF entry[f].state = "queued" /\ entry[f].lane = l
                       THEN [entry[f] EXCEPT !.state = "cleared"] ELSE entry[f]
  BY DEF ClearCommandLane
<1>2. \A f \in Entries :
        /\ entry'[f].lane = entry[f].lane /\ entry'[f].generation = entry[f].generation
        /\ entry[f].state = "queued" /\ entry[f].lane = l => entry'[f].state = "cleared"
        /\ ~(entry[f].state = "queued" /\ entry[f].lane = l) => entry'[f] = entry[f]
  <2>1. entry \in EntryTable
    BY DEF TypeOK, EntryTable
  <2> QED
    BY <1>1, <2>1 DEF EntryTable
<1>3. queue \in [Lanes -> Seq(Entries)]
  BY DEF TypeOK
<1>4. ASSUME NEW k \in Lanes
      PROVE  /\ Tidy(queue'[k], active[k], entry', generation[k], k)
             /\ \A f \in active[k] : entry'[f].state = "running"
             /\ k \notin present => queue'[k] = <<>>
  <2>1. /\ Tidy(queue[k], active[k], entry, generation[k], k)
        /\ \A f \in active[k] : entry[f].state = "running" /\ f \in Entries
        /\ Listed(queue[k]) \subseteq Entries
        /\ k \notin present => queue[k] = <<>>
    BY Lanewise
  <2>2. CASE k = l
    <3>1. queue'[k] = <<>> /\ Listed(queue'[k]) = {}
      BY <1>1, <1>3, <2>2 DEF Listed
    <3> QED
      BY <1>2, <2>1, <2>2, <3>1 DEF Tidy
  <2>3. CASE k # l
    <3>1. queue'[k] = queue[k]
      BY <1>1, <1>3, <2>3
    <3> QED
      BY <1>2, <2>1, <2>3, <3>1 DEF Tidy
  <2> QED
    BY <2>2, <2>3
<1>5. Accounted(Table, entry, generation)'
  BY <1>1, <1>4 DEF Accounted, Table
<1>6. \A f \in Entries : f >= nextSequence => entry'[f].state = "new"
  BY <1>2 DEF AccountInv
<1> QED
  BY <1>1, <1>4, <1>5, <1>6 DEF AccountInv

\* A lane that is reset forgets its tasks; none runs under the next generation yet.
LEMMA TidyReset ==
  ASSUME TypeOK, AccountInv, NEW k \in Lanes, NEW g \in Nat,
         g > generation[k] \/ (k \notin present /\ g = generation[k])
  PROVE  Tidy(queue[k], {}, entry, g, k)
<1>1. /\ Tidy(queue[k], active[k], entry, generation[k], k)
      /\ \A e \in active[k] : entry[e].state = "running"
      /\ k \notin present => active[k] = {}
      /\ generation[k] \in Nat /\ Listed(queue[k]) \subseteq Entries
  BY Lanewise
<1>2. \A e \in Entries : entry[e].generation \in Nat
  BY DEF TypeOK
<1>3. \A e \in Entries : entry[e].lane = k =>
        /\ entry[e].state = "queued" => e \in Listed(queue[k])
        /\ entry[e].state = "running" => entry[e].generation <= g /\ entry[e].generation # g
  BY <1>1, <1>2 DEF Tidy
<1> QED
  BY <1>1, <1>3 DEF Tidy

LEMMA ResetTable ==
  ASSUME TypeOK, AccountInv, NEW l \in Lanes, l \in present, NEW gen, gen = NextGeneration(l),
         NEW r, r = [Table EXCEPT !.active[l] = {}]
  PROVE  /\ gen \in [Lanes -> Nat] /\ r \in LaneTable /\ Accounted(r, entry, gen)
         /\ \A k \in Lanes \ present : r.queue[k] = <<>> /\ r.active[k] = {}
<1>1. generation \in [Lanes -> Nat] /\ active \in [Lanes -> SUBSET Entries]
  BY DEF TypeOK
<1>2. /\ gen \in [Lanes -> Nat] /\ gen[l] > generation[l]
      /\ \A k \in Lanes \ {l} : gen[k] = generation[k]
  BY <1>1 DEF NextGeneration
<1>3. /\ r \in LaneTable /\ r.queue = queue
      /\ r.active = [active EXCEPT ![l] = {}]
  BY TableType DEF Table, LaneTable
<1>4. ASSUME NEW k \in Lanes
      PROVE  /\ Tidy(r.queue[k], r.active[k], entry, gen[k], k)
             /\ k \notin present => r.queue[k] = <<>> /\ r.active[k] = {}
  <2>1. CASE k = l
    BY <1>1, <1>2, <1>3, <2>1, TidyReset
  <2>2. CASE k # l
    <3>1. r.queue[k] = queue[k] /\ r.active[k] = active[k] /\ gen[k] = generation[k]
      BY <1>1, <1>2, <1>3, <2>2
    <3> QED
      BY <3>1, Lanewise
  <2> QED
    BY <2>1, <2>2
<1> QED
  BY <1>2, <1>3, <1>4 DEF Accounted

LEMMA ResetLaneAccount ==
  ASSUME TypeOK, AccountInv, NEW l \in Lanes, ResetCommandLane(l)
  PROVE  AccountInv'
<1>1. PICK gen : gen = NextGeneration(l)
  OBVIOUS
<1>2. PICK released : released = [Table EXCEPT !.active[l] = {}]
  OBVIOUS
<1>3. /\ l \in present /\ generation' = gen
      /\ Install(DrainSiblings(Drain(released, l), l), entry, gen)
      /\ UNCHANGED <<present, nextSequence>>
  BY <1>1, <1>2 DEF ResetCommandLane
<1>4. /\ gen \in [Lanes -> Nat] /\ released \in LaneTable /\ Accounted(released, entry, gen)
      /\ \A k \in Lanes \ present : released.queue[k] = <<>> /\ released.active[k] = {}
  BY <1>1, <1>2, <1>3, ResetTable
<1>5. PICK pumped : pumped = Drain(released, l)
  OBVIOUS
<1>6. pumped \in LaneTable /\ Accounted(pumped, entry, gen)
  BY <1>4, <1>5, DrainType, DrainAccounted
<1>7. PICK s : s = DrainSiblings(pumped, l)
  OBVIOUS
<1>8. s \in LaneTable /\ Accounted(s, entry, gen)
  BY <1>6, <1>7, DrainSiblingsType, DrainSiblingsAccounted
<1>9. ASSUME NEW k \in Lanes \ present PROVE s.active[k] = {} /\ s.queue[k] = <<>>
  <2>1. k \in Lanes /\ released.active[k] = {} /\ released.queue[k] = <<>>
    BY <1>4
  <2>2. pumped.active[k] = {} /\ pumped.queue[k] = <<>>
    <3>1. released \in LaneTable
      BY <1>4
    <3> QED
      BY <1>5, <2>1, <3>1, DrainElsewhere
  <2>3. Sibling(l) \in Lanes
    BY LanesAssumption DEF Sibling
  <2>4. CASE s = Drain(pumped, Sibling(l))
    BY <1>6, <2>1, <2>2, <2>3, <2>4, DrainElsewhere
  <2> QED
    BY <1>7, <2>2, <2>4 DEF DrainSiblings
<1>10. entry \in EntryTable
  BY DEF TypeOK, EntryTable
<1>11. \A e \in Entries : e >= nextSequence' => entry[e].state = "new"
  BY <1>3 DEF AccountInv
<1>12. Members \subseteq present'
  BY <1>3 DEF AccountInv
<1>13. Install(s, entry, gen)
  BY <1>3, <1>5, <1>7
<1> QED
  BY <1>3, <1>4, <1>8, <1>9, <1>10, <1>11, <1>12, <1>13, AccountFromInstall

LEMMA ResetAllTable ==
  ASSUME TypeOK, AccountInv, NEW gen, NEW r,
         gen = [l \in Lanes |-> IF l \in present THEN generation[l] + 1 ELSE generation[l]],
         r = [Table EXCEPT !.active = [l \in Lanes |-> {}]]
  PROVE  /\ gen \in [Lanes -> Nat] /\ r \in LaneTable /\ Accounted(r, entry, gen)
         /\ r.queue = queue /\ \A k \in Lanes : r.active[k] = {}
<1>1. generation \in [Lanes -> Nat]
  BY DEF TypeOK
<1>2. /\ gen \in [Lanes -> Nat]
      /\ \A k \in Lanes : /\ k \in present => gen[k] > generation[k]
                          /\ k \notin present => gen[k] = generation[k]
  BY <1>1
<1>3. r \in LaneTable
  BY TableType DEF Table, LaneTable
<1>4. r.queue = queue /\ \A k \in Lanes : r.active[k] = {}
  BY DEF Table
<1>5. ASSUME NEW k \in Lanes PROVE Tidy(r.queue[k], r.active[k], entry, gen[k], k)
  BY <1>2, <1>4, TidyReset
<1> QED
  BY <1>2, <1>3, <1>4, <1>5 DEF Accounted

LEMMA ResetAllAccount ==
  ASSUME TypeOK, AccountInv, NEW first \in Members, ResetAllLanes(first)
  PROVE  AccountInv'
<1> DEFINE Gen == [l \in Lanes |-> IF l \in present THEN generation[l] + 1
                                                   ELSE generation[l]]
           Released == [Table EXCEPT !.active = [l \in Lanes |-> {}]]
           Merged(grouped, alone) ==
             [grouped EXCEPT
                !.queue = [l \in Lanes |-> IF l \in Members THEN grouped.queue[l]
                                           ELSE alone[l].queue[l]],
                !.active = [l \in Lanes |-> IF l \in Members THEN grouped.active[l]
                                            ELSE alone[l].active[l]]]
<1>1. PICK gen : gen = Gen
  OBVIOUS
<1>2. PICK released : released = Released
  OBVIOUS
<1>3. PICK grouped : grouped = Drain(Drain(released, first), Sibling(first))
  OBVIOUS
<1>4. PICK alone : alone = [l \in Lanes |-> Drain(released, l)]
  OBVIOUS
<1>5. PICK s : s = Merged(grouped, alone)
  OBVIOUS
<1>6. /\ generation' = gen /\ Install(s, entry, gen)
      /\ UNCHANGED <<present, nextSequence>>
  BY <1>1, <1>2, <1>3, <1>4, <1>5 DEF ResetAllLanes
<1>7. first \in Lanes /\ Sibling(first) \in Lanes
  BY LanesAssumption DEF Members, Sibling
<1>8. /\ gen \in [Lanes -> Nat] /\ released \in LaneTable /\ Accounted(released, entry, gen)
      /\ released.queue = queue /\ \A k \in Lanes : released.active[k] = {}
  BY <1>1, <1>2, ResetAllTable
<1> HIDE DEF Gen, Released
<1>9. grouped \in LaneTable /\ Accounted(grouped, entry, gen)
  BY <1>3, <1>7, <1>8, DrainType, DrainAccounted
<1>10. \A k \in Lanes : /\ alone[k] = Drain(released, k)
                        /\ alone[k] \in LaneTable /\ Accounted(alone[k], entry, gen)
  BY <1>4, <1>8, DrainType, DrainAccounted
<1>11. /\ s \in LaneTable
       /\ \A k \in Lanes :
            /\ k \in Members => s.queue[k] = grouped.queue[k] /\ s.active[k] = grouped.active[k]
            /\ k \notin Members => s.queue[k] = alone[k].queue[k] /\ s.active[k] = alone[k].active[k]
  <2>1. /\ s.queue = [k \in Lanes |-> IF k \in Members THEN grouped.queue[k]
                                      ELSE alone[k].queue[k]]
        /\ s.active = [k \in Lanes |-> IF k \in Members THEN grouped.active[k]
                                       ELSE alone[k].active[k]]
    BY <1>5, <1>9 DEF LaneTable
  <2>2. /\ grouped.queue \in [Lanes -> Seq(Entries)]
        /\ grouped.active \in [Lanes -> SUBSET Entries]
        /\ grouped.width \in [Lanes -> Nat] /\ grouped.group \in Group
    BY <1>9 DEF LaneTable
  <2>3. \A k \in Lanes : /\ alone[k].queue \in [Lanes -> Seq(Entries)]
                         /\ alone[k].active \in [Lanes -> SUBSET Entries]
    BY <1>10 DEF LaneTable
  <2>4. s.queue \in [Lanes -> Seq(Entries)] /\ s.active \in [Lanes -> SUBSET Entries]
    BY <2>1, <2>2, <2>3
  <2>5. s \in LaneTable
    <3>1. PICK q, a : q = s.queue /\ a = s.active
      OBVIOUS
    <3>2. s = [queue |-> q, active |-> a, width |-> grouped.width, group |-> grouped.group]
      BY <1>5, <1>9, <3>1 DEF LaneTable
    <3>3. q \in [Lanes -> Seq(Entries)] /\ a \in [Lanes -> SUBSET Entries]
      BY <2>4, <3>1
    <3> QED
      BY <2>2, <3>2, <3>3 DEF LaneTable
  <2> QED
    BY <2>1, <2>5
<1>12. ASSUME NEW k \in Lanes PROVE Tidy(s.queue[k], s.active[k], entry, gen[k], k)
  <2>1. CASE k \in Members
    BY <1>9, <1>11, <2>1 DEF Accounted
  <2>2. CASE k \notin Members
    BY <1>10, <1>11, <2>2 DEF Accounted
  <2> QED
    BY <2>1, <2>2
<1>13. Accounted(s, entry, gen)
  BY <1>12 DEF Accounted
<1>14. Members \subseteq present'
  BY <1>6 DEF AccountInv
<1>15. ASSUME NEW k \in Lanes \ present' PROVE s.active[k] = {} /\ s.queue[k] = <<>>
  <2>1. k \in Lanes /\ k \notin present /\ k \notin Members
    BY <1>6, <1>14, <1>15
  <2>2. released.queue[k] = <<>> /\ released.active[k] = {}
    BY <1>8, <2>1, Lanewise
  <2>3. Drain(released, k).queue[k] = <<>> /\ Drain(released, k).active[k] = {}
    BY <1>8, <2>1, <2>2, DrainElsewhere
  <2> QED
    BY <1>10, <1>11, <2>1, <2>3
<1>16. entry \in EntryTable
  BY DEF TypeOK, EntryTable
<1>17. \A e \in Entries : e >= nextSequence' => entry[e].state = "new"
  BY <1>6 DEF AccountInv
<1> QED
  BY <1>6, <1>8, <1>11, <1>13, <1>14, <1>15, <1>16, <1>17, AccountFromInstall

\* A publication pumps the two lanes it configures, which exist.
LEMMA PublishAccount ==
  ASSUME TypeOK, AccountInv, NEW hooks \in BOOLEAN, PublishLaneConfiguration(hooks)
  PROVE  AccountInv'
<1>1. PICK s1 : s1 = Drain(Published(hooks), CronNested)
  OBVIOUS
<1>2. PICK s : s = Drain(s1, HookDispatch)
  OBVIOUS
<1>3. /\ Install(s, entry, generation) /\ generation' = generation
      /\ nextSequence' = nextSequence /\ present' = present \union Members
  BY <1>1, <1>2 DEF PublishLaneConfiguration
<1>4. Published(hooks) \in LaneTable
  BY PublishedType
<1>5. Published(hooks).queue = queue /\ Published(hooks).active = active
  BY DEF Published, Table
<1>6. Accounted(Published(hooks), entry, generation)
  BY <1>5 DEF AccountInv, Accounted, Table
<1>7. CronNested \in Lanes /\ HookDispatch \in Lanes
  BY LanesAssumption
<1>8. s1 \in LaneTable /\ Accounted(s1, entry, generation)
  BY <1>1, <1>4, <1>6, <1>7, DrainType, DrainAccounted
<1>9. s \in LaneTable /\ Accounted(s, entry, generation)
  BY <1>2, <1>7, <1>8, DrainType, DrainAccounted
<1>10. ASSUME NEW k \in Lanes \ present' PROVE s.active[k] = {} /\ s.queue[k] = <<>>
  <2>1. k \in Lanes /\ active[k] = {} /\ queue[k] = <<>>
    BY <1>3, <1>10, Lanewise
  <2>2. Published(hooks).active[k] = {} /\ Published(hooks).queue[k] = <<>>
    BY <1>5, <2>1
  <2>3. s1.active[k] = {} /\ s1.queue[k] = <<>>
    BY <1>1, <1>4, <1>7, <2>1, <2>2, DrainElsewhere
  <2>4. s1 \in LaneTable
    BY <1>8
  <2> QED
    BY <1>2, <1>7, <2>1, <2>3, <2>4, DrainElsewhere
<1>11. entry \in EntryTable /\ generation \in [Lanes -> Nat]
  BY DEF TypeOK, EntryTable
<1>12. \A e \in Entries : e >= nextSequence' => entry[e].state = "new"
  BY <1>3 DEF AccountInv
<1>13. Members \subseteq present'
  BY <1>3
<1> QED
  BY <1>3, <1>9, <1>10, <1>11, <1>12, <1>13, AccountFromInstall

LEMMA SetConcurrencyAccount ==
  ASSUME TypeOK, AccountInv, NEW l \in FixedLanes, NEW width \in Widths,
         SetCommandLaneConcurrency(l, width)
  PROVE  AccountInv'
<1>1. PICK r : r = [Table EXCEPT !.width[l] = width]
  OBVIOUS
<1>2. PICK s : s = Drain(r, l)
  OBVIOUS
<1>3. /\ Install(s, entry, generation) /\ generation' = generation
      /\ nextSequence' = nextSequence /\ present' = present \union {l}
  BY <1>1, <1>2 DEF SetCommandLaneConcurrency
<1>4. l \in Lanes /\ width \in Nat
  BY BudgetAssumption DEF FixedLanes
<1>5. r \in LaneTable
  BY <1>1, <1>4, TableType DEF Table, LaneTable
<1>6. r.queue = queue /\ r.active = active
  BY <1>1 DEF Table
<1>7. Accounted(r, entry, generation)
  BY <1>6 DEF AccountInv, Accounted, Table
<1>8. s \in LaneTable /\ Accounted(s, entry, generation)
  BY <1>2, <1>4, <1>5, <1>7, DrainType, DrainAccounted
<1>9. ASSUME NEW k \in Lanes \ present' PROVE s.active[k] = {} /\ s.queue[k] = <<>>
  <2>1. k \in Lanes /\ active[k] = {} /\ queue[k] = <<>>
    BY <1>3, <1>9, Lanewise
  <2>2. r.active[k] = {} /\ r.queue[k] = <<>>
    BY <1>6, <2>1
  <2> QED
    BY <1>2, <1>4, <1>5, <2>1, <2>2, DrainElsewhere
<1>10. entry \in EntryTable /\ generation \in [Lanes -> Nat]
  BY DEF TypeOK, EntryTable
<1>11. \A e \in Entries : e >= nextSequence' => entry[e].state = "new"
  BY <1>3 DEF AccountInv
<1>12. Members \subseteq present'
  BY <1>3 DEF AccountInv
<1> QED
  BY <1>3, <1>8, <1>9, <1>10, <1>11, <1>12, AccountFromInstall

LEMMA NextAccount == TypeOK /\ AccountInv /\ [Next]_vars => AccountInv'
<1> SUFFICES ASSUME TypeOK, AccountInv, [Next]_vars PROVE AccountInv'
  OBVIOUS
<1>1. ASSUME NEW l \in Lanes, NEW p \in Priorities, NEW t \in TimeoutChoices,
             EnqueueCommandInLane(l, p, t)
      PROVE  AccountInv'
  BY <1>1, EnqueueAccount
<1>2. ASSUME NEW e \in Entries, Settle(e) PROVE AccountInv'
  BY <1>2, SettleAccount
<1>3. ASSUME NEW l \in Lanes, ClearCommandLane(l) \/ ResetCommandLane(l) PROVE AccountInv'
  BY <1>3, ClearAccount, ResetLaneAccount
<1>4. ASSUME NEW l \in Members, ResetAllLanes(l) PROVE AccountInv'
  BY <1>4, ResetAllAccount
<1>5. ASSUME UNCHANGED <<queue, active, maxConcurrent, generation, present, group, entry,
                         nextSequence>>
      PROVE  AccountInv'
  BY <1>5 DEF AccountInv, Accounted, Table
<1>6. ASSUME NEW l \in FixedLanes, NEW width \in Widths, SetCommandLaneConcurrency(l, width)
      PROVE  AccountInv'
  BY <1>6, SetConcurrencyAccount
<1>7. ASSUME NEW hooks \in BOOLEAN, PublishLaneConfiguration(hooks) PROVE AccountInv'
  BY <1>7, PublishAccount
<1>8. MarkGatewayDraining \/ (\E w \in Waiters : WaitForActiveTasks(w) \/ WaiterTimeout(w))
        \/ UNCHANGED vars
      => UNCHANGED <<queue, active, maxConcurrent, generation, present, group, entry, nextSequence>>
  BY DEF MarkGatewayDraining, WaitForActiveTasks, WaiterTimeout, vars
<1> QED
  BY <1>1, <1>2, <1>3, <1>4, <1>5, <1>6, <1>7, <1>8 DEF Next

LEMMA AccountInvariance == Spec => [](TypeOK /\ AccountInv)
<1>1. TypeOK /\ AccountInv /\ [Next]_vars => (TypeOK /\ AccountInv)'
  BY NextType, NextAccount
<1>2. Init => TypeOK /\ AccountInv
  BY InitType, InitAccount
<1> QED
  BY <1>1, <1>2, PTL DEF Spec

\* Every unsettled entry is where its state says and nowhere else: the slots of a lane
\* are the tasks of its present generation, and no pump, clear or reset loses or
\* doubles an entry, for any lanes, widths and number of entries.
THEOREM EntriesKept == Spec => []EntriesAccounted
<1>1. TypeOK /\ AccountInv => EntriesAccounted
  <2> SUFFICES ASSUME TypeOK, AccountInv PROVE EntriesAccounted
    OBVIOUS
  <2>1. ASSUME NEW l \in Lanes
        PROVE  active[l] = {e \in Entries : /\ entry[e].state = "running"
                                            /\ entry[e].lane = l
                                            /\ entry[e].generation = generation[l]}
    BY Lanewise DEF Tidy
  <2>2. ASSUME NEW e \in Entries, NEW l \in Lanes
        PROVE  Cardinality({i \in DOMAIN queue[l] : queue[l][i] = e})
                 = IF entry[e].state = "queued" /\ entry[e].lane = l THEN 1 ELSE 0
    <3> DEFINE At == {i \in DOMAIN queue[l] : queue[l][i] = e}
    <3>1. DOMAIN queue[l] = 1 .. Len(queue[l])
      BY Lanewise
    <3>2. /\ Tidy(queue[l], active[l], entry, generation[l], l)
          /\ \A f \in active[l] : entry[f].state = "running"
      BY Lanewise
    <3>3. CASE entry[e].state = "queued" /\ entry[e].lane = l
      <4>1. e \in Listed(queue[l])
        BY <3>2, <3>3 DEF Tidy
      <4>2. PICK i \in 1 .. Len(queue[l]) : queue[l][i] = e
        BY <4>1 DEF Listed
      <4>3. At = {i}
        BY <3>1, <3>2, <4>2 DEF Tidy
      <4> HIDE DEF At
      <4>4. Cardinality(At) = 1
        BY <4>3, FS_Singleton
      <4> QED
        BY <3>3, <4>4 DEF At
    <3>4. CASE ~(entry[e].state = "queued" /\ entry[e].lane = l)
      <4>1. e \notin Listed(queue[l])
        BY <3>2, <3>4 DEF Tidy
      <4>2. At = {}
        BY <3>1, <4>1 DEF Listed
      <4> HIDE DEF At
      <4>3. Cardinality(At) = 0
        BY <4>2, FS_EmptySet
      <4> QED
        BY <3>4, <4>3 DEF At
    <3> QED
      BY <3>3, <3>4
  <2> QED
    BY <2>1, <2>2 DEF EntriesAccounted, SlotOwnership, QueuedWorkPreserved
<1> QED
  BY <1>1, AccountInvariance, PTL

-----------------------------------------------------------------------------
(* Waiters.  What a waiter captured was running; a task that ran never runs *)
(* again, so the active ones among the captured can only become fewer.     *)

Captured == \A w \in Waiters : \A e \in waiter[w].ids : entry[e].state \in {"running", "settled"}

WaitInv == Captured /\ WaitersServed

\* The active tasks, as the accounts see them.
Active(e) == /\ entry[e].state = "running"
             /\ entry[e].generation = generation[entry[e].lane]

LEMMA ActiveTasks ==
  TypeOK /\ AccountInv => \A e \in Entries : e \in AllActive(active) <=> Active(e)
<1> SUFFICES ASSUME TypeOK, AccountInv, NEW e \in Entries
             PROVE  e \in AllActive(active) <=> Active(e)
  OBVIOUS
<1>1. entry[e].lane \in Lanes
  BY DEF TypeOK
<1>2. ASSUME NEW k \in Lanes
      PROVE  e \in active[k] <=> /\ entry[e].lane = k /\ entry[e].state = "running"
                                 /\ entry[e].generation = generation[k]
  BY Lanewise DEF Tidy
<1>3. e \in AllActive(active) <=> \E k \in Lanes : e \in active[k]
  BY DEF AllActive
<1> QED
  BY <1>1, <1>2, <1>3 DEF Active

LEMMA ActiveTasksNext ==
  TypeOK' /\ AccountInv' => \A e \in Entries : e \in AllActive(active') <=> Active(e)'
<1>1. (TypeOK /\ AccountInv => \A e \in Entries : e \in AllActive(active) <=> Active(e))'
  BY ActiveTasks, PTL
<1> QED
  BY <1>1 DEF AllActive


\* No generation is ahead of its lane's.
LEMMA NotAhead ==
  ASSUME TypeOK, AccountInv, NEW e \in Entries, entry[e].state = "running"
  PROVE  entry[e].generation <= generation[entry[e].lane]
<1>1. entry[e].lane \in Lanes
  BY DEF TypeOK
<1> QED
  BY <1>1, Lanewise DEF Tidy

\* A step that keeps an entry that has started leaves it active or not; a reset may
\* make it inactive, nothing makes it active again.
LEMMA KeptActive ==
  ASSUME TypeOK, AccountInv, TypeOK', AccountInv', NEW e \in Entries, entry'[e] = entry[e],
         entry[e].state \in {"running", "settled"},
         \A k \in Lanes : generation'[k] >= generation[k]
  PROVE  /\ e \in AllActive(active') => e \in AllActive(active)
         /\ generation' = generation => (e \in AllActive(active') <=> e \in AllActive(active))
<1>1. /\ entry[e].lane \in Lanes /\ entry[e].generation \in Nat
      /\ generation[entry[e].lane] \in Nat /\ generation'[entry[e].lane] \in Nat
  BY DEF TypeOK
<1>2. e \in AllActive(active) <=> /\ entry[e].state = "running"
                                  /\ entry[e].generation = generation[entry[e].lane]
  BY ActiveTasks DEF Active
<1>3. e \in AllActive(active') <=> /\ entry'[e].state = "running"
                                   /\ entry'[e].generation = generation'[entry'[e].lane]
  BY ActiveTasksNext DEF Active
<1>4. entry[e].state = "running" => entry[e].generation <= generation[entry[e].lane]
  BY NotAhead
<1> QED
  BY <1>1, <1>2, <1>3, <1>4

\* Installing a table changes no entry that has started.
LEMMA InstallKeeps ==
  ASSUME NEW s, NEW ent, NEW gen, Install(s, ent, gen), NEW e \in Entries,
         ent[e].state \in {"running", "settled"}
  PROVE  entry'[e] = ent[e]
  BY DEF Install

\* Waiters that are not notified need no notification when the tasks they captured
\* are active as before.
LEMMA WaitersAlike ==
  ASSUME TypeOK, WaitInv, waiter' = waiter,
         \A e \in Entries : entry[e].state \in {"running", "settled"} =>
           /\ entry'[e].state \in {"running", "settled"}
           /\ e \in AllActive(active') <=> e \in AllActive(active)
  PROVE  WaitInv'
<1>1. \A w \in Waiters : waiter[w].ids \subseteq Entries
  BY DEF TypeOK
<1>2. AllActive(active)' = AllActive(active')
  BY DEF AllActive
<1>3. \A w \in Waiters : waiter[w].ids \intersect AllActive(active')
                           = waiter[w].ids \intersect AllActive(active)
  BY <1>1 DEF WaitInv, Captured
<1>4. Captured'
  BY <1>1 DEF WaitInv, Captured
<1>5. WaitersServed'
  BY <1>2, <1>3 DEF WaitInv, WaitersServed, NoForgottenWaiter, DrainedMeansDrained
<1> QED
  BY <1>4, <1>5 DEF WaitInv

\* A notification is right when what it says remains is what is active in the end.
LEMMA WaitersNotified ==
  ASSUME TypeOK, WaitInv, NEW remaining, waiter' = Notified(remaining),
         \A e \in Entries : entry[e].state \in {"running", "settled"} =>
           /\ entry'[e].state \in {"running", "settled"}
           /\ e \in AllActive(active') => e \in AllActive(active)
           /\ e \in remaining <=> e \in AllActive(active')
  PROVE  WaitInv'
<1>1. \A w \in Waiters : waiter[w].ids \subseteq Entries
  BY DEF TypeOK
<1>2. AllActive(active)' = AllActive(active')
  BY DEF AllActive
<1>3. \A w \in Waiters : /\ waiter[w].ids \intersect remaining
                              = waiter[w].ids \intersect AllActive(active')
                         /\ waiter[w].ids \intersect AllActive(active')
                              \subseteq waiter[w].ids \intersect AllActive(active)
  BY <1>1 DEF WaitInv, Captured
<1>4. \A w \in Waiters :
        /\ waiter'[w].ids = waiter[w].ids
        /\ waiter'[w].state
             = IF waiter[w].state = "pending" /\ waiter[w].ids \intersect remaining = {}
               THEN "drained" ELSE waiter[w].state
  BY DEF Notified, TypeOK
<1>5. Captured'
  BY <1>1, <1>4 DEF WaitInv, Captured
<1>6. ASSUME NEW w \in Waiters
      PROVE  /\ waiter'[w].state = "pending" =>
                  waiter'[w].ids \intersect AllActive(active') # {}
             /\ waiter'[w].state = "drained" =>
                  waiter'[w].ids \intersect AllActive(active') = {}
  BY <1>3, <1>4 DEF WaitInv, WaitersServed, DrainedMeansDrained
<1>7. WaitersServed'
  BY <1>2, <1>6 DEF WaitersServed, NoForgottenWaiter, DrainedMeansDrained
<1> QED
  BY <1>5, <1>7 DEF WaitInv

\* Steps that neither settle nor reset anything.
LEMMA WaitersUnmoved ==
  ASSUME TypeOK, AccountInv, TypeOK', AccountInv', WaitInv, waiter' = waiter,
         generation' = generation,
         \A e \in Entries : entry[e].state \in {"running", "settled"} => entry'[e] = entry[e]
  PROVE  WaitInv'
<1>1. \A k \in Lanes : generation'[k] >= generation[k]
  BY DEF TypeOK
<1> QED
  BY <1>1, KeptActive, WaitersAlike

LEMMA SettleWait ==
  ASSUME TypeOK, AccountInv, TypeOK', AccountInv', WaitInv, NEW e \in Entries, Settle(e)
  PROVE  WaitInv'
<1> DEFINE ent == [entry EXCEPT ![e].state = "settled"]
<1>1. PICK l \in Lanes : l = entry[e].lane
  BY DEF TypeOK
<1>2. entry[e].state = "running" /\ generation' = generation
  BY DEF Settle
<1>3. ent[e].state = "settled" /\ \A f \in Entries \ {e} : ent[f] = entry[f]
  BY DEF TypeOK
<1>4. \A k \in Lanes : generation'[k] >= generation[k]
  BY <1>2 DEF TypeOK
<1>5. \A f \in Entries : ent[f].state \in {"running", "settled"} => entry'[f] = ent[f]
  <2>1. \/ entry' = ent
        \/ \E s : Install(s, ent, generation)
    BY DEF Settle
  <2> HIDE DEF ent
  <2> QED
    BY <2>1, InstallKeeps
<1> HIDE DEF ent
<1>6. ASSUME NEW f \in Entries, entry[f].state \in {"running", "settled"}
      PROVE  /\ entry'[f].state \in {"running", "settled"}
             /\ e # f => (f \in AllActive(active') <=> f \in AllActive(active))
             /\ e = f => f \notin AllActive(active')
  <2>1. CASE e = f
    <3>1. entry'[f].state = "settled"
      BY <1>3, <1>5, <2>1
    <3>2. f \notin AllActive(active')
      BY <3>1, ActiveTasksNext DEF Active
    <3> QED
      BY <2>1, <3>1, <3>2
  <2>2. CASE e # f
    BY <1>2, <1>3, <1>4, <1>5, <1>6, <2>2, KeptActive
  <2> QED
    BY <2>1, <2>2
<1>7. CASE entry[e].generation = generation[l]
  <2>1. PICK remaining : remaining = AllActive([active EXCEPT ![l] = active[l] \ {e}])
    OBVIOUS
  <2>2. waiter' = Notified(remaining)
    BY <1>1, <1>7, <2>1 DEF Settle, Table
  <2>3. \A f \in Entries : f \in remaining <=> f \in AllActive(active) /\ f # e
    <3>1. \A k \in Lanes : e \in active[k] => k = l
      BY <1>1, Lanewise DEF Tidy
    <3>2. active \in [Lanes -> SUBSET Entries]
      BY DEF TypeOK
    <3> QED
      BY <2>1, <3>1, <3>2 DEF AllActive
  <2>4. \A f \in Entries : entry[f].state \in {"running", "settled"} =>
          /\ entry'[f].state \in {"running", "settled"}
          /\ f \in AllActive(active') => f \in AllActive(active)
          /\ f \in remaining <=> f \in AllActive(active')
    BY <1>6, <2>3
  <2> QED
    BY <2>2, <2>4, WaitersNotified
<1>8. CASE entry[e].generation # generation[l]
  <2>1. e \notin AllActive(active)
    BY <1>1, <1>8, ActiveTasks DEF Active
  <2>2. waiter' = waiter
    BY <1>1, <1>8 DEF Settle
  <2>3. \A f \in Entries : entry[f].state \in {"running", "settled"} =>
          /\ entry'[f].state \in {"running", "settled"}
          /\ f \in AllActive(active') <=> f \in AllActive(active)
    BY <1>6, <2>1
  <2> QED
    BY <2>2, <2>3, WaitersAlike
<1> QED
  BY <1>7, <1>8

\* Both resets notify with what is active after their pumps.
LEMMA ResetWait ==
  ASSUME TypeOK, AccountInv, TypeOK', AccountInv', WaitInv, NEW s, NEW gen,
         Install(s, entry, gen), waiter' = Notified(AllActive(s.active)),
         \A k \in Lanes : generation'[k] >= generation[k]
  PROVE  WaitInv'
<1>1. active' = s.active
  BY DEF Install
<1>2. \A e \in Entries : entry[e].state \in {"running", "settled"} => entry'[e] = entry[e]
  BY InstallKeeps
<1>3. \A e \in Entries : entry[e].state \in {"running", "settled"} =>
        /\ entry'[e].state \in {"running", "settled"}
        /\ e \in AllActive(active') => e \in AllActive(active)
        /\ e \in AllActive(s.active) <=> e \in AllActive(active')
  BY <1>1, <1>2, KeptActive
<1> QED
  BY <1>3, WaitersNotified

LEMMA NextWait ==
  TypeOK /\ AccountInv /\ WaitInv /\ [Next]_vars => WaitInv'
<1> SUFFICES ASSUME TypeOK, AccountInv, WaitInv, [Next]_vars PROVE WaitInv'
  OBVIOUS
<1>1. TypeOK' /\ AccountInv'
  BY NextType, NextAccount
<1>2. ASSUME NEW l \in Lanes, NEW p \in Priorities, NEW t \in TimeoutChoices,
             EnqueueCommandInLane(l, p, t)
      PROVE  WaitInv'
  <2>1. PICK s, ent :
          /\ ent = [entry EXCEPT ![nextSequence] = [lane |-> l, priority |-> p, timed |-> t,
                                                    state |-> "queued", generation |-> 0]]
          /\ Install(s, ent, generation)
    BY <1>2 DEF EnqueueCommandInLane
  <2>2. waiter' = waiter /\ generation' = generation
    BY <1>2 DEF EnqueueCommandInLane
  <2>3. ASSUME NEW e \in Entries, entry[e].state \in {"running", "settled"}
        PROVE  entry'[e] = entry[e]
    <3>1. e # nextSequence
      BY <2>3 DEF AccountInv, Entries
    <3>2. ent[e] = entry[e]
      BY <2>1, <3>1 DEF TypeOK
    <3> QED
      BY <2>1, <2>3, <3>2, InstallKeeps
  <2> QED
    BY <1>1, <2>2, <2>3, WaitersUnmoved
<1>3. ASSUME NEW e \in Entries, Settle(e) PROVE WaitInv'
  BY <1>1, <1>3, SettleWait
<1>4. ASSUME NEW l \in Lanes, ClearCommandLane(l) PROVE WaitInv'
  BY <1>1, <1>4, WaitersUnmoved DEF ClearCommandLane
<1>5. ASSUME NEW l \in Lanes, ResetCommandLane(l) PROVE WaitInv'
  <2>1. PICK s : /\ Install(s, entry, NextGeneration(l))
                 /\ waiter' = Notified(AllActive(s.active))
    BY <1>5 DEF ResetCommandLane
  <2>2. \A k \in Lanes : generation'[k] >= generation[k]
    BY <1>5 DEF ResetCommandLane, NextGeneration, TypeOK
  <2> QED
    BY <1>1, <2>1, <2>2, ResetWait
<1>6. ASSUME NEW first \in Members, ResetAllLanes(first) PROVE WaitInv'
  <2>1. PICK s, gen : Install(s, entry, gen) /\ waiter' = Notified(AllActive(s.active))
    BY <1>6 DEF ResetAllLanes
  <2>2. \A k \in Lanes : generation'[k] >= generation[k]
    BY <1>6 DEF ResetAllLanes, TypeOK
  <2> QED
    BY <1>1, <2>1, <2>2, ResetWait
<1>7. ASSUME MarkGatewayDraining PROVE WaitInv'
  BY <1>1, <1>7, WaitersUnmoved DEF MarkGatewayDraining
<1>8. ASSUME NEW w \in Waiters, WaitForActiveTasks(w) PROVE WaitInv'
  <2>1. /\ \A v \in Waiters \ {w} : waiter'[v] = waiter[v]
        /\ waiter'[w].ids = AllActive(active)
        /\ waiter'[w].state = IF AllActive(active) = {} THEN "drained" ELSE "pending"
    BY <1>8 DEF WaitForActiveTasks, TypeOK
  <2>2. entry' = entry /\ AllActive(active)' = AllActive(active)
    BY <1>8 DEF WaitForActiveTasks, AllActive
  <2>3. \A e \in AllActive(active) : entry[e].state = "running"
    BY Lanewise DEF AllActive
  <2>4. Captured'
    BY <2>1, <2>2, <2>3 DEF WaitInv, Captured
  <2>5. WaitersServed'
    BY <2>1, <2>2 DEF WaitInv, WaitersServed, NoForgottenWaiter, DrainedMeansDrained
  <2> QED
    BY <2>4, <2>5 DEF WaitInv
<1>9. ASSUME NEW w \in Waiters, WaiterTimeout(w) PROVE WaitInv'
  <2>1. /\ \A v \in Waiters \ {w} : waiter'[v] = waiter[v]
        /\ waiter'[w].ids = waiter[w].ids /\ waiter'[w].state = "expired"
    BY <1>9 DEF WaiterTimeout, TypeOK
  <2>2. entry' = entry /\ AllActive(active)' = AllActive(active)
    BY <1>9 DEF WaiterTimeout, AllActive
  <2> QED
    BY <2>1, <2>2 DEF WaitInv, Captured, WaitersServed, NoForgottenWaiter, DrainedMeansDrained
<1>10. ASSUME NEW l \in FixedLanes, NEW width \in Widths, SetCommandLaneConcurrency(l, width)
      PROVE  WaitInv'
  <2>1. PICK s : Install(s, entry, generation)
    BY <1>10 DEF SetCommandLaneConcurrency
  <2> QED
    BY <1>1, <1>10, <2>1, InstallKeeps, WaitersUnmoved DEF SetCommandLaneConcurrency
<1>11. ASSUME NEW hooks \in BOOLEAN, PublishLaneConfiguration(hooks) PROVE WaitInv'
  <2>1. PICK s : Install(s, entry, generation)
    BY <1>11 DEF PublishLaneConfiguration
  <2> QED
    BY <1>1, <1>11, <2>1, InstallKeeps, WaitersUnmoved DEF PublishLaneConfiguration
<1>12. CASE UNCHANGED vars
  BY <1>1, <1>12, WaitersUnmoved DEF vars
<1> QED
  BY <1>2, <1>3, <1>4, <1>5, <1>6, <1>7, <1>8, <1>9, <1>10, <1>11, <1>12 DEF Next

\* A wait for active tasks is answered in time, however completions, resets and pumps
\* interleave with it: not before what it captured is gone, and never forgotten.
THEOREM WaitsAnswered == Spec => []WaitersServed
<1>1. Init => WaitInv
  <2> SUFFICES ASSUME Init PROVE WaitInv
    OBVIOUS
  <2>1. \A w \in Waiters : waiter[w].state = "idle" /\ waiter[w].ids = {}
    BY DEF Init
  <2> QED
    BY <2>1 DEF WaitInv, Captured, WaitersServed, NoForgottenWaiter, DrainedMeansDrained
<1>2. WaitInv => WaitersServed
  BY DEF WaitInv
<1> QED
  BY <1>1, <1>2, NextWait, AccountInvariance, PTL DEF Spec

-----------------------------------------------------------------------------
(* Stranded work.  After a pump its lane is empty or blocked; a task that   *)
(* starts elsewhere blocks a lane no less; and only a slot of the lane      *)
(* itself or, in the group, of its sibling can unblock it.                 *)

Blocked(s, l) == BlockReason(s.width, s.group, Busy(s.active), l) # "none"
Served(s, l) == s.queue[l] = <<>> \/ Blocked(s, l)

\* A reason to wait is a matter of the lane's width and, for a member of the group,
\* of the budget and the sibling.
LEMMA Reasons ==
  ASSUME NEW width \in [Lanes -> Nat], NEW g \in Group, NEW busy \in [Lanes -> Nat],
         NEW l \in Lanes
  PROVE  BlockReason(width, g, busy, l) # "none" <=>
           \/ busy[l] >= width[l]
           \/ /\ g.installed /\ l \in Members
              /\ \/ busy[l] + busy[Sibling(l)] >= CronBudget
                 \/ /\ busy[l] >= Reservation(g, l)
                    /\ busy[l] + busy[Sibling(l)] + Unused(g, busy, Sibling(l)) >= CronBudget
<1>1. /\ g.installed \in BOOLEAN /\ width[l] \in Nat /\ busy[l] \in Nat /\ CronBudget \in Nat
      /\ Sibling(l) \in Lanes /\ busy[Sibling(l)] \in Nat /\ g.reserved \in Nat
  BY LanesAssumption, BudgetAssumption DEF Group, Sibling
<1>2. Reservation(g, l) \in Nat /\ Reservation(g, Sibling(l)) \in Nat
  BY <1>1 DEF Reservation
<1>3. Unused(g, busy, Sibling(l)) \in Nat
  BY <1>1, <1>2 DEF Unused
<1>4. CASE busy[l] >= width[l]
  BY <1>1, <1>4 DEF BlockReason
<1>5. CASE busy[l] < width[l] /\ ~(g.installed /\ l \in Members)
  BY <1>1, <1>5 DEF BlockReason
<1>6. CASE busy[l] < width[l] /\ g.installed /\ l \in Members
  BY <1>1, <1>2, <1>3, <1>6 DEF BlockReason
<1> QED
  BY <1>1, <1>4, <1>5, <1>6

\* A lane that was blocked stays so while its own tasks stay and the others grow, and
\* what is no member of the group does not look at others at all.
LEMMA BlockedStays ==
  ASSUME NEW w1 \in [Lanes -> Nat], NEW w2 \in [Lanes -> Nat],
         NEW g1 \in Group, NEW g2 \in Group,
         NEW b1 \in [Lanes -> Nat], NEW b2 \in [Lanes -> Nat],
         NEW l \in Lanes, w1[l] = w2[l], b1[l] = b2[l],
         l \in Members => g1 = g2,
         l \in Members /\ g1.installed => b1[Sibling(l)] <= b2[Sibling(l)],
         BlockReason(w1, g1, b1, l) # "none"
  PROVE  BlockReason(w2, g2, b2, l) # "none"
<1>1. /\ b1[l] \in Nat /\ CronBudget \in Nat /\ Sibling(l) \in Lanes /\ w1[l] \in Nat
      /\ b1[Sibling(l)] \in Nat /\ b2[Sibling(l)] \in Nat /\ g1.reserved \in Nat
  BY LanesAssumption, BudgetAssumption DEF Group, Sibling
<1>2. CASE b1[l] >= w1[l]
  BY <1>2, Reasons
<1>3. CASE ~(b1[l] >= w1[l])
  <2>1. /\ g1 = g2 /\ g1.installed /\ l \in Members /\ b1[Sibling(l)] <= b2[Sibling(l)]
        /\ \/ b1[l] + b1[Sibling(l)] >= CronBudget
           \/ /\ b1[l] >= Reservation(g1, l)
              /\ b1[l] + b1[Sibling(l)] + Unused(g1, b1, Sibling(l)) >= CronBudget
    BY <1>3, Reasons
  <2>2. /\ Reservation(g1, Sibling(l)) \in Nat
        /\ Unused(g1, b1, Sibling(l)) \in Nat /\ Unused(g1, b2, Sibling(l)) \in Nat
        /\ b1[Sibling(l)] + Unused(g1, b1, Sibling(l))
             <= b2[Sibling(l)] + Unused(g1, b2, Sibling(l))
    BY <1>1, <2>1 DEF Reservation, Unused
  <2>3. \/ b2[l] + b2[Sibling(l)] >= CronBudget
        \/ /\ b2[l] >= Reservation(g2, l)
           /\ b2[l] + b2[Sibling(l)] + Unused(g2, b2, Sibling(l)) >= CronBudget
    <3>1. CASE b1[l] + b1[Sibling(l)] >= CronBudget
      BY <1>1, <2>1, <3>1
    <3>2. CASE /\ b1[l] >= Reservation(g1, l)
               /\ b1[l] + b1[Sibling(l)] + Unused(g1, b1, Sibling(l)) >= CronBudget
      BY <1>1, <2>1, <2>2, <3>2
    <3> QED
      BY <2>1, <3>1, <3>2
  <2> QED
    BY <2>1, <2>3, Reasons
<1> QED
  BY <1>2, <1>3

\* The active tasks of a lane table are counted in naturals.
LEMMA BusyType ==
  ASSUME NEW act \in [Lanes -> SUBSET Entries]
  PROVE  Busy(act) \in [Lanes -> Nat] /\ \A l \in Lanes : Busy(act)[l] = Cardinality(act[l])
<1>1. \A l \in Lanes : Cardinality(act[l]) \in Nat
  BY EntriesFinite
<1> QED
  BY <1>1 DEF Busy

\* The same for lane tables.
LEMMA BlockedAlike ==
  ASSUME NEW s \in LaneTable, NEW t \in LaneTable, NEW l \in Lanes,
         s.width[l] = t.width[l], s.active[l] = t.active[l],
         l \in Members => s.group = t.group,
         l \in Members /\ s.group.installed => s.active[Sibling(l)] \subseteq t.active[Sibling(l)],
         Blocked(s, l)
  PROVE  Blocked(t, l)
<1>1. /\ s.width \in [Lanes -> Nat] /\ t.width \in [Lanes -> Nat]
      /\ s.group \in Group /\ t.group \in Group
      /\ s.active \in [Lanes -> SUBSET Entries] /\ t.active \in [Lanes -> SUBSET Entries]
  BY DEF LaneTable
<1>2. Sibling(l) \in Lanes
  BY LanesAssumption DEF Sibling
<1>3. ASSUME l \in Members, s.group.installed
      PROVE  Busy(s.active)[Sibling(l)] <= Busy(t.active)[Sibling(l)]
  <2>1. t.active[Sibling(l)] \in SUBSET Entries
    BY <1>1, <1>2
  <2>2. IsFiniteSet(t.active[Sibling(l)]) /\ s.active[Sibling(l)] \in SUBSET t.active[Sibling(l)]
    BY <1>3, <2>1, EntriesFinite
  <2>3. Cardinality(s.active[Sibling(l)]) <= Cardinality(t.active[Sibling(l)])
    BY <2>2, FS_Subset
  <2> QED
    BY <1>1, <1>2, <2>3, BusyType
<1>4. Busy(s.active)[l] = Busy(t.active)[l]
  BY <1>1, BusyType
<1>5. Busy(s.active) \in [Lanes -> Nat] /\ Busy(t.active) \in [Lanes -> Nat]
  BY <1>1, BusyType
<1>6. PICK b, c : b = Busy(s.active) /\ c = Busy(t.active)
  OBVIOUS
<1>7. BlockReason(s.width, s.group, b, l) # "none"
  BY <1>6 DEF Blocked
<1>8. /\ b[l] = c[l] /\ b \in [Lanes -> Nat] /\ c \in [Lanes -> Nat]
      /\ l \in Members /\ s.group.installed => b[Sibling(l)] <= c[Sibling(l)]
  BY <1>3, <1>4, <1>5, <1>6
<1>9. BlockReason(t.width, t.group, c, l) # "none"
  BY <1>1, <1>7, <1>8, BlockedStays
<1> QED
  BY <1>6, <1>9 DEF Blocked

\* A pump starts as many tasks as it takes entries from the queue.
LEMMA StartedCount ==
  ASSUME NEW q \in Seq(Entries), NEW n \in 0 .. Len(q), NEW a \in SUBSET Entries,
         NEW ent, NEW g, NEW l, Tidy(q, a, ent, g, l)
  PROVE  Cardinality(a \union {q[i] : i \in 1 .. n}) = Cardinality(a) + n
<1> DEFINE b == {q[i] : i \in 1 .. n}
           f == [i \in 1 .. n |-> q[i]]
<1>1. IsFiniteSet(1 .. n) /\ Cardinality(1 .. n) = n
  BY FS_Interval
<1>2. \A i \in 1 .. n : i \in 1 .. Len(q)
  OBVIOUS
<1>3. f \in Bijection(1 .. n, b)
  <2>1. f \in Surjection(1 .. n, b)
    BY DEF Surjection
  <2>2. \A i, j \in 1 .. n : f[i] = f[j] => i = j
    BY <1>2 DEF Tidy
  <2> QED
    BY <2>1, <2>2, Fun_IsInj, Fun_IsBij
<1> HIDE DEF f
<1>4. Cardinality(b) = n /\ IsFiniteSet(b)
  <2>1. ExistsBijection(1 .. n, b)
    BY <1>3 DEF ExistsBijection
  <2> HIDE DEF b
  <2> QED
    BY <1>1, <2>1, FS_Bijection
<1>5. b \subseteq Entries /\ a \cap b = {}
  BY <1>2 DEF Tidy, Listed
<1>6. IsFiniteSet(a) /\ Cardinality(a) \in Nat
  BY EntriesFinite
<1> HIDE DEF b
<1>7. Cardinality(a \union b) = Cardinality(a) + Cardinality(b) - Cardinality(a \cap b)
  BY <1>4, <1>6, FS_Union
<1>8. Cardinality(a \cap b) = 0
  BY <1>5, FS_EmptySet
<1> QED
  BY <1>4, <1>6, <1>7, <1>8 DEF b

\* After its pump a lane is empty or blocked,
LEMMA DrainServes ==
  ASSUME NEW s \in LaneTable, NEW l \in Lanes, NEW ent, NEW gen, Accounted(s, ent, gen)
  PROVE  Served(Drain(s, l), l)
<1> DEFINE q == s.queue[l]
           d == Drain(s, l)
<1>1. PICK n \in 0 .. Len(s.queue[l]) :
        /\ StopsAt(s, l, n)
        /\ d.queue = [s.queue EXCEPT ![l] = SubSeq(s.queue[l], n + 1, Len(s.queue[l]))]
        /\ d.active = [s.active EXCEPT ![l] = s.active[l] \union {s.queue[l][i] : i \in 1 .. n}]
        /\ d.width = s.width /\ d.group = s.group
  BY DrainEffect
<1>2. /\ s.queue \in [Lanes -> Seq(Entries)] /\ s.active \in [Lanes -> SUBSET Entries]
      /\ q \in Seq(Entries)
  BY DEF LaneTable
<1>3. d \in LaneTable
  BY DrainType
<1>4. d.active \in [Lanes -> SUBSET Entries]
  BY <1>3 DEF LaneTable
<1> HIDE DEF d
<1>5. CASE n = Len(q)
  <2>1. SubSeq(q, n + 1, Len(q)) = <<>>
    BY <1>2, <1>5
  <2>2. d.queue[l] = SubSeq(q, n + 1, Len(q))
    BY <1>1, <1>2
  <2> QED
    BY <2>1, <2>2 DEF Served, d
<1>6. CASE n # Len(q)
  <2>1. BlockReason(s.width, s.group, [Busy(s.active) EXCEPT ![l] = @ + n], l) # "none"
    BY <1>1, <1>6 DEF StopsAt
  <2>2. Tidy(s.queue[l], s.active[l], ent, gen[l], l)
    BY DEF Accounted
  <2>3. s.active[l] \in SUBSET Entries
    BY <1>2
  <2>4. Cardinality(s.active[l] \union {s.queue[l][i] : i \in 1 .. n}) = Cardinality(s.active[l]) + n
    BY <1>2, <2>2, <2>3, StartedCount
  <2>5. \A k \in Lanes : Busy(d.active)[k] = [Busy(s.active) EXCEPT ![l] = @ + n][k]
    <3> TAKE k \in Lanes
    <3>1. Busy(d.active)[k] = Cardinality(d.active[k]) /\ Busy(s.active)[k] = Cardinality(s.active[k])
      BY <1>2, <1>4, BusyType
    <3>2. CASE k = l
      <4>1. d.active[l] = s.active[l] \union {s.queue[l][i] : i \in 1 .. n}
        BY <1>1, <1>2, Zenon
      <4>2. [Busy(s.active) EXCEPT ![l] = @ + n][l] = Busy(s.active)[l] + n
        BY <1>2, BusyType
      <4> QED
        BY <2>4, <3>1, <3>2, <4>1, <4>2
    <3>3. CASE k # l
      <4>1. d.active[k] = s.active[k]
        BY <1>1, <1>2, <3>3, Zenon
      <4>2. [Busy(s.active) EXCEPT ![l] = @ + n][k] = Busy(s.active)[k]
        BY <1>2, <3>3, BusyType
      <4> QED
        BY <3>1, <4>1, <4>2
    <3> QED
      BY <3>2, <3>3
  <2>6. Busy(d.active) = [Busy(s.active) EXCEPT ![l] = @ + n]
    BY <2>5 DEF Busy
  <2> QED
    BY <1>1, <2>1, <2>6 DEF Served, Blocked, d
<1> QED
  BY <1>5, <1>6

\* and another that was empty or blocked still is.
LEMMA DrainSpares ==
  ASSUME NEW s \in LaneTable, NEW l \in Lanes, NEW k \in Lanes, k # l, Served(s, k)
  PROVE  Served(Drain(s, l), k)
<1>1. PICK d : d = Drain(s, l)
  OBVIOUS
<1>2. d \in LaneTable
  BY <1>1, DrainType
<1>3. /\ d.queue[k] = s.queue[k] /\ d.active[k] = s.active[k]
      /\ \A j \in Lanes : s.active[j] \subseteq d.active[j]
  BY <1>1, DrainElsewhere
<1>4. d.width = s.width /\ d.group = s.group
  BY <1>1, DrainEffect
<1>5. Sibling(k) \in Lanes
  BY LanesAssumption DEF Sibling
<1>6. Blocked(s, k) => Blocked(d, k)
  BY <1>2, <1>3, <1>4, <1>5, BlockedAlike
<1> QED
  BY <1>1, <1>3, <1>6 DEF Served

\* A slot of lane l is given back: with the pump of l and of its sibling every lane
\* that was served before is served again.
LEMMA ReleaseServes ==
  ASSUME NEW s \in LaneTable, NEW l \in Lanes, NEW r \in LaneTable, NEW ent, NEW gen,
         Accounted(r, ent, gen), r.queue = s.queue, r.width = s.width, r.group = s.group,
         \A k \in Lanes : r.active[k] # s.active[k] => k = l,
         \A k \in Lanes : Served(s, k)
  PROVE  \A k \in Lanes : Served(DrainSiblings(Drain(r, l), l), k)
<1>1. PICK p : p = Drain(r, l)
  OBVIOUS
<1>2. p \in LaneTable /\ Accounted(p, ent, gen) /\ p.group = s.group
  BY <1>1, DrainType, DrainAccounted, DrainEffect
<1>3. ASSUME NEW k \in Lanes, k # l, ~(s.group.installed /\ k \in Members /\ l \in Members)
      PROVE  Served(r, k)
  <2>1. Sibling(k) \in Lanes /\ (k \in Members /\ Sibling(k) = l => l \in Members)
    BY LanesAssumption DEF Sibling, Members
  <2>2. r.active[k] = s.active[k]
    BY <1>3
  <2>3. k \in Members /\ s.group.installed => s.active[Sibling(k)] \subseteq r.active[Sibling(k)]
    BY <1>3, <2>1
  <2>4. Blocked(s, k) => Blocked(r, k)
    BY <2>2, <2>3, BlockedAlike
  <2> QED
    BY <2>4 DEF Served
<1>4. ASSUME NEW k \in Lanes,
             k = l \/ ~(s.group.installed /\ k \in Members /\ l \in Members)
      PROVE  Served(p, k)
  <2>1. CASE k = l
    BY <1>1, <2>1, DrainServes
  <2>2. CASE k # l
    BY <1>1, <1>3, <1>4, <2>2, DrainSpares
  <2> QED
    BY <2>1, <2>2
<1>5. CASE s.group.installed /\ l \in Members
  <2>1. Sibling(l) \in Lanes
    BY LanesAssumption DEF Sibling
  <2>2. DrainSiblings(p, l) = Drain(p, Sibling(l))
    BY <1>2, <1>5 DEF DrainSiblings
  <2>3. ASSUME NEW k \in Lanes PROVE Served(Drain(p, Sibling(l)), k)
    <3>1. CASE k = Sibling(l)
      BY <1>2, <2>1, <3>1, DrainServes
    <3>2. CASE k # Sibling(l)
      <4>1. k = l \/ k \notin Members
        BY <1>5, <3>2 DEF Sibling, Members
      <4> QED
        BY <1>2, <1>4, <2>1, <3>2, <4>1, DrainSpares
    <3> QED
      BY <3>1, <3>2
  <2> QED
    BY <1>1, <2>2, <2>3
<1>6. CASE ~(s.group.installed /\ l \in Members)
  <2>1. DrainSiblings(p, l) = p
    BY <1>2, <1>6 DEF DrainSiblings
  <2> QED
    BY <1>1, <1>4, <1>6, <2>1
<1> QED
  BY <1>5, <1>6

\* The property says that every lane of the current table is served.
LEMMA StrandedIs == NoStrandedWork <=> \A l \in Lanes : Served(Table, l)
  BY DEF NoStrandedWork, Served, Blocked, Table

LEMMA ServedFromInstall ==
  ASSUME NEW s \in LaneTable, NEW ent, NEW gen, Install(s, ent, gen),
         \A l \in Lanes : Served(s, l)
  PROVE  NoStrandedWork'
  BY DEF NoStrandedWork, Served, Blocked, Install

\* The operations, as for the accounts.
LEMMA EnqueueServes ==
  ASSUME TypeOK, AccountInv, NoStrandedWork, NEW l \in Lanes, NEW p \in Priorities,
         NEW t \in TimeoutChoices, EnqueueCommandInLane(l, p, t)
  PROVE  NoStrandedWork'
<1>1. PICK ent : ent = [entry EXCEPT ![nextSequence] =
                          [lane |-> l, priority |-> p, timed |-> t,
                           state |-> "queued", generation |-> 0]]
  OBVIOUS
<1>2. PICK s : s = [Table EXCEPT !.queue[l] = InsertEntry(ent, @, nextSequence)]
  OBVIOUS
<1>3. Install(Drain(s, l), ent, generation)
  BY <1>1, <1>2 DEF EnqueueCommandInLane
<1>4. s \in LaneTable /\ Accounted(s, ent, generation)
  BY <1>1, <1>2, EnqueueTable DEF EnqueueCommandInLane
<1>5. /\ s.width = maxConcurrent /\ s.group = group /\ s.active = active
      /\ \A k \in Lanes \ {l} : s.queue[k] = queue[k]
  BY <1>2 DEF Table, TypeOK
<1>6. ASSUME NEW k \in Lanes PROVE Served(Drain(s, l), k)
  <2>1. CASE k = l
    BY <1>4, <2>1, DrainServes
  <2>2. CASE k # l
    <3>1. Served(s, k)
      BY <1>5, <2>2, StrandedIs DEF Served, Blocked, Table
    <3> QED
      BY <1>4, <2>2, <3>1, DrainSpares
  <2> QED
    BY <2>1, <2>2
<1>7. Drain(s, l) \in LaneTable
  BY <1>4, DrainType
<1> QED
  BY <1>3, <1>6, <1>7, ServedFromInstall

LEMMA SettleServes ==
  ASSUME TypeOK, AccountInv, NoStrandedWork, NEW e \in Entries, Settle(e)
  PROVE  NoStrandedWork'
<1>1. PICK l \in Lanes : l = entry[e].lane
  BY DEF TypeOK
<1>2. CASE entry[e].generation = generation[l]
  <2>1. PICK ent, r : /\ ent = Ended(e) /\ r = Given(l, e)
                      /\ Install(DrainSiblings(Drain(r, l), l), ent, generation)
    BY <1>1, <1>2 DEF Settle, Given, Ended
  <2>2. r \in LaneTable /\ Accounted(r, ent, generation)
    BY <1>1, <2>1, SettleTable DEF Settle
  <2>3. /\ r.queue = Table.queue /\ r.width = Table.width /\ r.group = Table.group
        /\ \A k \in Lanes : r.active[k] # Table.active[k] => k = l
    BY <2>1 DEF Given, Table, TypeOK
  <2>4. Table \in LaneTable /\ \A k \in Lanes : Served(Table, k)
    BY TableType, StrandedIs
  <2>5. \A k \in Lanes : Served(DrainSiblings(Drain(r, l), l), k)
    BY <2>2, <2>3, <2>4, ReleaseServes
  <2>6. DrainSiblings(Drain(r, l), l) \in LaneTable
    BY <2>2, DrainType, DrainSiblingsType
  <2> QED
    BY <2>1, <2>5, <2>6, ServedFromInstall
<1>3. CASE entry[e].generation # generation[l]
  BY <1>1, <1>3 DEF Settle, NoStrandedWork
<1> QED
  BY <1>2, <1>3

LEMMA ResetLaneServes ==
  ASSUME TypeOK, AccountInv, NoStrandedWork, NEW l \in Lanes, ResetCommandLane(l)
  PROVE  NoStrandedWork'
<1>1. PICK r : /\ r = [Table EXCEPT !.active[l] = {}]
               /\ Install(DrainSiblings(Drain(r, l), l), entry, NextGeneration(l))
  BY DEF ResetCommandLane
<1>2. r \in LaneTable /\ Accounted(r, entry, NextGeneration(l))
  BY <1>1, ResetTable DEF ResetCommandLane
<1>3. /\ r.queue = Table.queue /\ r.width = Table.width /\ r.group = Table.group
      /\ \A k \in Lanes : r.active[k] # Table.active[k] => k = l
  BY <1>1 DEF Table, TypeOK
<1>4. Table \in LaneTable /\ \A k \in Lanes : Served(Table, k)
  BY TableType, StrandedIs
<1>5. \A k \in Lanes : Served(DrainSiblings(Drain(r, l), l), k)
  BY <1>2, <1>3, <1>4, ReleaseServes
<1>6. DrainSiblings(Drain(r, l), l) \in LaneTable
  BY <1>2, DrainType, DrainSiblingsType
<1> QED
  BY <1>1, <1>5, <1>6, ServedFromInstall

\* A reset of all lanes pumps each of them, the members of the group in turn.
LEMMA ResetAllServes ==
  ASSUME TypeOK, AccountInv, NEW first \in Members, ResetAllLanes(first)
  PROVE  NoStrandedWork'
<1> DEFINE Gen == [l \in Lanes |-> IF l \in present THEN generation[l] + 1
                                                   ELSE generation[l]]
           Merged(grouped, alone) ==
             [grouped EXCEPT
                !.queue = [l \in Lanes |-> IF l \in Members THEN grouped.queue[l]
                                           ELSE alone[l].queue[l]],
                !.active = [l \in Lanes |-> IF l \in Members THEN grouped.active[l]
                                            ELSE alone[l].active[l]]]
<1>1. PICK gen : gen = Gen
  OBVIOUS
<1>2. PICK r : r = [Table EXCEPT !.active = [l \in Lanes |-> {}]]
  OBVIOUS
<1>3. PICK d1 : d1 = Drain(r, first)
  OBVIOUS
<1>4. PICK grouped : grouped = Drain(d1, Sibling(first))
  OBVIOUS
<1>5. PICK alone : alone = [l \in Lanes |-> Drain(r, l)]
  OBVIOUS
<1>6. PICK s : s = Merged(grouped, alone)
  OBVIOUS
<1>7. Install(s, entry, gen)
  BY <1>1, <1>2, <1>3, <1>4, <1>5, <1>6 DEF ResetAllLanes
<1>8. first \in Lanes /\ Sibling(first) \in Lanes /\ first # Sibling(first)
      /\ \A k \in Members : k = first \/ k = Sibling(first)
  BY LanesAssumption DEF Members, Sibling
<1>9. r \in LaneTable /\ Accounted(r, entry, gen)
  BY <1>1, <1>2, ResetAllTable
<1> HIDE DEF Gen
<1>10. d1 \in LaneTable /\ Accounted(d1, entry, gen) /\ Served(d1, first)
  BY <1>3, <1>8, <1>9, DrainType, DrainAccounted, DrainServes
<1>11. grouped \in LaneTable /\ Served(grouped, first) /\ Served(grouped, Sibling(first))
  BY <1>4, <1>8, <1>10, DrainType, DrainServes, DrainSpares
<1>12. \A k \in Lanes : alone[k] = Drain(r, k) /\ alone[k] \in LaneTable /\ Served(alone[k], k)
  BY <1>5, <1>9, DrainType, DrainServes
<1>13. /\ d1.width = r.width /\ d1.group = r.group
       /\ grouped.width = d1.width /\ grouped.group = d1.group
       /\ \A k \in Lanes : alone[k].width = r.width /\ alone[k].group = r.group
  <2>1. d1.width = r.width /\ d1.group = r.group
    BY <1>3, <1>8, <1>9, DrainEffect
  <2>2. grouped.width = d1.width /\ grouped.group = d1.group
    BY <1>4, <1>8, <1>10, DrainEffect
  <2>3. \A k \in Lanes : Drain(r, k).width = r.width /\ Drain(r, k).group = r.group
    BY <1>9, DrainEffect
  <2> QED
    BY <1>12, <2>1, <2>2, <2>3
<1>14. /\ s \in LaneTable /\ s.width = grouped.width /\ s.group = grouped.group
       /\ \A k \in Lanes :
            /\ k \in Members => s.queue[k] = grouped.queue[k] /\ s.active[k] = grouped.active[k]
            /\ k \notin Members => s.queue[k] = alone[k].queue[k] /\ s.active[k] = alone[k].active[k]
  BY <1>6, <1>11, <1>12 DEF LaneTable
<1>15. ASSUME NEW k \in Lanes PROVE Served(s, k)
  <2>1. CASE k \in Members
    <3>1. Served(grouped, k)
      BY <1>8, <1>11, <2>1
    <3>2. Sibling(k) \in Members /\ Sibling(k) \in Lanes
      BY LanesAssumption DEF Sibling, Members
    <3>3. s.active[Sibling(k)] = grouped.active[Sibling(k)]
      BY <1>14, <3>2
    <3>4. Blocked(grouped, k) => Blocked(s, k)
      BY <1>11, <1>14, <2>1, <3>3, BlockedAlike
    <3> QED
      BY <1>14, <2>1, <3>1, <3>4 DEF Served
  <2>2. CASE k \notin Members
    <3>1. Blocked(alone[k], k) => Blocked(s, k)
      BY <1>12, <1>13, <1>14, <2>2, BlockedAlike
    <3> QED
      BY <1>12, <1>14, <2>2, <3>1 DEF Served
  <2> QED
    BY <2>1, <2>2
<1> QED
  BY <1>7, <1>14, <1>15, ServedFromInstall

LEMMA SetConcurrencyServes ==
  ASSUME TypeOK, AccountInv, NoStrandedWork, NEW l \in FixedLanes, NEW width \in Widths,
         SetCommandLaneConcurrency(l, width)
  PROVE  NoStrandedWork'
<1>1. PICK r : r = [Table EXCEPT !.width[l] = width]
  OBVIOUS
<1>2. Install(Drain(r, l), entry, generation)
  BY <1>1 DEF SetCommandLaneConcurrency
<1>3. l \in Lanes /\ width \in Nat
  BY BudgetAssumption DEF FixedLanes
<1>4. r \in LaneTable
  BY <1>1, <1>3, TableType DEF Table, LaneTable
<1>5. /\ r.queue = queue /\ r.active = active /\ r.group = group
      /\ \A k \in Lanes \ {l} : r.width[k] = maxConcurrent[k]
  BY <1>1 DEF Table, TypeOK
<1>6. Accounted(r, entry, generation)
  BY <1>5 DEF AccountInv, Accounted, Table
<1>7. Table \in LaneTable /\ \A k \in Lanes : Served(Table, k)
  BY TableType, StrandedIs
<1>8. ASSUME NEW k \in Lanes PROVE Served(Drain(r, l), k)
  <2>1. CASE k = l
    BY <1>4, <1>6, <2>1, DrainServes
  <2>2. CASE k # l
    <3>1. /\ r.width[k] = Table.width[k] /\ r.active = Table.active /\ r.group = Table.group
          /\ r.queue = Table.queue
      BY <1>5, <2>2 DEF Table
    <3>2. Blocked(Table, k) => Blocked(r, k)
      BY <1>4, <1>7, <3>1, BlockedAlike
    <3>3. Served(r, k)
      BY <1>7, <3>1, <3>2 DEF Served
    <3> QED
      BY <1>3, <1>4, <2>2, <3>3, DrainSpares
  <2> QED
    BY <2>1, <2>2
<1>9. Drain(r, l) \in LaneTable
  BY <1>3, <1>4, DrainType
<1> QED
  BY <1>2, <1>8, <1>9, ServedFromInstall

\* A publication changes the two members, and pumps both.
LEMMA PublishServes ==
  ASSUME TypeOK, AccountInv, NoStrandedWork, NEW hooks \in BOOLEAN,
         PublishLaneConfiguration(hooks)
  PROVE  NoStrandedWork'
<1>1. PICK r : r = Published(hooks)
  OBVIOUS
<1>2. PICK d : d = Drain(r, CronNested)
  OBVIOUS
<1>3. Install(Drain(d, HookDispatch), entry, generation)
  BY <1>1, <1>2 DEF PublishLaneConfiguration
<1>4. r \in LaneTable
  BY <1>1, PublishedType
<1>5. /\ r.queue = queue /\ r.active = active
      /\ \A k \in Lanes \ Members : r.width[k] = maxConcurrent[k]
  BY <1>1 DEF Published, Table, Members, TypeOK
<1>6. Accounted(r, entry, generation)
  BY <1>5 DEF AccountInv, Accounted, Table
<1>7. CronNested \in Lanes /\ HookDispatch \in Lanes /\ CronNested # HookDispatch
  BY LanesAssumption
<1>8. d \in LaneTable /\ Accounted(d, entry, generation) /\ Served(d, CronNested)
  BY <1>2, <1>4, <1>6, <1>7, DrainType, DrainAccounted, DrainServes
<1>9. Table \in LaneTable /\ \A k \in Lanes : Served(Table, k)
  BY TableType, StrandedIs
<1>10. ASSUME NEW k \in Lanes \ Members PROVE Served(d, k)
  <2>1. /\ r.width[k] = Table.width[k] /\ r.active = Table.active /\ r.queue = Table.queue
        /\ k \in Lanes /\ k \notin Members
    BY <1>5 DEF Table
  <2>2. Blocked(Table, k) => Blocked(r, k)
    BY <1>4, <1>9, <2>1, BlockedAlike
  <2>3. Served(r, k)
    BY <1>9, <2>1, <2>2 DEF Served
  <2>4. k # CronNested
    BY DEF Members
  <2> QED
    BY <1>2, <1>4, <1>7, <2>1, <2>3, <2>4, DrainSpares
<1>11. ASSUME NEW k \in Lanes PROVE Served(Drain(d, HookDispatch), k)
  <2>1. CASE k = HookDispatch
    BY <1>8, <2>1, DrainServes
  <2>2. CASE k # HookDispatch
    <3>1. Served(d, k)
      BY <1>8, <1>10, <2>2 DEF Members
    <3> QED
      BY <1>7, <1>8, <2>2, <3>1, DrainSpares
  <2> QED
    BY <2>1, <2>2
<1>12. Drain(d, HookDispatch) \in LaneTable
  BY <1>7, <1>8, DrainType
<1> QED
  BY <1>3, <1>11, <1>12, ServedFromInstall

LEMMA NextServes == TypeOK /\ AccountInv /\ NoStrandedWork /\ [Next]_vars => NoStrandedWork'
<1> SUFFICES ASSUME TypeOK, AccountInv, NoStrandedWork, [Next]_vars PROVE NoStrandedWork'
  OBVIOUS
<1>1. ASSUME NEW l \in Lanes, NEW p \in Priorities, NEW t \in TimeoutChoices,
             EnqueueCommandInLane(l, p, t)
      PROVE  NoStrandedWork'
  BY <1>1, EnqueueServes
<1>2. ASSUME NEW e \in Entries, Settle(e) PROVE NoStrandedWork'
  BY <1>2, SettleServes
<1>3. ASSUME NEW l \in Lanes, ClearCommandLane(l) PROVE NoStrandedWork'
  <2>1. queue \in [Lanes -> Seq(Entries)]
    BY DEF TypeOK
  <2>2. \A k \in Lanes : queue'[k] = <<>> \/ queue'[k] = queue[k]
    BY <1>3, <2>1 DEF ClearCommandLane
  <2>3. UNCHANGED <<active, maxConcurrent, group>>
    BY <1>3 DEF ClearCommandLane
  <2> QED
    BY <2>2, <2>3 DEF NoStrandedWork
<1>4. ASSUME NEW l \in Lanes, ResetCommandLane(l) PROVE NoStrandedWork'
  BY <1>4, ResetLaneServes
<1>5. ASSUME NEW l \in Members, ResetAllLanes(l) PROVE NoStrandedWork'
  BY <1>5, ResetAllServes
<1>6. ASSUME UNCHANGED <<queue, active, maxConcurrent, group>> PROVE NoStrandedWork'
  BY <1>6 DEF NoStrandedWork
<1>7. ASSUME NEW l \in FixedLanes, NEW width \in Widths, SetCommandLaneConcurrency(l, width)
      PROVE  NoStrandedWork'
  BY <1>7, SetConcurrencyServes
<1>8. ASSUME NEW hooks \in BOOLEAN, PublishLaneConfiguration(hooks) PROVE NoStrandedWork'
  BY <1>8, PublishServes
<1>9. MarkGatewayDraining \/ (\E w \in Waiters : WaitForActiveTasks(w) \/ WaiterTimeout(w))
        \/ UNCHANGED vars
      => UNCHANGED <<queue, active, maxConcurrent, group>>
  BY DEF MarkGatewayDraining, WaitForActiveTasks, WaiterTimeout, vars
<1> QED
  BY <1>1, <1>2, <1>3, <1>4, <1>5, <1>6, <1>7, <1>8, <1>9 DEF Next

\* No call leaves work waiting that could start: every lane that has work is blocked by
\* its width, by the shared budget or by its sibling's reservation, after whatever
\* sequence of enqueues, completions, timeouts, resets and publications.
THEOREM NothingStranded == Spec => []NoStrandedWork
<1>1. Init => NoStrandedWork
  BY DEF Init, NoStrandedWork
<1> QED
  BY <1>1, NextServes, AccountInvariance, PTL DEF Spec

-----------------------------------------------------------------------------
(* The reservation.  While the group stands cron-nested is admitted only as *)
(* long as the unused part of the reservation is left over.                *)

Spare(s) ==
  /\ WithinBudget(s)
  /\ ~s.group.installed => s.group.reserved = 0
  /\ Cardinality(s.active[CronNested]) <= CronBudget - s.group.reserved

ReservedInv == ~group.installed => group.reserved = 0

\* A pump of cron-nested leaves the reservation free, one of another lane does not
\* touch it.
LEMMA DrainSpare ==
  ASSUME NEW s \in LaneTable, NEW l \in Lanes, Spare(s)
  PROVE  Spare(Drain(s, l))
<1>1. /\ CronNested \in Lanes /\ HookDispatch \in Lanes /\ CronNested # HookDispatch
      /\ CronBudget \in Nat
  BY LanesAssumption, BudgetAssumption
<1>2. PICK d : d = Drain(s, l)
  OBVIOUS
<1>3. PICK n \in 0 .. Len(s.queue[l]) :
        /\ \A k \in 0 .. n - 1 : ~StopsAt(s, l, k)
        /\ d.active = [s.active EXCEPT ![l] = s.active[l] \union {s.queue[l][i] : i \in 1 .. n}]
        /\ d.width = s.width /\ d.group = s.group
  BY <1>2, DrainEffect
<1>4. /\ s.queue \in [Lanes -> Seq(Entries)] /\ s.active \in [Lanes -> SUBSET Entries]
      /\ s.width \in [Lanes -> Nat] /\ s.group.installed \in BOOLEAN
      /\ s.group.reserved \in Nat
  BY DEF LaneTable, Group
<1>5. d \in LaneTable /\ WithinBudget(d)
  BY <1>2, DrainType, DrainBudget DEF Spare
<1>6. Cardinality(d.active[CronNested]) <= CronBudget - s.group.reserved
  <2>1. CASE l # CronNested
    <3>1. d.active[CronNested] = s.active[CronNested]
      BY <1>1, <1>3, <1>4, <2>1, Zenon
    <3> QED
      BY <3>1 DEF Spare
  <2>2. CASE n = 0
    <3>1. {s.queue[l][i] : i \in 1 .. n} = {}
      BY <2>2
    <3>2. d.active[CronNested] = s.active[CronNested]
      BY <1>1, <1>3, <1>4, <3>1
    <3> QED
      BY <3>2 DEF Spare
  <2>3. CASE ~s.group.installed
    <3>1. Cardinality(d.active[CronNested]) \in Nat /\ Cardinality(d.active[HookDispatch]) \in Nat
      BY <1>1, <1>5, EntriesFinite DEF LaneTable
    <3> QED
      BY <1>1, <1>4, <1>5, <2>3, <3>1 DEF Spare, WithinBudget
  <2>4. CASE l = CronNested /\ n # 0 /\ s.group.installed
    <3> DEFINE B == [Busy(s.active) EXCEPT ![l] = @ + (n - 1)]
               a == Cardinality(s.active[CronNested])
               h == Cardinality(s.active[HookDispatch])
    <3>1. n \in Nat \ {0} /\ n - 1 \in 0 .. n - 1
      BY <1>1, <1>4, <2>4
    <3>2. BlockReason(s.width, s.group, B, l) = "none"
      BY <1>3, <3>1 DEF StopsAt
    <3>3. /\ Busy(s.active) \in [Lanes -> Nat] /\ a \in Nat /\ h \in Nat
          /\ Busy(s.active)[CronNested] = a /\ Busy(s.active)[HookDispatch] = h
      <4>1. /\ Busy(s.active) \in [Lanes -> Nat]
            /\ Busy(s.active)[CronNested] = a /\ Busy(s.active)[HookDispatch] = h
        BY <1>1, <1>4, BusyType
      <4> QED
        BY <1>1, <4>1
    <3>4. B \in [Lanes -> Nat] /\ B[CronNested] = a + (n - 1) /\ B[HookDispatch] = h
      BY <1>1, <2>4, <3>1, <3>3
    <3> HIDE DEF B, a, h
    <3>5. /\ Sibling(l) = HookDispatch /\ l \in Members /\ Reservation(s.group, l) = 0
          /\ Reservation(s.group, HookDispatch) = s.group.reserved
      BY <1>1, <2>4 DEF Sibling, Members, Reservation
    <3>6. s.group \in Group
      BY DEF LaneTable
    <3>7. ~(B[l] + B[HookDispatch] + Unused(s.group, B, HookDispatch) >= CronBudget)
      <4>1. ~ \/ B[l] >= s.width[l]
              \/ /\ s.group.installed /\ l \in Members
                 /\ \/ B[l] + B[Sibling(l)] >= CronBudget
                    \/ /\ B[l] >= Reservation(s.group, l)
                       /\ B[l] + B[Sibling(l)] + Unused(s.group, B, Sibling(l)) >= CronBudget
        BY <1>4, <3>2, <3>4, <3>6, Reasons
      <4>2. B[l] >= 0
        BY <1>1, <2>4, <3>4
      <4> QED
        BY <2>4, <3>5, <4>1, <4>2
    <3>8. Unused(s.group, B, HookDispatch) \in Nat
          /\ B[HookDispatch] + Unused(s.group, B, HookDispatch) >= s.group.reserved
      <4>1. B[HookDispatch] \in Nat /\ s.group.reserved \in Nat
        BY <1>4, <3>3, <3>4
      <4>2. Unused(s.group, B, HookDispatch)
              = IF s.group.reserved > B[HookDispatch]
                THEN s.group.reserved - B[HookDispatch] ELSE 0
        BY <3>5 DEF Unused
      <4> QED
        BY <4>1, <4>2
    <3>9. a + (n - 1) + s.group.reserved < CronBudget
      <4>1. PICK u \in Nat : u = Unused(s.group, B, HookDispatch)
        BY <3>8
      <4>2. h + u >= s.group.reserved
        BY <3>4, <3>8, <4>1
      <4>3. B[l] = a + (n - 1) /\ B[HookDispatch] = h
        BY <2>4, <3>4
      <4>4. ~((a + (n - 1)) + h + u >= CronBudget)
        BY <3>7, <4>1, <4>3
      <4>5. s.group.reserved \in Nat /\ CronBudget \in Nat /\ a \in Nat /\ h \in Nat /\ n - 1 \in Nat
        BY <1>1, <1>4, <3>1, <3>3
      <4> QED
        BY <4>1, <4>2, <4>4, <4>5
    <3>10. d.active[CronNested] = s.active[CronNested] \union {s.queue[l][i] : i \in 1 .. n}
      BY <1>1, <1>3, <1>4, <2>4, Zenon
    <3>11. Cardinality(d.active[CronNested]) <= a + n
      <4>1. s.active[CronNested] \in SUBSET Entries /\ s.queue[l] \in Seq(Entries)
        BY <1>1, <1>4
      <4> QED
        BY <3>10, <4>1, StartedBound DEF a
    <3>12. Cardinality(d.active[CronNested]) \in Nat
      BY <1>1, <1>5, EntriesFinite DEF LaneTable
    <3> QED
      BY <1>1, <1>4, <3>1, <3>3, <3>9, <3>11, <3>12
  <2> QED
    BY <1>4, <2>1, <2>2, <2>3, <2>4
<1> QED
  BY <1>2, <1>3, <1>5, <1>6 DEF Spare

LEMMA DrainSiblingsSpare ==
  ASSUME NEW s \in LaneTable, NEW l \in Lanes, Spare(s)
  PROVE  Spare(DrainSiblings(s, l))
  BY DrainSpare, LanesAssumption DEF DrainSiblings, Sibling, Members

\* Giving slots back keeps the reservation free.
LEMMA ReleasedSpare ==
  ASSUME NEW s \in LaneTable, NEW r \in LaneTable, Spare(s), r.width = s.width,
         r.group = s.group, \A k \in Lanes : r.active[k] \subseteq s.active[k]
  PROVE  Spare(r)
<1>1. \A k \in Lanes : /\ Cardinality(r.active[k]) \in Nat /\ Cardinality(s.active[k]) \in Nat
                       /\ Cardinality(r.active[k]) <= Cardinality(s.active[k])
  <2> TAKE k \in Lanes
  <2>1. r.active[k] \in SUBSET Entries /\ s.active[k] \in SUBSET Entries
    BY DEF LaneTable
  <2>2. IsFiniteSet(s.active[k])
    BY <2>1, EntriesFinite
  <2>3. Cardinality(r.active[k]) <= Cardinality(s.active[k])
    BY <2>2, FS_Subset
  <2> QED
    BY <2>1, <2>3, EntriesFinite
<1>2. s.group.reserved \in Nat
  BY DEF LaneTable, Group
<1> QED
  BY <1>1, <1>2, LanesAssumption, BudgetAssumption DEF Spare, WithinBudget

\* A table that is written back under the same group.
LEMMA SpareFromInstall ==
  ASSUME NEW s, NEW ent, NEW gen, Install(s, ent, gen), Spare(s)
  PROVE  ReservationFree'
  BY DEF Install, Spare, ReservationFree

\* A pump, and the sibling pump after it, leave the group alone.
LEMMA GroupDrained ==
  ASSUME NEW s \in LaneTable, NEW l \in Lanes
  PROVE  /\ Drain(s, l) \in LaneTable /\ Drain(s, l).group = s.group
         /\ DrainSiblings(Drain(s, l), l).group = s.group
<1>1. \A k \in Lanes, t \in LaneTable : Drain(t, k) \in LaneTable /\ Drain(t, k).group = t.group
  <2>1. ASSUME NEW k \in Lanes, NEW t \in LaneTable
        PROVE  Drain(t, k) \in LaneTable /\ Drain(t, k).group = t.group
    BY DrainType, DrainEffect
  <2> QED
    BY <2>1
<1>2. Drain(s, l) \in LaneTable /\ Drain(s, l).group = s.group
  BY <1>1
<1>3. Sibling(l) \in Lanes
  BY LanesAssumption DEF Sibling
<1>4. DrainSiblings(Drain(s, l), l).group = Drain(s, l).group
  BY <1>1, <1>2, <1>3 DEF DrainSiblings
<1> QED
  BY <1>2, <1>4

\* What is free before a step that keeps the group is free after it.
LEMMA StepSpare ==
  ASSUME TypeOK, AccountInv, BudgetInv, ReservedInv, ReservationFree, Next, group' = group
  PROVE  ReservationFree'
<1>1. Table \in LaneTable /\ Spare(Table)
  BY TableType DEF BudgetInv, ReservedInv, ReservationFree, Spare, Table
<1>2. ASSUME NEW l \in Lanes, NEW p \in Priorities, NEW t \in TimeoutChoices,
             EnqueueCommandInLane(l, p, t)
      PROVE  ReservationFree'
  <2>1. PICK ent : ent = [entry EXCEPT ![nextSequence] =
                            [lane |-> l, priority |-> p, timed |-> t,
                             state |-> "queued", generation |-> 0]]
    OBVIOUS
  <2>2. PICK s : s = [Table EXCEPT !.queue[l] = InsertEntry(ent, @, nextSequence)]
    OBVIOUS
  <2>3. Install(Drain(s, l), ent, generation)
    BY <1>2, <2>1, <2>2 DEF EnqueueCommandInLane
  <2>4. s \in LaneTable
    BY <1>2, <2>1, <2>2, EnqueueTable DEF EnqueueCommandInLane
  <2>5. s.width = Table.width /\ s.group = Table.group /\ s.active = Table.active
    BY <2>2 DEF Table
  <2>6. Spare(s)
    BY <1>1, <2>4, <2>5, ReleasedSpare
  <2> QED
    BY <2>3, <2>4, <2>6, DrainSpare, SpareFromInstall
<1>3. ASSUME NEW e \in Entries, Settle(e) PROVE ReservationFree'
  <2>1. PICK l \in Lanes : l = entry[e].lane
    BY DEF TypeOK
  <2>2. CASE entry[e].generation = generation[l]
    <3>1. PICK ent, r : /\ ent = Ended(e) /\ r = Given(l, e)
                        /\ Install(DrainSiblings(Drain(r, l), l), ent, generation)
      BY <1>3, <2>1, <2>2 DEF Settle, Given, Ended
    <3>2. r \in LaneTable /\ \A k \in Lanes : r.active[k] = active[k] \ {e}
      BY <1>3, <2>1, <3>1, SettleTable DEF Settle
    <3>3. r.width = Table.width /\ r.group = Table.group
          /\ \A k \in Lanes : r.active[k] \subseteq Table.active[k]
      BY <3>1, <3>2 DEF Given, Table
    <3>4. Spare(r)
      BY <1>1, <3>2, <3>3, ReleasedSpare
    <3>5. Spare(DrainSiblings(Drain(r, l), l))
      BY <3>2, <3>4, DrainType, DrainSpare, DrainSiblingsSpare
    <3> QED
      BY <3>1, <3>5, SpareFromInstall
  <2>3. CASE entry[e].generation # generation[l]
    BY <1>3, <2>1, <2>3 DEF Settle, ReservationFree
  <2> QED
    BY <2>2, <2>3
<1>4. ASSUME NEW l \in Lanes, ResetCommandLane(l) PROVE ReservationFree'
  <2>1. PICK r : /\ r = [Table EXCEPT !.active[l] = {}]
                 /\ Install(DrainSiblings(Drain(r, l), l), entry, NextGeneration(l))
    BY <1>4 DEF ResetCommandLane
  <2>2. r \in LaneTable
    BY <1>4, <2>1, ResetTable DEF ResetCommandLane
  <2>3. r.width = Table.width /\ r.group = Table.group
        /\ \A k \in Lanes : r.active[k] \subseteq Table.active[k]
    BY <2>1 DEF Table, TypeOK
  <2>4. Spare(r)
    BY <1>1, <2>2, <2>3, ReleasedSpare
  <2>5. Spare(DrainSiblings(Drain(r, l), l))
    BY <2>2, <2>4, DrainType, DrainSpare, DrainSiblingsSpare
  <2> QED
    BY <2>1, <2>5, SpareFromInstall
<1>5. ASSUME NEW first \in Members, ResetAllLanes(first) PROVE ReservationFree'
  <2>1. PICK r : r = [Table EXCEPT !.active = [l \in Lanes |-> {}]]
    OBVIOUS
  <2>2. PICK grouped : grouped = Drain(Drain(r, first), Sibling(first))
    OBVIOUS
  <2>3. PICK gen : gen = [l \in Lanes |-> IF l \in present THEN generation[l] + 1
                                          ELSE generation[l]]
    OBVIOUS
  <2>4. r \in LaneTable
    BY <2>1, <2>3, ResetAllTable
  <2>5. r.width = Table.width /\ r.group = Table.group
        /\ \A k \in Lanes : r.active[k] \subseteq Table.active[k]
    BY <2>1 DEF Table
  <2>6. first \in Lanes /\ Sibling(first) \in Lanes /\ CronNested \in Lanes
    BY LanesAssumption DEF Members, Sibling
  <2>7. Spare(r)
    BY <1>1, <2>4, <2>5, ReleasedSpare
  <2>8. grouped \in LaneTable /\ Spare(grouped)
    BY <2>2, <2>4, <2>6, <2>7, DrainType, DrainSpare
  <2>9. active'[CronNested] = grouped.active[CronNested] /\ group' = grouped.group
    BY <1>5, <2>1, <2>2, <2>6, <2>8 DEF ResetAllLanes, Install, Members, LaneTable
  <2> QED
    BY <2>8, <2>9 DEF Spare, ReservationFree
<1>6. ASSUME UNCHANGED active PROVE ReservationFree'
  BY <1>6 DEF ReservationFree
<1>7. ASSUME NEW l \in FixedLanes, NEW width \in Widths, SetCommandLaneConcurrency(l, width)
      PROVE  ReservationFree'
  <2>1. PICK r : r = [Table EXCEPT !.width[l] = width]
    OBVIOUS
  <2>2. Install(Drain(r, l), entry, generation)
    BY <1>7, <2>1 DEF SetCommandLaneConcurrency
  <2>3. l \in Lanes /\ width \in Nat /\ l \notin Members
    BY <1>7, BudgetAssumption DEF FixedLanes, Members
  <2>4. r \in LaneTable
    BY <2>1, <2>3, TableType DEF Table, LaneTable
  <2>5. /\ r.active = Table.active /\ r.group = Table.group
        /\ \A k \in Members : r.width[k] = Table.width[k]
    BY <1>1, <2>1, <2>3 DEF Table, LaneTable
  <2>6. Spare(r)
    BY <1>1, <2>5 DEF Spare, WithinBudget, Members
  <2> QED
    BY <2>2, <2>3, <2>4, <2>6, DrainSpare, SpareFromInstall
<1>8. ASSUME NEW hooks \in BOOLEAN, PublishLaneConfiguration(hooks) PROVE ReservationFree'
  <2>1. PICK r : r = Published(hooks)
    OBVIOUS
  <2>2. PICK s : s = Drain(Drain(r, CronNested), HookDispatch)
    OBVIOUS
  <2>3. Install(s, entry, generation)
    BY <1>8, <2>1, <2>2 DEF PublishLaneConfiguration
  <2>4. r \in LaneTable /\ CronNested \in Lanes /\ HookDispatch \in Lanes
    BY <2>1, PublishedType, LanesAssumption
  <2>5. s.group = r.group
    <3>1. Drain(r, CronNested) \in LaneTable /\ Drain(r, CronNested).group = r.group
      BY <2>4, GroupDrained
    <3> QED
      BY <2>2, <2>4, <3>1, GroupDrained
  <2>6. r.group = group
    BY <2>3, <2>5 DEF Install
  <2>7. /\ r.active = active /\ r.width[CronNested] = CronBudget
        /\ r.width[HookDispatch] = IF hooks THEN CronBudget ELSE 0
        /\ r.group.installed = (hooks \/ active[HookDispatch] # {})
    BY <1>1, <2>1, LanesAssumption DEF Published, PublishedGroup, Table, LaneTable
  <2>8. Spare(r)
    BY <1>1, <2>6, <2>7 DEF Spare, WithinBudget, Table
  <2>9. Drain(r, CronNested) \in LaneTable /\ Spare(Drain(r, CronNested))
    BY <2>4, <2>8, DrainType, DrainSpare
  <2>10. Spare(s)
    BY <2>2, <2>4, <2>9, DrainSpare
  <2> QED
    BY <2>3, <2>10, SpareFromInstall
<1>9. MarkGatewayDraining \/ (\E l \in Lanes : ClearCommandLane(l))
        \/ (\E w \in Waiters : WaitForActiveTasks(w) \/ WaiterTimeout(w))
      => UNCHANGED active
  BY DEF MarkGatewayDraining, ClearCommandLane, WaitForActiveTasks, WaiterTimeout
<1> QED
  BY <1>2, <1>3, <1>4, <1>5, <1>6, <1>7, <1>8, <1>9 DEF Next

\* Only a publication of the lane configuration changes the group.
LEMMA GroupKept ==
  ASSUME TypeOK, AccountInv, [Next]_vars
  PROVE  group' = group \/ \E hooks \in BOOLEAN : PublishLaneConfiguration(hooks)
<1>1. Table \in LaneTable /\ Table.group = group
  BY TableType DEF Table
<1>2. ASSUME NEW l \in Lanes, NEW p \in Priorities, NEW t \in TimeoutChoices,
             EnqueueCommandInLane(l, p, t)
      PROVE  group' = group
  <2>1. PICK ent : ent = [entry EXCEPT ![nextSequence] =
                            [lane |-> l, priority |-> p, timed |-> t,
                             state |-> "queued", generation |-> 0]]
    OBVIOUS
  <2>2. PICK s : s = [Table EXCEPT !.queue[l] = InsertEntry(ent, @, nextSequence)]
    OBVIOUS
  <2>3. Install(Drain(s, l), ent, generation)
    BY <1>2, <2>1, <2>2 DEF EnqueueCommandInLane
  <2>4. s \in LaneTable
    BY <1>2, <2>1, <2>2, EnqueueTable DEF EnqueueCommandInLane
  <2>5. s.group = group
    BY <2>2 DEF Table
  <2> QED
    BY GroupDrained, <2>3, <2>4, <2>5 DEF Install
<1>3. ASSUME NEW e \in Entries, Settle(e) PROVE group' = group
  <2>1. PICK l \in Lanes : l = entry[e].lane
    BY DEF TypeOK
  <2>2. CASE entry[e].generation = generation[l]
    <3>1. PICK ent, r : /\ ent = Ended(e) /\ r = Given(l, e)
                        /\ Install(DrainSiblings(Drain(r, l), l), ent, generation)
      BY <1>3, <2>1, <2>2 DEF Settle, Given, Ended
    <3>2. r \in LaneTable
      BY <1>3, <2>1, <3>1, SettleTable DEF Settle
    <3>3. r.group = group
      BY <3>1 DEF Given, Table
    <3> QED
      BY GroupDrained, <3>1, <3>2, <3>3 DEF Install
  <2>3. CASE entry[e].generation # generation[l]
    BY <1>3, <2>1, <2>3 DEF Settle
  <2> QED
    BY <2>2, <2>3
<1>4. ASSUME NEW l \in Lanes, ResetCommandLane(l) PROVE group' = group
  <2>1. PICK r : /\ r = [Table EXCEPT !.active[l] = {}]
                 /\ Install(DrainSiblings(Drain(r, l), l), entry, NextGeneration(l))
    BY <1>4 DEF ResetCommandLane
  <2>2. r \in LaneTable
    BY <1>4, <2>1, ResetTable DEF ResetCommandLane
  <2>3. r.group = group
    BY <2>1 DEF Table
  <2> QED
    BY GroupDrained, <2>1, <2>2, <2>3 DEF Install
<1>5. ASSUME NEW first \in Members, ResetAllLanes(first) PROVE group' = group
  <2>1. PICK r : r = [Table EXCEPT !.active = [l \in Lanes |-> {}]]
    OBVIOUS
  <2>2. PICK grouped : grouped = Drain(Drain(r, first), Sibling(first))
    OBVIOUS
  <2>3. PICK gen : gen = [l \in Lanes |-> IF l \in present THEN generation[l] + 1
                                          ELSE generation[l]]
    OBVIOUS
  <2>4. r \in LaneTable
    BY <2>1, <2>3, ResetAllTable
  <2>5. r.group = group
    BY <2>1 DEF Table
  <2>6. first \in Lanes /\ Sibling(first) \in Lanes
    BY LanesAssumption DEF Members, Sibling
  <2>7. grouped \in LaneTable /\ grouped.group = group
    BY GroupDrained, <2>2, <2>4, <2>5, <2>6
  <2>8. group' = grouped.group
    BY <1>5, <2>1, <2>2, <2>7 DEF ResetAllLanes, Install, LaneTable
  <2> QED
    BY <2>7, <2>8
<1>6. ASSUME NEW l \in FixedLanes, NEW width \in Widths, SetCommandLaneConcurrency(l, width)
      PROVE  group' = group
  <2>1. PICK r : r = [Table EXCEPT !.width[l] = width]
    OBVIOUS
  <2>2. Install(Drain(r, l), entry, generation)
    BY <1>6, <2>1 DEF SetCommandLaneConcurrency
  <2>3. l \in Lanes /\ width \in Nat
    BY <1>6, BudgetAssumption DEF FixedLanes
  <2>4. r \in LaneTable /\ r.group = group
    BY <2>1, <2>3, TableType DEF Table, LaneTable
  <2> QED
    BY GroupDrained, <2>2, <2>3, <2>4 DEF Install
<1>7. MarkGatewayDraining \/ (\E l \in Lanes : ClearCommandLane(l))
        \/ (\E w \in Waiters : WaitForActiveTasks(w) \/ WaiterTimeout(w)) \/ UNCHANGED vars
      => group' = group
  BY DEF MarkGatewayDraining, ClearCommandLane, WaitForActiveTasks, WaiterTimeout, vars
<1> QED
  BY <1>2, <1>3, <1>4, <1>5, <1>6, <1>7 DEF Next

\* A group that is not installed reserves nothing.
LEMMA NextReserved == TypeOK /\ AccountInv /\ ReservedInv /\ [Next]_vars => ReservedInv'
<1> SUFFICES ASSUME TypeOK, AccountInv, ReservedInv, [Next]_vars, group' # group PROVE ReservedInv'
  BY DEF ReservedInv
<1>1. Table \in LaneTable /\ Table.group = group /\ entry \in EntryTable
  BY TableType DEF Table, TypeOK, EntryTable
<1>2. ASSUME NEW hooks \in BOOLEAN, PublishLaneConfiguration(hooks) PROVE ReservedInv'
  <2>1. PICK s : s = Drain(Drain(Published(hooks), CronNested), HookDispatch)
    OBVIOUS
  <2>2. s.group = PublishedGroup(hooks)
    <3>1. Published(hooks).group = PublishedGroup(hooks)
      BY DEF Published, Table
    <3>2. Published(hooks) \in LaneTable /\ CronNested \in Lanes /\ HookDispatch \in Lanes
      BY PublishedType, LanesAssumption
    <3>3. /\ Drain(Published(hooks), CronNested) \in LaneTable
          /\ Drain(Published(hooks), CronNested).group = PublishedGroup(hooks)
      BY <3>1, <3>2, GroupDrained
    <3> QED
      BY <2>1, <3>2, <3>3, GroupDrained
  <2>3. group' = PublishedGroup(hooks)
    BY <1>2, <2>1, <2>2 DEF PublishLaneConfiguration, Install
  <2> QED
    BY <2>3 DEF ReservedInv, PublishedGroup
<1>3. group' = group \/ \E hooks \in BOOLEAN : PublishLaneConfiguration(hooks)
  BY GroupKept
<1> QED
  BY <1>2, <1>3

\* Siblings cannot borrow the hook reservation: while the published group stands, what
\* is free of it stays free, whatever is enqueued, settled, reset or published.
THEOREM ReservationHeld == Spec => ReservationKept
<1>1. Init => ReservedInv
  BY DEF Init, ReservedInv
<1>2. TypeOK /\ AccountInv /\ BudgetInv /\ ReservedInv /\ [Next]_vars
        => (group' = group /\ ReservationFree => ReservationFree')
  <2>1. UNCHANGED vars /\ ReservationFree => ReservationFree'
    BY DEF vars, ReservationFree
  <2> QED
    BY <2>1, StepSpare
<1> QED
  BY <1>1, <1>2, NextReserved, AccountInvariance, InitBudget, NextBudget, PTL
     DEF Spec, ReservationKept
=============================================================================
