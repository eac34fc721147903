------------------------ MODULE ConsentPipelineProofs ------------------------
(* Proofs about ConsentPipeline for every value of its constants.            *)
EXTENDS ConsentPipeline, TLAPS, FiniteSetTheorems, SequenceTheorems

-----------------------------------------------------------------------------
(* Least and greatest elements.                                              *)

\* A non-empty set of naturals has a least element, and Min is it: what the
\* horizon and the head of a drain pass rest on.
LEMMA MinOfNaturals ==
  ASSUME NEW S \in SUBSET Nat, S # {}
  PROVE  Min(S) \in S /\ \A y \in S : Min(S) <= y
<1> DEFINE R == {ss \in Nat \X Nat : ss[1] < ss[2]}
<1>1. IsWellFoundedOn(R, Nat)
  <2>1. OpToRel(<, Nat) = R
    BY DEF OpToRel
  <2> QED BY <2>1, NatLessThanWellFounded, Zenon
<1>2. \E x \in S : \A y \in S : ~ (<<y, x>> \in R)
  <2> HIDE DEF R
  <2> QED BY <1>1, WFMin
<1>3. PICK x \in S : \A y \in S : ~ (<<y, x>> \in R)
  BY <1>2
<1>4. \A y \in S : x <= y
  <2> TAKE y \in S
  <2>1. x \in Nat /\ y \in Nat /\ ~ (<<y, x>> \in R)
    BY <1>3
  <2>2. ~ (y < x)
    BY <2>1
  <2> QED BY <2>1, <2>2
<1> QED BY <1>4 DEF Min

\* A non-empty set of naturals with a bound has a greatest element, and Max is
\* it: what the last decision about a key and the last copy of an event rest on.
LEMMA MaxOfNaturals ==
  ASSUME NEW S \in SUBSET Nat, S # {}, NEW n \in Nat, \A y \in S : y <= n
  PROVE  Max(S) \in S /\ \A y \in S : Max(S) >= y
<1> DEFINE T == {n - y : y \in S}
<1>1. T \in SUBSET Nat /\ T # {}
  <2>1. \A y \in S : n - y \in Nat
    OBVIOUS
  <2> QED BY <2>1
<1>2. Min(T) \in T /\ \A z \in T : Min(T) <= z
  BY <1>1, MinOfNaturals
<1>3. PICK x \in S : Min(T) = n - x
  BY <1>2
<1>4. \A y \in S : x >= y
  <2> TAKE y \in S
  <2>1. n - x <= n - y
    BY <1>2, <1>3
  <2> QED BY <2>1
<1> QED BY <1>4 DEF Max

-----------------------------------------------------------------------------
(* The projections of the journal are well typed.                            *)

\* The view consent_snapshot_horizon (store.rs:209) is the end of the longest
\* positioned prefix, and a snapshot's stream sequence is a number.
LEMMA HorizonIsPrefixEnd ==
  ASSUME TypeOK
  PROVE  /\ Horizon \in 0..Len(journal)
         /\ \A i \in 1..Horizon : position[i] # 0
         /\ Horizon < Len(journal) => position[Horizon + 1] = 0
         /\ StreamSequence \in Nat
<1>1. Rows = 1..Len(journal) /\ Len(journal) \in Nat
  BY DEF TypeOK, Rows
<1>2. \A i \in Rows : position[i] \in Nat
  BY <1>1 DEF TypeOK
<1>3. CASE Unpublished = {}
  <2>1. Horizon = Len(journal)
    BY <1>3 DEF Horizon
  <2> QED BY <1>1, <1>2, <1>3, <2>1 DEF Unpublished, StreamSequence
<1>4. CASE Unpublished # {}
  <2>1. Unpublished \in SUBSET Nat
    BY <1>1 DEF Unpublished
  <2>2. Min(Unpublished) \in Unpublished /\ \A y \in Unpublished : Min(Unpublished) <= y
    BY <1>4, <2>1, MinOfNaturals
  <2>3. Horizon = Min(Unpublished) - 1
    BY <1>4 DEF Horizon
  <2>4. /\ Min(Unpublished) \in Rows /\ position[Min(Unpublished)] = 0
        /\ \A i \in Rows : position[i] = 0 => Min(Unpublished) <= i
    BY <2>2 DEF Unpublished
  <2>5. Horizon \in 0..Len(journal) /\ Horizon + 1 = Min(Unpublished)
    BY <1>1, <2>3, <2>4
  <2> QED BY <1>1, <1>2, <2>4, <2>5 DEF StreamSequence
<1> QED BY <1>3, <1>4

\* The last decision about a key among the first k rows is one of them.
LEMMA LatestDecides ==
  ASSUME TypeOK, NEW k \in 0..Len(journal), NEW key \in Keys, Deciding(k, key) # {}
  PROVE  /\ Max(Deciding(k, key)) \in Deciding(k, key)
         /\ \A i \in Deciding(k, key) : Max(Deciding(k, key)) >= i
         /\ Max(Deciding(k, key)) \in Rows
<1>1. Deciding(k, key) \in SUBSET Nat /\ \A i \in Deciding(k, key) : i <= k /\ i \in Rows
  BY DEF Deciding, TypeOK, Rows
<1>2. k \in Nat
  BY DEF TypeOK
<1>3. /\ Max(Deciding(k, key)) \in Deciding(k, key)
      /\ \A i \in Deciding(k, key) : Max(Deciding(k, key)) >= i
  BY <1>1, <1>2, MaxOfNaturals
<1> QED BY <1>1, <1>3

LEMMA StateAtType ==
  ASSUME TypeOK, NEW k \in 0..Len(journal)
  PROVE  StateAt(k) \in [Keys -> States \cup {"none"}]
<1>1. \A i \in Rows : journal[i].state \in States
  <2>1. \A i \in Rows : journal[i] \in Decision
    BY DEF TypeOK, Rows
  <2> QED BY <2>1 DEF Decision
<1>2. ASSUME NEW key \in Keys, Deciding(k, key) # {}
      PROVE  journal[Max(Deciding(k, key))].state \in States
  BY <1>1, <1>2, LatestDecides
<1> QED BY <1>2 DEF StateAt

\* The events keep their places when the bus stores another message.
LEMMA EventsOfAppend ==
  ASSUME TypeOK, NEW r, log' = Append(log, r)
  PROVE  Events \subseteq Events'
BY DEF TypeOK, Events

-----------------------------------------------------------------------------
(* Type correctness.                                                         *)

LEMMA TypeInit == Init => TypeOK
BY BoundsAssumption DEF Init, TypeOK, Rows, Events, EmptyCache, States

LEMMA TypeRecord ==
  ASSUME TypeOK, NEW d \in Takeable, Record(d)
  PROVE  TypeOK'
<1> USE DEF Record, busVars, durableVars, sensorVars, budgetVars
<1>1. d \in Decision
  BY TakeableAssumption
<1>2. journal' \in Seq(Decision) /\ position' \in Seq(Nat) /\ Len(position') = Len(journal')
  BY <1>1 DEF TypeOK
<1>3. Rows \subseteq Rows'
  BY <1>1 DEF TypeOK, Rows
<1>4. log' \in Seq(Rows' \cup {0})
  BY <1>3, SeqMonotonic DEF TypeOK
<1>5. Events' = Events
  BY DEF Events
<1> QED BY <1>2, <1>3, <1>4, <1>5 DEF TypeOK
\* The drain pass has a first row, and it is a row of the journal.
LEMMA HeadOfPass ==
  ASSUME TypeOK, waiting # {}
  PROVE  /\ Min(waiting) \in waiting /\ Min(waiting) \in Rows
         /\ \A i \in waiting : Min(waiting) <= i
<1>1. waiting \in SUBSET Nat /\ waiting \subseteq Rows
  BY DEF TypeOK, Rows
<1> QED BY <1>1, MinOfNaturals

\* What the bus does with a publication keeps the stream well typed.
LEMMA StoreType ==
  ASSUME TypeOK, NEW r \in Rows, NEW answer \in Nat, Store(r, answer),
         UNCHANGED journal
  PROVE  /\ log' \in Seq(Rows' \cup {0})
         /\ window' \subseteq Rows'
         /\ Events \subseteq Events'
<1>1. Rows' = Rows
  BY DEF Rows
<1>2. CASE r \in window
  BY <1>1, <1>2 DEF Store, busVars, TypeOK, Events
<1>3. CASE r \notin window
  <2>1. log' = Append(log, r) /\ window' = window \cup {r}
    BY <1>3 DEF Store
  <2>2. log' \in Seq(Rows' \cup {0}) /\ window' \subseteq Rows'
    BY <1>1, <2>1 DEF TypeOK
  <2>3. Events \subseteq Events'
    BY <2>1, EventsOfAppend
  <2> QED BY <2>2, <2>3
<1> QED BY <1>2, <1>3

LEMMA TypeDrain ==
  ASSUME TypeOK,
         DrainRead \/ DrainPublish \/ DrainUnacked \/ DrainAbandoned \/ DrainMark
  PROVE  TypeOK'
<1> USE DEF busVars, durableVars, sensorVars, budgetVars
<1>1. CASE DrainRead
  BY <1>1 DEF DrainRead, TypeOK, Rows, Events, Unpublished
<1>2. CASE DrainPublish
  <2>1. PICK answer \in 1..(Len(log) + 1) : Store(Min(waiting), answer) /\ ack' = answer
    BY <1>2 DEF DrainPublish
  <2>2. Min(waiting) \in Rows /\ answer \in Nat
    BY <1>2, HeadOfPass DEF DrainPublish, TypeOK
  <2>3. UNCHANGED <<journal, position, waiting, durableVars, sensorVars, budgetVars>>
    BY <1>2 DEF DrainPublish
  <2>4. /\ log' \in Seq(Rows' \cup {0}) /\ window' \subseteq Rows'
        /\ Events \subseteq Events' /\ Rows' = Rows
    BY <2>1, <2>2, <2>3, StoreType DEF Rows
  <2>5. inbox' \in Seq(Events')
    BY <2>3, <2>4, SeqMonotonic DEF TypeOK
  <2> QED BY <2>1, <2>2, <2>3, <2>4, <2>5 DEF TypeOK
<1>3. CASE DrainUnacked
  <2>1. PICK answer \in 1..(Len(log) + 1) : Store(Min(waiting), answer)
    BY <1>3 DEF DrainUnacked
  <2>2. Min(waiting) \in Rows /\ answer \in Nat
    BY <1>3, HeadOfPass DEF DrainUnacked, TypeOK
  <2>3. /\ UNCHANGED <<journal, position, ack, durableVars, sensorVars,
                       expiries, stops, lostAcks, rebuilds>>
        /\ waiting' = {} /\ failures' = failures + 1 /\ failures < MaxFailures
    BY <1>3 DEF DrainUnacked
  <2>4. /\ log' \in Seq(Rows' \cup {0}) /\ window' \subseteq Rows'
        /\ Events \subseteq Events' /\ Rows' = Rows
    BY <2>1, <2>2, <2>3, StoreType DEF Rows
  <2>5. inbox' \in Seq(Events')
    BY <2>3, <2>4, SeqMonotonic DEF TypeOK
  <2>6. failures' \in 0..MaxFailures
    BY <2>3, BoundsAssumption DEF TypeOK
  <2> QED BY <2>3, <2>4, <2>5, <2>6 DEF TypeOK
<1>4. CASE DrainAbandoned
  BY <1>4, BoundsAssumption DEF DrainAbandoned, TypeOK, Rows, Events
<1>5. CASE DrainMark
  <2> DEFINE row == Min(waiting)
             mark == IF position[row] = 0 THEN ack ELSE position[row]
  <2>1. row \in 1..Len(position)
    BY <1>5, HeadOfPass DEF DrainMark, TypeOK, Rows
  <2>2. position' \in Seq(Nat) /\ Len(position') = Len(position)
    <3>1. mark \in Nat
      BY <2>1 DEF TypeOK
    <3>2. position' = [position EXCEPT ![row] = mark]
      BY <1>5 DEF DrainMark
    <3> HIDE DEF row, mark
    <3> QED BY <2>1, <3>1, <3>2, ExceptSeq DEF TypeOK
  <2> QED BY <1>5, <2>2 DEF DrainMark, TypeOK, Rows, Events
<1> QED BY <1>1, <1>2, <1>3, <1>4, <1>5

LEMMA TypeBus ==
  ASSUME TypeOK,
         Traffic \/ (\E r \in window : WindowExpires(r)) \/ Deliver \/ Redeliver
  PROVE  TypeOK'
<1> USE DEF gatewayVars, busVars, durableVars, sensorVars, budgetVars
<1>1. CASE Traffic
  <2>1. Events \subseteq Events' /\ Rows' = Rows
    BY <1>1, EventsOfAppend DEF Traffic, Rows
  <2>2. inbox' \in Seq(Events')
    BY <1>1, <2>1, SeqMonotonic DEF Traffic, TypeOK
  <2>3. log' \in Seq(Rows' \cup {0})
    BY <1>1, <2>1 DEF Traffic, TypeOK
  <2> QED BY <1>1, <2>1, <2>2, <2>3 DEF Traffic, TypeOK
<1>2. CASE \E r \in window : WindowExpires(r)
  BY <1>2, BoundsAssumption DEF WindowExpires, TypeOK, Rows, Events
<1>3. CASE Deliver
  <2>1. PICK p \in Events : inbox' = Append(inbox, p) /\ pending' = pending \cup {p} /\ next' = p + 1
    BY <1>3 DEF Deliver
  <2>2. UNCHANGED <<journal, position, waiting, ack, log, window, phase, start, cache, calm,
                    failures, expiries, stops, lostAcks, rebuilds>>
    BY <1>3 DEF Deliver
  <2>3. Rows' = Rows /\ Events' = Events
    BY <2>2 DEF Rows, Events
  <2>4. inbox' \in Seq(Events)
    BY <2>1 DEF TypeOK
  <2>5. next' \in Nat /\ pending' \subseteq Events
    BY <2>1 DEF TypeOK, Events
  <2> QED BY <2>2, <2>3, <2>4, <2>5 DEF TypeOK
<1>4. CASE Redeliver
  <2>1. PICK p \in pending : inbox' = Append(inbox, p)
    BY <1>4 DEF Redeliver
  <2>2. UNCHANGED <<journal, position, waiting, ack, log, window, next, pending, phase, start, cache,
                    calm, failures, expiries, stops, lostAcks, rebuilds>>
    BY <1>4 DEF Redeliver
  <2>3. Rows' = Rows /\ Events' = Events
    BY <2>2 DEF Rows, Events
  <2>4. inbox' \in Seq(Events)
    BY <2>1 DEF TypeOK
  <2> QED BY <2>2, <2>3, <2>4 DEF TypeOK
<1> QED BY <1>1, <1>2, <1>3, <1>4

LEMMA TurnType ==
  ASSUME TypeOK, NEW p \in Events
  PROVE  Turn(p) \in [Keys -> States \cup {"none"}]
<1>1. log[p] \in Rows
  BY DEF TypeOK, Events
<1>2. journal[log[p]] \in Decision
  BY <1>1 DEF TypeOK, Rows
<1>3. journal[log[p]].state \in States
  BY <1>2 DEF Decision
<1> QED BY <1>3 DEF Turn, Applied, TypeOK

LEMMA TypeSensor ==
  ASSUME TypeOK,
         FetchSnapshot \/ OpenConsumer \/ Handle \/ HandleUnacked \/ Rebuild \/ SensorStops
  PROVE  TypeOK'
<1> USE DEF gatewayVars, busVars, durableVars, budgetVars
<1>1. CASE FetchSnapshot
  <2>1. start' \in Nat /\ cache' \in [Keys -> States \cup {"none"}]
    BY <1>1, HorizonIsPrefixEnd, StateAtType DEF FetchSnapshot
  <2>2. phase' = "ready" /\ calm' \in BOOLEAN
    BY <1>1 DEF FetchSnapshot
  <2>3. UNCHANGED <<gatewayVars, busVars, durableVars, inbox, budgetVars>>
    BY <1>1 DEF FetchSnapshot
  <2> QED BY <2>1, <2>2, <2>3 DEF TypeOK, Rows, Events
<1>2. CASE OpenConsumer
  BY <1>2 DEF OpenConsumer, TypeOK, Rows, Events
<1>3. CASE Handle
  <2>1. inbox # <<>> => Head(inbox) \in Events /\ Tail(inbox) \in Seq(Events)
    BY DEF TypeOK
  <2>2. cache' \in [Keys -> States \cup {"none"}]
    BY <1>3, <2>1, TurnType DEF Handle
  <2> QED BY <1>3, <2>1, <2>2 DEF Handle, TypeOK, Rows, Events
<1>4. CASE HandleUnacked
  <2>1. inbox # <<>> => Head(inbox) \in Events /\ Tail(inbox) \in Seq(Events)
    BY DEF TypeOK
  <2>2. cache' \in [Keys -> States \cup {"none"}]
    BY <1>4, <2>1, TurnType DEF HandleUnacked
  <2>3. lostAcks' \in 0..MaxLostAcks /\ calm' \in BOOLEAN
    <3>1. lostAcks' = lostAcks + 1 /\ lostAcks < MaxLostAcks /\ calm' = FALSE
      BY <1>4 DEF HandleUnacked
    <3>2. lostAcks \in Nat /\ MaxLostAcks \in Nat
      BY BoundsAssumption DEF TypeOK
    <3>3. lostAcks' \in 0..MaxLostAcks
      BY <3>1, <3>2
    <3>4. calm' \in BOOLEAN
      BY <3>1, Zenon
    <3> QED BY <3>3, <3>4
  <2>4. inbox' \in Seq(Events)
    BY <1>4, <2>1 DEF HandleUnacked
  <2>5. UNCHANGED <<gatewayVars, busVars, durableVars, phase, start,
                    failures, expiries, stops, rebuilds>>
    BY <1>4 DEF HandleUnacked
  <2> QED BY <2>2, <2>3, <2>4, <2>5 DEF TypeOK, Rows, Events
<1>5. CASE Rebuild
  BY <1>5, BoundsAssumption DEF Rebuild, TypeOK, Rows, Events
<1>6. CASE SensorStops
  BY <1>6, BoundsAssumption DEF SensorStops, TypeOK, Rows, Events, EmptyCache
<1> QED BY <1>1, <1>2, <1>3, <1>4, <1>5, <1>6

LEMMA TypeStep == TypeOK /\ [Next]_vars => TypeOK'
<1> SUFFICES ASSUME TypeOK, [Next]_vars PROVE TypeOK'
  OBVIOUS
<1>1. CASE UNCHANGED vars
  BY <1>1 DEF vars, gatewayVars, busVars, durableVars, sensorVars, budgetVars,
              TypeOK, Rows, Events
<1>2. CASE Next
  BY <1>2, TypeRecord, TypeDrain, TypeBus, TypeSensor DEF Next
<1> QED BY <1>1, <1>2

\* Every reachable state of the pipeline is well typed; in particular an event
\* in the Sensor's hands carries a row of the journal.
THEOREM TypeCorrect == Spec => []TypeOK
<1>1. Init => TypeOK
  BY TypeInit
<1>2. TypeOK /\ [Next]_vars => TypeOK'
  BY TypeStep
<1> QED BY <1>1, <1>2, PTL DEF Spec
-----------------------------------------------------------------------------
(* The outbox keeps the bus in the journal's order.                          *)

OutboxInv == TypeOK /\ DrainInv /\ PositionedPrefix

\* The row a pass is at is unpublished, every older row has its position, and
\* the bus holds no event of a younger one.
LEMMA RowInHand ==
  ASSUME OutboxInv, waiting # {}
  PROVE  /\ Min(waiting) \in Rows /\ Min(waiting) \in waiting
         /\ position[Min(waiting)] = 0
         /\ \A i \in waiting : Min(waiting) <= i
         /\ \A i \in Rows : i < Min(waiting) => position[i] # 0
         /\ \A p \in Events : log[p] <= Min(waiting)
<1>1. /\ Min(waiting) \in waiting /\ Min(waiting) \in Rows
      /\ \A i \in waiting : Min(waiting) <= i
  BY HeadOfPass DEF OutboxInv
<1>2. Min(waiting) \in Unpublished
  BY <1>1 DEF OutboxInv, DrainInv
<1>3. position[Min(waiting)] = 0
  BY <1>2 DEF Unpublished
<1>4. ASSUME NEW i \in Rows, i < Min(waiting), position[i] = 0
      PROVE  FALSE
  <2>1. i \in Unpublished
    BY <1>4 DEF Unpublished
  <2>2. i \in waiting
    BY <1>1, <1>4, <2>1 DEF OutboxInv, DrainInv
  <2>3. i \in Nat /\ Min(waiting) \in Nat
    BY <1>1 DEF OutboxInv, TypeOK, Rows
  <2> QED BY <1>1, <1>4, <2>2, <2>3
<1>5. ASSUME NEW p \in Events
      PROVE  log[p] <= Min(waiting)
  <2>1. log[p] \in Nat /\ Min(waiting) \in Nat
    BY <1>1 DEF OutboxInv, TypeOK, Rows, Events
  <2>2. Min(waiting) < log[p] => position[Min(waiting)] # 0
    BY <1>1 DEF OutboxInv, PositionedPrefix
  <2>3. ~ (Min(waiting) < log[p])
    BY <1>3, <2>2
  <2> QED BY <2>1, <2>3
<1> QED BY <1>1, <1>3, <1>4, <1>5

LEMMA OutboxInit == Init => DrainInv /\ PositionedPrefix
BY DEF Init, DrainInv, PositionedPrefix, Unpublished, Rows, Events, CopiesOf

\* A new row is the youngest and unpublished: nothing about the others changes.
LEMMA OutboxRecord ==
  ASSUME OutboxInv, NEW d \in Takeable, Record(d)
  PROVE  DrainInv' /\ PositionedPrefix'
<1> DEFINE n == Len(journal)
<1>1. n \in Nat /\ Rows = 1..n /\ Rows' = 1..(n + 1)
  <2>1. d \in Decision
    BY TakeableAssumption
  <2> QED BY <2>1 DEF Record, OutboxInv, TypeOK, Rows
<1>2. /\ \A i \in Rows : position'[i] = position[i]
      /\ position'[n + 1] = 0
  BY <1>1 DEF Record, OutboxInv, TypeOK
<1>3. UNCHANGED <<waiting, ack, log, window>>
  BY DEF Record, busVars
<1>4. Unpublished' = Unpublished \cup {n + 1}
  BY <1>1, <1>2 DEF Unpublished
<1>5. Events' = Events /\ \A r : CopiesOf(r)' = CopiesOf(r)
  BY <1>3 DEF Events, CopiesOf
<1>6. \A p \in Events : log[p] \in Rows
  BY DEF OutboxInv, TypeOK, Events
<1>7. DrainInv'
  <2>1. /\ waiting \subseteq Unpublished
        /\ \A i \in waiting : i \in 1..n
        /\ \A i \in waiting : \A j \in Unpublished : j < i => j \in waiting
    BY <1>1 DEF OutboxInv, DrainInv, TypeOK
  <2>2. \A i \in waiting' : \A j \in Unpublished' : j < i => j \in waiting'
    BY <1>1, <1>3, <1>4, <2>1
  <2>3. \A i \in Rows' : position'[i] # 0 =>
          /\ position'[i] \in CopiesOf(i)
          /\ \A p \in CopiesOf(i) : p <= position'[i]
    BY <1>1, <1>2 DEF OutboxInv, DrainInv
  <2>4. /\ ack # 0 => /\ waiting # {}
                      /\ ack \in CopiesOf(Min(waiting))
                      /\ \A p \in CopiesOf(Min(waiting)) : p <= ack
        /\ \A r \in window : CopiesOf(r) # {}
    BY DEF OutboxInv, DrainInv
  <2> HIDE DEF n
  <2> QED BY <1>3, <1>4, <1>5, <2>1, <2>2, <2>3, <2>4 DEF DrainInv
<1>8. PositionedPrefix'
  BY <1>1, <1>2, <1>3, <1>5, <1>6 DEF OutboxInv, PositionedPrefix
<1> QED BY <1>7, <1>8
\* The bus's part of a publication of the row in hand: stored under a new
\* sequence or recognised, the answer is the last copy of that row's event, and
\* the events stay in the journal's order.
LEMMA StoreInHand ==
  ASSUME OutboxInv, waiting # {}, NEW r, r = Min(waiting),
         NEW answer \in 1..(Len(log) + 1), Store(r, answer),
         UNCHANGED <<journal, position>>
  PROVE  /\ answer # 0
         /\ answer \in CopiesOf(r)'
         /\ \A p \in CopiesOf(r)' : p <= answer
         /\ \A i \in Rows : i # r => CopiesOf(i)' = CopiesOf(i)
         /\ \A i \in window' : CopiesOf(i)' # {}
         /\ PositionedPrefix'
<1>0. /\ r \in Rows /\ position[r] = 0
      /\ \A i \in Rows : i < r => position[i] # 0
      /\ \A p \in Events : log[p] <= r
  BY RowInHand
<1>1. /\ log \in Seq(Rows \cup {0}) /\ Len(log) \in Nat /\ Rows' = Rows
      /\ r \in Nat /\ r # 0
  BY <1>0 DEF OutboxInv, TypeOK, Rows
<1>2. CASE r \in window
  <2>1. answer = Max(CopiesOf(r)) /\ log' = log /\ window' = window
    BY <1>2 DEF Store, busVars
  <2>2. CopiesOf(r) # {} /\ CopiesOf(r) \in SUBSET Nat /\ \A p \in CopiesOf(r) : p <= Len(log)
    BY <1>1, <1>2 DEF OutboxInv, DrainInv, CopiesOf
  <2>3. answer \in CopiesOf(r) /\ \A p \in CopiesOf(r) : answer >= p
    BY <1>1, <2>1, <2>2, MaxOfNaturals
  <2>4. CopiesOf(r)' = CopiesOf(r) /\ \A i \in Rows : CopiesOf(i)' = CopiesOf(i)
    BY <2>1 DEF CopiesOf
  <2>5. PositionedPrefix'
    BY <1>1, <2>1 DEF OutboxInv, PositionedPrefix, Events
  <2>6. \A i \in window' : CopiesOf(i)' # {}
    BY <2>1, <2>4 DEF OutboxInv, DrainInv, TypeOK
  <2>7. answer # 0 /\ \A p \in CopiesOf(r) : p <= answer
    BY <1>1, <2>2, <2>3
  <2> QED BY <2>3, <2>4, <2>5, <2>6, <2>7
<1>3. CASE r \notin window
  <2>1. /\ answer = Len(log) + 1
        /\ log' = Append(log, r)
        /\ window' = window \cup {r}
    BY <1>3 DEF Store
  <2>2. /\ DOMAIN log = 1..Len(log) /\ DOMAIN log' = 1..(Len(log) + 1)
        /\ \A p \in 1..Len(log) : log'[p] = log[p]
        /\ log'[Len(log) + 1] = r
    BY <1>1, <2>1
  <2>3. /\ CopiesOf(r)' = CopiesOf(r) \cup {answer}
        /\ \A i \in Rows : i # r => CopiesOf(i)' = CopiesOf(i)
        /\ \A p \in CopiesOf(r) : p \in 1..Len(log)
    <3>1. DOMAIN log' = DOMAIN log \cup {answer} /\ answer \notin DOMAIN log
      BY <1>1, <2>1, <2>2
    <3>2. \A i : CopiesOf(i)' = {p \in DOMAIN log' : log'[p] = i}
      BY DEF CopiesOf
    <3>3. \A p \in DOMAIN log : log'[p] = log[p]
      BY <2>2
    <3>4. log'[answer] = r
      BY <2>1, <2>2
    <3>5. ASSUME NEW i \in Rows, i # r
          PROVE  CopiesOf(i)' = CopiesOf(i)
      BY <3>1, <3>2, <3>3, <3>4, <3>5 DEF CopiesOf
    <3>6. CopiesOf(r)' = CopiesOf(r) \cup {answer}
      BY <3>1, <3>2, <3>3, <3>4 DEF CopiesOf
    <3>7. \A p \in CopiesOf(r) : p \in 1..Len(log)
      BY <2>2 DEF CopiesOf
    <3> QED BY <3>5, <3>6, <3>7
  <2>4. Events' = Events \cup {answer} /\ \A p \in Events : p \in 1..Len(log) /\ log[p] \in Rows
    BY <1>1, <2>1, <2>2 DEF Events
  <2>5. PositionedPrefix'
    <3>1. \A i, j \in Rows' : i < j /\ position'[j] # 0 => position'[i] # 0
      BY <1>1 DEF OutboxInv, PositionedPrefix
    <3>2. \A p, q \in Events' : p < q => log'[p] <= log'[q]
      <4> TAKE p, q \in Events'
      <4>1. CASE p \in Events /\ q \in Events
        BY <4>1, <2>2, <2>4 DEF OutboxInv, PositionedPrefix
      <4>2. CASE p \in Events /\ q = answer
        BY <4>2, <1>0, <2>1, <2>2, <2>4
      <4>3. CASE p = answer
        BY <4>3, <1>1, <2>1, <2>2, <2>4
      <4> QED BY <4>1, <4>2, <4>3, <2>4
    <3>3. \A p \in Events' : \A i \in Rows' : i < log'[p] => position'[i] # 0
      <4> TAKE p \in Events'
      <4>1. CASE p \in Events
        BY <4>1, <1>1, <2>2, <2>4 DEF OutboxInv, PositionedPrefix
      <4>2. CASE p = answer
        BY <4>2, <1>0, <1>1, <2>1, <2>2
      <4> QED BY <4>1, <4>2, <2>4
    <3> QED BY <3>1, <3>2, <3>3 DEF PositionedPrefix
  <2>6. \A i \in window' : CopiesOf(i)' # {}
    <3> TAKE i \in window'
    <3>1. CASE i = r
      BY <2>3, <3>1
    <3>2. CASE i # r
      BY <2>1, <2>3, <3>2 DEF OutboxInv, DrainInv, TypeOK
    <3> QED BY <3>1, <3>2
  <2>7. answer # 0 /\ answer \in CopiesOf(r)' /\ \A p \in CopiesOf(r)' : p <= answer
    BY <1>1, <2>1, <2>3
  <2> QED BY <2>3, <2>5, <2>6, <2>7
<1> QED BY <1>2, <1>3

LEMMA OutboxDrain ==
  ASSUME OutboxInv,
         DrainRead \/ DrainPublish \/ DrainUnacked \/ DrainAbandoned \/ DrainMark
  PROVE  DrainInv' /\ PositionedPrefix'
<1> USE DEF busVars
<1>0. \A i \in Rows : position[i] \in Nat /\ i \in Nat
  BY DEF OutboxInv, TypeOK, Rows
<1>1. CASE DrainRead
  <2>1. UNCHANGED <<journal, position, ack, log, window>>
    BY <1>1 DEF DrainRead
  <2>2. ack' = 0
    BY <1>1, <2>1 DEF DrainRead, OutboxInv, DrainInv
  <2>3. waiting' \subseteq Unpublished
    BY <1>1 DEF DrainRead
  <2>4. ASSUME NEW i \in waiting', NEW j \in Unpublished, j < i
        PROVE  j \in waiting'
    <3> DEFINE below(k) == {x \in Unpublished : x < k}
    <3>1. i \in Unpublished /\ Cardinality(below(i)) < DrainBatch
      BY <1>1, <2>4 DEF DrainRead
    <3>2. IsFiniteSet(Unpublished)
      <4>1. Unpublished \subseteq 1..Len(journal) /\ Len(journal) \in Nat
        BY DEF Unpublished, Rows, OutboxInv, TypeOK
      <4>2. IsFiniteSet(1..Len(journal))
        BY <4>1, FS_Interval
      <4> QED BY <4>1, <4>2, FS_Subset
    <3>3. IsFiniteSet(below(i)) /\ below(j) \subseteq below(i)
      <4>1. below(i) \subseteq Unpublished
        OBVIOUS
      <4>2. \A x \in Unpublished : x < j => x < i
        BY <1>0, <2>4, <3>1 DEF Unpublished
      <4> QED BY <3>2, <4>1, <4>2, FS_Subset
    <3>4. /\ Cardinality(below(j)) <= Cardinality(below(i))
          /\ Cardinality(below(j)) \in Nat /\ Cardinality(below(i)) \in Nat
      <4> HIDE DEF below
      <4> QED BY <3>3, FS_Subset, FS_CardinalityType
    <3>5. Cardinality(below(j)) < DrainBatch
      BY <3>1, <3>4, BatchAssumption
    <3> QED BY <1>1, <2>4, <3>5 DEF DrainRead
  <2>5. Unpublished' = Unpublished /\ Rows' = Rows /\ \A r : CopiesOf(r)' = CopiesOf(r)
    BY <2>1 DEF Unpublished, Rows, CopiesOf
  <2>6. DrainInv'
    BY <2>1, <2>2, <2>3, <2>4, <2>5 DEF OutboxInv, DrainInv
  <2>7. PositionedPrefix'
    BY <2>1 DEF OutboxInv, PositionedPrefix, Rows, Events
  <2> QED BY <2>6, <2>7
<1>2. CASE DrainPublish \/ DrainUnacked
  <2>1. PICK r \in Rows : r = Min(waiting)
    BY <1>2, RowInHand DEF DrainPublish, DrainUnacked
  <2>2. PICK answer \in 1..(Len(log) + 1) :
          Store(r, answer) /\ (DrainPublish => ack' = answer)
    <3>1. CASE DrainPublish
      BY <2>1, <3>1 DEF DrainPublish
    <3>2. CASE DrainUnacked /\ ~ DrainPublish
      BY <2>1, <3>2 DEF DrainUnacked
    <3> QED BY <1>2, <3>1, <3>2
  <2>3. waiting # {} /\ UNCHANGED <<journal, position>>
    BY <1>2 DEF DrainPublish, DrainUnacked
  <2>4. /\ answer # 0
        /\ answer \in CopiesOf(r)'
        /\ \A p \in CopiesOf(r)' : p <= answer
        /\ \A i \in Rows : i # r => CopiesOf(i)' = CopiesOf(i)
        /\ \A i \in window' : CopiesOf(i)' # {}
        /\ PositionedPrefix'
    BY <2>1, <2>2, <2>3, StoreInHand
  <2>5. Unpublished' = Unpublished /\ Rows' = Rows
    BY <2>3 DEF Unpublished, Rows
  <2>6. \A i \in Rows : position[i] # 0 => i # r
    BY <2>1, <2>3, RowInHand
  <2>7. \A i \in Rows' : position'[i] # 0 =>
          position'[i] \in CopiesOf(i)' /\ \A p \in CopiesOf(i)' : p <= position'[i]
    BY <2>3, <2>4, <2>5, <2>6 DEF OutboxInv, DrainInv
  <2>8. CASE DrainPublish
    <3>1. waiting' = waiting /\ ack' = answer
      BY <2>2, <2>8 DEF DrainPublish
    <3>2. Min(waiting') = r
      BY <2>1, <3>1
    <3>3. /\ waiting' \subseteq Unpublished'
          /\ \A i \in waiting' : \A j \in Unpublished' : j < i => j \in waiting'
      BY <2>5, <3>1 DEF OutboxInv, DrainInv
    <3> QED BY <2>3, <2>4, <2>7, <3>1, <3>2, <3>3 DEF DrainInv
  <2>9. CASE DrainUnacked
    <3>1. waiting' = {} /\ ack' = 0
      BY <2>9 DEF DrainUnacked
    <3> QED BY <2>4, <2>7, <3>1 DEF DrainInv
  <2> QED BY <1>2, <2>8, <2>9
<1>3. CASE DrainAbandoned
  <2>1. waiting' = {} /\ ack' = 0 /\ UNCHANGED <<journal, position, log, window>>
    BY <1>3 DEF DrainAbandoned
  <2> QED BY <2>1 DEF OutboxInv, DrainInv, PositionedPrefix, Unpublished, Rows, Events, CopiesOf
<1>4. CASE DrainMark
  <2> DEFINE row == Min(waiting)
  <2>1. /\ row \in Rows /\ row \in waiting /\ position[row] = 0
        /\ \A i \in Rows : i < row => position[i] # 0
        /\ \A i \in waiting : row <= i
    BY <1>4, RowInHand DEF DrainMark
  <2>2. /\ position' = [position EXCEPT ![row] = ack] /\ ack # 0
        /\ waiting' = waiting \ {row} /\ ack' = 0
        /\ UNCHANGED <<journal, log, window>>
    BY <1>4, <2>1 DEF DrainMark
  <2>3. /\ Rows' = Rows /\ row \in DOMAIN position
        /\ \A i \in Rows : i # row => position'[i] = position[i]
        /\ position'[row] = ack
    BY <2>1, <2>2 DEF Rows, OutboxInv, TypeOK
  <2> HIDE DEF row
  <2>4. Unpublished' = Unpublished \ {row}
    BY <2>2, <2>3 DEF Unpublished
  <2>5. \A r : CopiesOf(r)' = CopiesOf(r)
    BY <2>2 DEF CopiesOf
  <2>6. DrainInv'
    <3>1. waiting' \subseteq Unpublished'
      BY <2>2, <2>4 DEF OutboxInv, DrainInv
    <3>2. \A i \in waiting' : \A j \in Unpublished' : j < i => j \in waiting'
      BY <2>2, <2>4 DEF OutboxInv, DrainInv
    <3>3. \A i \in Rows' : position'[i] # 0 =>
            position'[i] \in CopiesOf(i) /\ \A p \in CopiesOf(i) : p <= position'[i]
      BY <2>2, <2>3 DEF OutboxInv, DrainInv, row
    <3>4. \A r \in window' : CopiesOf(r) # {}
      BY <2>2 DEF OutboxInv, DrainInv
    <3> QED BY <2>2, <2>5, <3>1, <3>2, <3>3, <3>4 DEF DrainInv
  <2>7. PositionedPrefix'
    <3>1. \A i, j \in Rows' : i < j /\ position'[j] # 0 => position'[i] # 0
      BY <2>1, <2>2, <2>3, <1>0 DEF OutboxInv, PositionedPrefix
    <3>2. Events' = Events
      BY <2>2 DEF Events
    <3>3. \A i \in Rows : position[i] # 0 => position'[i] # 0
      BY <2>2, <2>3
    <3> QED BY <2>2, <2>3, <3>1, <3>2, <3>3 DEF OutboxInv, PositionedPrefix
  <2> QED BY <2>6, <2>7
<1> QED BY <1>1, <1>2, <1>3, <1>4
\* Traffic on other subjects and ids that leave the duplicate window disturb
\* neither the copies of an event nor their order.
LEMMA OutboxBus ==
  ASSUME OutboxInv, Traffic \/ (\E r \in window : WindowExpires(r))
  PROVE  DrainInv' /\ PositionedPrefix'
<1> USE DEF gatewayVars
<1>1. UNCHANGED <<journal, position, waiting, ack>>
  BY DEF Traffic, WindowExpires
<1>2. Rows' = Rows /\ Unpublished' = Unpublished
  BY <1>1 DEF Rows, Unpublished
<1>3. window' \subseteq window
  BY DEF Traffic, WindowExpires
<1>4. /\ Events' = Events
      /\ \A p \in Events : log'[p] = log[p]
      /\ \A i : i # 0 => CopiesOf(i)' = CopiesOf(i)
  <2>1. CASE Traffic
    <3>1. log' = Append(log, 0) /\ log \in Seq(Rows \cup {0})
      BY <2>1 DEF Traffic, OutboxInv, TypeOK
    <3>2. /\ DOMAIN log = 1..Len(log) /\ DOMAIN log' = 1..(Len(log) + 1)
          /\ Len(log) \in Nat
          /\ \A p \in DOMAIN log : log'[p] = log[p]
          /\ log'[Len(log) + 1] = 0
      BY <3>1
    <3> QED BY <3>2 DEF Events, CopiesOf
  <2>2. CASE \E r \in window : WindowExpires(r)
    BY <2>2 DEF WindowExpires, Events, CopiesOf
  <2> QED BY <2>1, <2>2
<1>5. \A i \in Rows : i # 0
  BY DEF OutboxInv, TypeOK, Rows
<1>6. DrainInv'
  <2>1. \A i \in Rows : CopiesOf(i)' = CopiesOf(i)
    BY <1>4, <1>5
  <2>2. waiting \subseteq Rows /\ window \subseteq Rows
    BY DEF OutboxInv, TypeOK
  <2>3. ack # 0 => /\ waiting # {} /\ Min(waiting) \in Rows
                   /\ ack \in CopiesOf(Min(waiting))
                   /\ \A p \in CopiesOf(Min(waiting)) : p <= ack
    BY RowInHand DEF OutboxInv, DrainInv
  <2>4. ack # 0 => /\ waiting # {}
                   /\ ack \in CopiesOf(Min(waiting))'
                   /\ \A p \in CopiesOf(Min(waiting))' : p <= ack
    <3> SUFFICES ASSUME ack # 0
                 PROVE  /\ ack \in CopiesOf(Min(waiting))'
                        /\ \A p \in CopiesOf(Min(waiting))' : p <= ack
      BY <2>3
    <3>1. PICK r \in Rows : r = Min(waiting)
      BY <2>3
    <3>2. Min(waiting)' = r
      BY <1>1, <3>1
    <3> QED BY <2>1, <2>3, <3>1, <3>2
  <2> QED BY <1>1, <1>2, <1>3, <2>1, <2>2, <2>4 DEF OutboxInv, DrainInv
<1>7. PositionedPrefix'
  BY <1>1, <1>2, <1>4 DEF OutboxInv, PositionedPrefix
<1> QED BY <1>6, <1>7

LEMMA OutboxStep == OutboxInv /\ [Next]_vars => OutboxInv'
<1> SUFFICES ASSUME OutboxInv, [Next]_vars PROVE DrainInv' /\ PositionedPrefix'
  BY TypeStep DEF OutboxInv
<1>1. CASE UNCHANGED <<gatewayVars, busVars>>
  BY <1>1 DEF gatewayVars, busVars, OutboxInv, DrainInv, PositionedPrefix,
              Unpublished, Rows, Events, CopiesOf
<1>2. CASE \E d \in Takeable : Record(d)
  BY <1>2, OutboxRecord
<1>3. CASE DrainRead \/ DrainPublish \/ DrainUnacked \/ DrainAbandoned \/ DrainMark
  BY <1>3, OutboxDrain
<1>4. CASE Traffic \/ \E r \in window : WindowExpires(r)
  BY <1>4, OutboxBus
<1>5. CASE \/ Deliver \/ Redeliver
           \/ FetchSnapshot \/ OpenConsumer \/ Handle \/ HandleUnacked
           \/ Rebuild \/ SensorStops
  BY <1>1, <1>5 DEF Deliver, Redeliver, FetchSnapshot, OpenConsumer, Handle,
                    HandleUnacked, Rebuild, SensorStops
<1>6. CASE UNCHANGED vars
  BY <1>1, <1>6 DEF vars
<1> QED BY <1>2, <1>3, <1>4, <1>5, <1>6 DEF Next

LEMMA OutboxInvariant == Spec => []OutboxInv
<1>1. Init => OutboxInv
  BY TypeInit, OutboxInit DEF OutboxInv
<1>2. OutboxInv /\ [Next]_vars => OutboxInv'
  BY OutboxStep
<1> QED BY <1>1, <1>2, PTL DEF Spec

\* The comment on the view consent_snapshot_horizon holds for every schedule of
\* crashes, lost acks, duplicates and foreign traffic: the positioned rows are a
\* prefix of the journal and the bus's order is the journal's.
THEOREM BusOrderIsJournalOrder == Spec => []PositionedPrefix
<1>1. OutboxInv => PositionedPrefix
  BY DEF OutboxInv
<1> QED BY <1>1, OutboxInvariant, PTL

\* The strengthening itself, which a run checks as well.
THEOREM PassesWorkInOrder == Spec => []DrainInv
<1>1. OutboxInv => DrainInv
  BY DEF OutboxInv
<1> QED BY <1>1, OutboxInvariant, PTL

\* The positions recorded in the journal grow with it.
LEMMA PositionsGrow ==
  ASSUME OutboxInv, NEW i \in Rows, NEW j \in Rows, i < j, position[j] # 0
  PROVE  /\ position[i] \in Events /\ position[j] \in Events
         /\ log[position[i]] = i /\ log[position[j]] = j
         /\ position[i] < position[j]
<1>1. position[i] # 0
  BY DEF OutboxInv, PositionedPrefix
<1>2. position[i] \in CopiesOf(i) /\ position[j] \in CopiesOf(j)
  BY <1>1 DEF OutboxInv, DrainInv
<1>3. /\ i \in Nat \ {0} /\ j \in Nat \ {0}
      /\ position[i] \in Nat /\ position[j] \in Nat
  BY DEF OutboxInv, TypeOK, Rows
<1>4. /\ position[i] \in Events /\ position[j] \in Events
      /\ log[position[i]] = i /\ log[position[j]] = j
  BY <1>2, <1>3 DEF CopiesOf, Events
<1>5. position[j] < position[i] => j <= i
  BY <1>4 DEF OutboxInv, PositionedPrefix
<1>6. position[j] # position[i]
  BY <1>3, <1>4
<1> QED BY <1>3, <1>4, <1>5, <1>6

\* An event is on one side of the snapshot's position exactly as its row is on
\* one side of the horizon.
LEMMA OutboxHandsOff == OutboxInv => HandOff
<1> SUFFICES ASSUME OutboxInv, NEW p \in Events
             PROVE  (p <= StreamSequence) <=> (log[p] <= Horizon)
  BY DEF HandOff
<1>1. /\ log[p] \in Rows /\ log[p] \in Nat /\ log[p] # 0 /\ p \in Nat /\ p # 0
      /\ p \in CopiesOf(log[p])
  BY DEF OutboxInv, TypeOK, Events, Rows, CopiesOf
<1>2. /\ Horizon \in 0..Len(journal)
      /\ \A i \in 1..Horizon : position[i] # 0
      /\ StreamSequence \in Nat
      /\ Len(journal) \in Nat /\ Rows = 1..Len(journal)
  BY HorizonIsPrefixEnd DEF OutboxInv, TypeOK, Rows
<1>3. CASE Horizon = 0
  BY <1>1, <1>2, <1>3 DEF StreamSequence
<1>4. CASE Horizon # 0
  <2>1. Horizon \in Rows /\ position[Horizon] # 0 /\ StreamSequence = position[Horizon]
    BY <1>2, <1>4 DEF StreamSequence
  <2>2. /\ StreamSequence \in CopiesOf(Horizon)
        /\ \A q \in CopiesOf(Horizon) : q <= StreamSequence
    BY <2>1 DEF OutboxInv, DrainInv
  <2>3. StreamSequence \in Events /\ log[StreamSequence] = Horizon
    BY <1>4, <2>2 DEF CopiesOf, Events
  <2>4. ASSUME p <= StreamSequence
        PROVE  log[p] <= Horizon
    <3>1. p < StreamSequence => log[p] <= log[StreamSequence]
      BY <2>3 DEF OutboxInv, PositionedPrefix
    <3> QED BY <1>1, <1>2, <2>3, <2>4, <3>1
  <2>5. ASSUME log[p] <= Horizon
        PROVE  p <= StreamSequence
    <3>1. CASE log[p] = Horizon
      BY <1>1, <2>2, <3>1
    <3>2. CASE log[p] < Horizon
      <4>1. position[log[p]] < position[Horizon]
        BY <1>1, <2>1, <3>2, PositionsGrow
      <4>2. position[log[p]] # 0
        BY <1>1, <1>2, <3>2
      <4>3. p <= position[log[p]]
        BY <1>1, <4>2 DEF OutboxInv, DrainInv
      <4>4. position[log[p]] \in Nat
        <5>1. \A i \in Rows : position[i] \in Nat
          BY DEF OutboxInv, TypeOK, Rows
        <5> QED BY <1>1, <5>1
      <4> QED BY <1>1, <2>1, <4>1, <4>3, <4>4, <1>2
    <3> QED BY <1>1, <1>2, <2>5, <3>1, <3>2
  <2> QED BY <2>4, <2>5
<1> QED BY <1>3, <1>4

\* "In the snapshot, or on the stream after `stream_sequence`. Never both, never
\* neither" (consent_snapshot.rs:12), for every state a snapshot can be read in.
THEOREM SnapshotHandsOff == Spec => []HandOff
BY OutboxHandsOff, OutboxInvariant, PTL

-----------------------------------------------------------------------------
(* The last row before a stream sequence, and the cache it stands for.       *)

\* LastRowBefore is the greatest row among the events before p, 0 with none.
LEMMA LastRow ==
  ASSUME TypeOK, NEW p \in Nat
  PROVE  /\ LastRowBefore(p) \in 0..Len(journal)
         /\ \A q \in Events : q < p => log[q] <= LastRowBefore(p)
         /\ LastRowBefore(p) # 0 => \E q \in Events : q < p /\ log[q] = LastRowBefore(p)
<1> DEFINE S == {0} \cup {log[q] : q \in {e \in Events : e < p}}
<1>1. Len(journal) \in Nat /\ \A q \in Events : log[q] \in 1..Len(journal)
  BY DEF TypeOK, Events, Rows
<1>2. S \in SUBSET Nat /\ S # {} /\ \A y \in S : y \in 0..Len(journal)
  BY <1>1
<1>3. Max(S) \in S /\ \A y \in S : Max(S) >= y
  <2> HIDE DEF S
  <2>1. \A y \in S : y <= Len(journal)
    BY <1>1, <1>2
  <2> QED BY <1>1, <1>2, <2>1, MaxOfNaturals
<1>4. LastRowBefore(p) = Max(S)
  BY DEF LastRowBefore
<1> HIDE DEF S
<1>5. \A q \in Events : q < p => log[q] \in S
  BY DEF S
<1>6. \A y \in S : y # 0 => \E q \in Events : q < p /\ log[q] = y
  BY DEF S
<1>7. LastRowBefore(p) \in S /\ \A y \in S : y <= LastRowBefore(p)
  BY <1>2, <1>3, <1>4
<1>8. LastRowBefore(p) \in 0..Len(journal)
  BY <1>2, <1>7
<1> QED BY <1>5, <1>6, <1>7, <1>8

\* It is the only row of that description.
LEMMA LastRowIs ==
  ASSUME TypeOK, NEW p \in Nat, NEW k \in Nat,
         \A q \in Events : q < p => log[q] <= k,
         k # 0 => \E q \in Events : q < p /\ log[q] = k
  PROVE  LastRowBefore(p) = k
<1>1. /\ LastRowBefore(p) \in Nat
      /\ \A q \in Events : q < p => log[q] <= LastRowBefore(p)
      /\ LastRowBefore(p) # 0 => \E q \in Events : q < p /\ log[q] = LastRowBefore(p)
  BY LastRow
<1>2. \A q \in Events : log[q] \in Nat
  BY DEF TypeOK, Events, Rows
<1>3. k <= LastRowBefore(p)
  BY <1>1, <1>2
<1>4. LastRowBefore(p) <= k
  BY <1>1, <1>2
<1> QED BY <1>1, <1>3, <1>4

\* Two stream sequences with the same events before them have the same last row.
LEMMA SameLastRow ==
  ASSUME NEW p, NEW q, \A e \in Events : e < p <=> e < q
  PROVE  LastRowBefore(p) = LastRowBefore(q)
<1>1. {e \in Events : e < p} = {e \in Events : e < q}
  OBVIOUS
<1> QED BY <1>1 DEF LastRowBefore

\* What the bus stores next is behind every stream sequence it had.
LEMMA LastRowKept ==
  ASSUME TypeOK, log' = log \/ (\E r : log' = Append(log, r)),
         NEW p \in Nat, p <= Len(log) + 1
  PROVE  /\ LastRowBefore(p)' = LastRowBefore(p)
         /\ \A e \in Events' : e \in Events \/ e = Len(log) + 1
         /\ Events \subseteq Events'
         /\ Len(log) <= Len(log')
<1>1. CASE log' = log
  BY <1>1 DEF LastRowBefore, Events, TypeOK
<1>2. CASE \E r : log' = Append(log, r)
  <2>1. /\ DOMAIN log = 1..Len(log) /\ DOMAIN log' = 1..(Len(log) + 1) /\ Len(log) \in Nat
        /\ Len(log') = Len(log) + 1
        /\ \A e \in 1..Len(log) : log'[e] = log[e]
    BY <1>2 DEF TypeOK
  <2>2. \A e \in 1..Len(log) : e \in Events' <=> e \in Events
    BY <2>1 DEF Events
  <2>3. /\ \A e \in Events' : e \in 1..(Len(log) + 1)
        /\ \A e \in Events : e \in 1..Len(log)
    BY <2>1 DEF Events
  <2>4. {e \in Events' : e < p} = {e \in Events : e < p}
    BY <2>1, <2>2, <2>3
  <2>5. {log'[e] : e \in {x \in Events' : x < p}} = {log[e] : e \in {x \in Events : x < p}}
    BY <2>1, <2>3, <2>4
  <2>6. LastRowBefore(p)' = LastRowBefore(p)
    BY <2>5 DEF LastRowBefore
  <2>7. \A e \in Events' : e \in Events \/ e = Len(log) + 1
    BY <2>1, <2>2, <2>3
  <2>8. Events \subseteq Events'
    BY <2>2, <2>3
  <2> QED BY <2>1, <2>6, <2>7, <2>8
<1> QED BY <1>1, <1>2

\* A new row decides nothing about what the older ones say.
LEMMA StateKept ==
  ASSUME TypeOK, journal' = journal \/ (\E d : journal' = Append(journal, d)),
         NEW k \in 0..Len(journal)
  PROVE  StateAt(k)' = StateAt(k)
<1>1. \A i \in 1..k : journal'[i] = journal[i]
  <2>1. journal \in Seq(Decision) /\ Len(journal) \in Nat
    BY DEF TypeOK
  <2>2. \A d : journal' = Append(journal, d) => \A i \in 1..Len(journal) : journal'[i] = journal[i]
    BY <2>1
  <2> QED BY <2>1, <2>2
<1>2. \A key \in Keys : Deciding(k, key)' = Deciding(k, key)
  BY <1>1 DEF Deciding
<1>3. ASSUME NEW key \in Keys, Deciding(k, key) # {}
      PROVE  journal'[Max(Deciding(k, key))] = journal[Max(Deciding(k, key))]
  <2>1. Max(Deciding(k, key)) \in Deciding(k, key)
    BY <1>3, LatestDecides
  <2> QED BY <1>1, <2>1 DEF Deciding
<1> QED BY <1>2, <1>3 DEF StateAt

\* ConsentCache::apply of a row to the state of the rows before it, or to its
\* own: the state of the rows up to it.
LEMMA ApplyNextRow ==
  ASSUME TypeOK, NEW r \in Rows, NEW k \in {r - 1, r}
  PROVE  StateAt(r) = Applied(StateAt(k), journal[r])
<1>0. Rows = 1..Len(journal) /\ Len(journal) \in Nat /\ r \in Nat /\ r \in 0..Len(journal)
      /\ k \in 0..Len(journal)
  BY DEF TypeOK, Rows
<1>1. ASSUME NEW key \in Keys, Covers(journal[r], key)
      PROVE  StateAt(r)[key] = journal[r].state
  <2>1. r \in Deciding(r, key)
    BY <1>0, <1>1 DEF Deciding
  <2>2. /\ Max(Deciding(r, key)) \in Deciding(r, key)
        /\ \A i \in Deciding(r, key) : Max(Deciding(r, key)) >= i
    BY <1>0, <2>1, LatestDecides
  <2>3. Max(Deciding(r, key)) = r
    BY <1>0, <2>1, <2>2 DEF Deciding
  <2> QED BY <2>1, <2>3 DEF StateAt
<1>2. ASSUME NEW key \in Keys, ~Covers(journal[r], key)
      PROVE  StateAt(r)[key] = StateAt(k)[key]
  <2>1. Deciding(r, key) = Deciding(k, key)
    BY <1>0, <1>2 DEF Deciding
  <2> QED BY <2>1 DEF StateAt
<1>3. \A key \in Keys :
        StateAt(r)[key] = IF Covers(journal[r], key) THEN journal[r].state ELSE StateAt(k)[key]
  BY <1>1, <1>2
<1>4. StateAt(r) = [key \in Keys |-> StateAt(r)[key]]
  BY DEF StateAt
<1> QED BY <1>3, <1>4 DEF Applied

\* The stream skips no row: the one before an event is its own row or the row
\* before it, and with the event applied the cache stands for its row.
LEMMA ApplyNextEvent ==
  ASSUME OutboxInv, NEW h \in Events, NEW g \in Nat, \A e \in Events : e < g <=> e <= h
  PROVE  StateAt(LastRowBefore(g)) = Applied(StateAt(LastRowBefore(h)), journal[log[h]])
<1>1. /\ TypeOK /\ h \in Nat /\ log[h] \in Rows /\ log[h] \in Nat \ {0}
      /\ Rows = 1..Len(journal) /\ Len(journal) \in Nat
      /\ Events \in SUBSET Nat /\ \A e \in Events : log[e] \in Rows /\ log[e] \in Nat
  <2>1. TypeOK /\ Rows = 1..Len(journal) /\ Len(journal) \in Nat
    BY DEF OutboxInv, TypeOK, Rows
  <2>2. Events \in SUBSET Nat /\ \A e \in Events : log[e] \in Rows
    BY <2>1 DEF TypeOK, Events
  <2> QED BY <2>1, <2>2
<1>2. \A e \in Events : e <= h => log[e] <= log[h]
  BY <1>1 DEF OutboxInv, PositionedPrefix
<1>3. LastRowBefore(g) = log[h]
  BY <1>1, <1>2, LastRowIs
<1>4. LastRowBefore(h) \in {log[h] - 1, log[h]}
  <2> SUFFICES ASSUME NEW k, k = LastRowBefore(h)
               PROVE  k \in {log[h] - 1, log[h]}
    OBVIOUS
  <2>0. TypeOK /\ h \in Nat
    BY <1>1
  <2>1. /\ k \in 0..Len(journal)
        /\ \A q \in Events : q < h => log[q] <= k
        /\ k # 0 => \E q \in Events : q < h /\ log[q] = k
    BY <2>0, LastRow
  <2>2. k <= log[h]
    BY <1>1, <1>2, <2>1
  <2>3. ASSUME k < log[h] - 1
        PROVE  FALSE
    <3>1. k + 1 \in Rows /\ k + 1 < log[h]
      BY <1>1, <2>1, <2>3
    <3>2. position[k + 1] # 0
      BY <3>1 DEF OutboxInv, PositionedPrefix
    <3>3. position[k + 1] \in Events /\ log[position[k + 1]] = k + 1
      BY <2>1, <3>1, <3>2 DEF OutboxInv, DrainInv, CopiesOf, Events
    <3>4. position[k + 1] \in Nat /\ (h < position[k + 1] => log[h] <= k + 1)
      BY <1>1, <3>3 DEF OutboxInv, PositionedPrefix
    <3>5. position[k + 1] < h
      BY <1>1, <3>1, <3>3, <3>4
    <3>6. k + 1 <= k
      BY <2>1, <3>3, <3>5
    <3> QED BY <1>1, <2>1, <3>6
  <2> QED BY <1>1, <2>1, <2>2, <2>3
<1> QED BY <1>1, <1>3, <1>4, ApplyNextRow

-----------------------------------------------------------------------------
(* The cache is faithful while calm.                                         *)

\* What was handed to the Sensor is behind the durable's next message, and the
\* stream is as long as the durable and the snapshot say.
InboxFits ==
  /\ start <= Len(log) + 1 /\ next <= Len(log) + 1
  /\ \A p \in pending : p < next
  /\ \A i \in DOMAIN inbox : inbox[i] < next
  /\ phase # "consuming" => inbox = <<>>

\* While calm, an event past the snapshot that is not acked is in hand, once
\* and in stream order; every event from the frontier to the durable's next is
\* in hand; and the cache stands for the events before the frontier.
InStep ==
  /\ \A p \in pending : p >= start => p \in Outstanding
  /\ \A i, j \in DOMAIN inbox :
       i < j /\ inbox[i] >= start /\ inbox[j] >= start => inbox[i] < inbox[j]
  /\ \A p \in Events : Frontier <= p /\ p < next => p \in Outstanding
  /\ cache = StateAt(LastRowBefore(Frontier))

CalmInv == phase # "down" /\ calm => InStep

SensorInv == OutboxInv /\ InboxFits /\ CalmInv

\* The numbers of the stream, and what the frontier is.
LEMMA StreamFacts ==
  ASSUME OutboxInv
  PROVE  /\ TypeOK /\ start \in Nat /\ next \in Nat /\ Len(log) \in Nat
         /\ Events \subseteq 1..Len(log) /\ Events \subseteq Nat
         /\ pending \subseteq Events /\ Outstanding \subseteq Events
         /\ inbox \in Seq(Events) /\ Len(inbox) \in Nat /\ DOMAIN inbox = 1..Len(inbox)
BY DEF OutboxInv, TypeOK, Events, Outstanding

FrontierIs ==
  /\ Frontier \in Nat /\ start <= Frontier
  /\ \A p \in Unapplied : Frontier <= p
  /\ Unapplied # {} => Frontier \in Unapplied
  /\ Unapplied = {} => Frontier = IF next > start THEN next ELSE start

LEMMA FrontierFacts == OutboxInv => FrontierIs
<1> SUFFICES ASSUME OutboxInv PROVE FrontierIs
  OBVIOUS
<1>1. Unapplied \in SUBSET Nat /\ \A p \in Unapplied : p >= start
  BY StreamFacts DEF Unapplied
<1>2. Unapplied # {} => Min(Unapplied) \in Unapplied /\ \A p \in Unapplied : Min(Unapplied) <= p
  BY <1>1, MinOfNaturals
<1>3. start \in Nat /\ next \in Nat
  BY StreamFacts
<1>4. CASE Unapplied # {}
  BY <1>1, <1>2, <1>3, <1>4 DEF Frontier, FrontierIs
<1>5. CASE Unapplied = {}
  BY <1>3, <1>5 DEF Frontier, FrontierIs
<1> QED BY <1>4, <1>5

\* The frontier is not past the stream's end.
LEMMA FrontierInStream ==
  ASSUME OutboxInv, InboxFits
  PROVE  Frontier <= Len(log) + 1
<1>1. CASE Unapplied = {}
  BY <1>1, FrontierFacts, StreamFacts DEF InboxFits, FrontierIs
<1>2. CASE Unapplied # {}
  BY <1>2, FrontierFacts, StreamFacts DEF Unapplied, FrontierIs
<1> QED BY <1>1, <1>2

\* Decisions taken, drained and stored, and other traffic, are behind all that
\* the Sensor holds.
LEMMA GatewayKeeps ==
  ASSUME SensorInv, OutboxInv', UNCHANGED <<durableVars, sensorVars>>,
         log' = log \/ (\E r : log' = Append(log, r)),
         journal' = journal \/ (\E d : journal' = Append(journal, d))
  PROVE  InboxFits' /\ CalmInv'
<1> USE DEF durableVars, sensorVars
<1>0. OutboxInv /\ InboxFits /\ CalmInv /\ TypeOK
  BY DEF SensorInv, OutboxInv
<1>1. PICK f \in Nat : f = Frontier
  BY <1>0, FrontierFacts DEF FrontierIs
<1>2. Frontier' = f /\ Outstanding' = Outstanding
  BY <1>1 DEF Frontier, Unapplied, Outstanding
<1>3. f <= Len(log) + 1
  BY <1>0, <1>1, FrontierInStream
<1>4. /\ LastRowBefore(f)' = LastRowBefore(f)
      /\ \A e \in Events' : e \in Events \/ e = Len(log) + 1
      /\ Len(log) <= Len(log')
  BY <1>0, <1>3, LastRowKept
<1>5. LastRowBefore(f) \in 0..Len(journal)
  BY <1>0, LastRow
<1>6. InboxFits'
  <2>1. Len(log') \in Nat /\ Len(log) \in Nat /\ start \in Nat /\ next \in Nat
    <3>1. Len(log') \in Nat
      BY DEF OutboxInv, TypeOK
    <3> QED BY <1>0, <3>1, StreamFacts
  <2> QED BY <1>0, <1>4, <2>1 DEF InboxFits
<1>7. ASSUME InStep
      PROVE  InStep'
  <2>1. StateAt(LastRowBefore(f))' = StateAt(LastRowBefore(f))
    <3>1. PICK k \in 0..Len(journal) : k = LastRowBefore(f)
      BY <1>5
    <3>2. StateAt(k)' = StateAt(k)
      BY <1>0, StateKept
    <3>3. k = LastRowBefore(f)'
      BY <1>4, <3>1
    <3> QED BY <3>1, <3>2, <3>3
  <2>2. cache' = StateAt(LastRowBefore(Frontier))'
    BY <1>1, <1>2, <1>7, <2>1 DEF InStep
  <2>3. \A p \in Events' : Frontier' <= p /\ p < next' => p \in Outstanding'
    BY <1>0, <1>1, <1>2, <1>4, <1>7, StreamFacts DEF InStep, InboxFits
  <2> QED BY <1>2, <1>7, <2>2, <2>3 DEF InStep
<1> QED BY <1>0, <1>6, <1>7 DEF CalmInv

\* What a message joins: the sequence before it, and itself at the end.
LEMMA AppendedItems ==
  ASSUME NEW S, NEW s \in Seq(S), NEW x \in S
  PROVE  /\ DOMAIN Append(s, x) = 1..(Len(s) + 1)
         /\ \A i \in 1..Len(s) : Append(s, x)[i] = s[i] /\ s[i] \in S
         /\ Append(s, x)[Len(s) + 1] = x
OBVIOUS

\* A step of the Sensor or of its consumer leaves stream and journal alone.
LEMMA FrontierNext ==
  ASSUME OutboxInv, [Next]_vars
  PROVE  OutboxInv' /\ FrontierIs'
<1>1. OutboxInv'
  BY OutboxStep
<1>2. (OutboxInv => FrontierIs)'
  BY FrontierFacts, PTL
<1> QED BY <1>1, <1>2

\* The frontier passes no event: the cache stands for the same row.
LEMMA CacheStands ==
  ASSUME OutboxInv, [Next]_vars, UNCHANGED <<journal, log>>,
         \A e \in Events : e < Frontier <=> e < Frontier'
  PROVE  StateAt(LastRowBefore(Frontier))' = StateAt(LastRowBefore(Frontier))
<1>1. PICK f \in Nat : f = Frontier
  BY FrontierFacts DEF FrontierIs
<1>2. PICK g \in Nat : g = Frontier'
  BY FrontierNext DEF FrontierIs
<1>3. LastRowBefore(f) = LastRowBefore(g)
  BY <1>1, <1>2, SameLastRow
<1>4. StateAt(LastRowBefore(g))' = StateAt(LastRowBefore(g))
  BY DEF StateAt, LastRowBefore, Deciding, Events
<1> QED BY <1>1, <1>2, <1>3, <1>4

\* The next event of the stream, in front of the loop or behind what it holds.
LEMMA KeptByDeliver ==
  ASSUME SensorInv, Deliver
  PROVE  InboxFits' /\ CalmInv'
<1>0. OutboxInv /\ InboxFits /\ CalmInv /\ OutboxInv' /\ FrontierIs' /\ FrontierIs
  BY FrontierFacts, FrontierNext DEF SensorInv, Next
<1>1. /\ UNCHANGED <<journal, log, start, cache, calm, phase>> /\ phase = "consuming"
      /\ Events' = Events
  BY DEF Deliver, gatewayVars, busVars, Events
<1>2. PICK p \in Events : /\ p >= next /\ \A q \in Events : q >= next => p <= q
                          /\ inbox' = Append(inbox, p)
                          /\ pending' = pending \cup {p}
                          /\ next' = p + 1
  BY DEF Deliver
<1>3. /\ start \in Nat /\ next \in Nat /\ Len(log) \in Nat /\ p \in 1..Len(log)
      /\ inbox \in Seq(Events) /\ Len(inbox) \in Nat /\ DOMAIN inbox = 1..Len(inbox)
      /\ Events \subseteq Nat /\ pending \subseteq Nat
  BY <1>0, StreamFacts
<1>4. /\ DOMAIN inbox' = 1..(Len(inbox) + 1)
      /\ \A i \in 1..Len(inbox) : inbox'[i] = inbox[i] /\ inbox[i] \in Nat
      /\ inbox'[Len(inbox) + 1] = p
  <2>1. /\ DOMAIN inbox' = 1..(Len(inbox) + 1)
        /\ \A i \in 1..Len(inbox) : inbox'[i] = inbox[i] /\ inbox[i] \in Events
        /\ inbox'[Len(inbox) + 1] = p
    BY <1>2, <1>3, AppendedItems
  <2> QED BY <1>3, <2>1
<1>5. Outstanding' = Outstanding \cup {p}
  <2>1. \A q : q \in Outstanding' <=> q = p \/ \E i \in 1..Len(inbox) : q = inbox[i]
    BY <1>3, <1>4 DEF Outstanding
  <2>2. \A q : q \in Outstanding <=> \E i \in 1..Len(inbox) : q = inbox[i]
    BY <1>3 DEF Outstanding
  <2> QED BY <2>1, <2>2
<1>6. InboxFits'
  <2>1. next' <= Len(log) + 1 /\ next < next' /\ p < next' /\ next' \in Nat
    BY <1>2, <1>3
  <2>2. \A q \in pending' : q < next'
    BY <1>0, <1>2, <1>3, <2>1 DEF InboxFits
  <2>3. \A i \in 1..Len(inbox) : inbox[i] < next'
    <3>1. \A i \in 1..Len(inbox) : inbox[i] < next
      BY <1>0, <1>3 DEF InboxFits
    <3> QED BY <1>3, <1>4, <2>1, <3>1
  <2>4. \A i \in DOMAIN inbox' : inbox'[i] < next'
    BY <1>3, <1>4, <2>1, <2>3
  <2> QED BY <1>0, <1>1, <2>1, <2>2, <2>4 DEF InboxFits
<1>7. ASSUME InStep
      PROVE  InStep'
  <2>1. Unapplied' = IF p >= start THEN Unapplied \cup {p} ELSE Unapplied
    BY <1>1, <1>5 DEF Unapplied
  <2>2. \A q \in Outstanding : q < next /\ q \in Nat
    BY <1>0, <1>3, <1>4 DEF Outstanding, InboxFits
  <2>3. Frontier \in Nat /\ Frontier' \in Nat /\ Frontier <= Frontier'
    BY <1>0, <1>1, <1>2, <1>3, <2>1, <2>2 DEF FrontierIs, Unapplied
  <2>4. \A e \in Events : e < Frontier <=> e < Frontier'
    BY <1>0, <1>1, <1>2, <1>3, <2>1, <2>2, <2>3 DEF FrontierIs, Unapplied
  <2>5. cache' = StateAt(LastRowBefore(Frontier))'
    BY <1>0, <1>1, <1>7, <2>4, CacheStands DEF InStep, Next
  <2>6. \A q \in Events : Frontier' <= q /\ q < next' => q \in Outstanding'
    BY <1>2, <1>3, <1>5, <1>7, <2>3 DEF InStep
  <2>7. \A q \in pending' : q >= start' => q \in Outstanding'
    BY <1>1, <1>2, <1>5, <1>7 DEF InStep
  <2>8. \A i, j \in DOMAIN inbox' :
          i < j /\ inbox'[i] >= start' /\ inbox'[j] >= start' => inbox'[i] < inbox'[j]
    <3> SUFFICES ASSUME NEW i \in 1..(Len(inbox) + 1), NEW j \in 1..(Len(inbox) + 1),
                        i < j, inbox'[i] >= start, inbox'[j] >= start
                 PROVE  inbox'[i] < inbox'[j]
      BY <1>1, <1>4
    <3>1. i \in 1..Len(inbox) /\ inbox[i] < next
      BY <1>0, <1>3 DEF InboxFits
    <3>2. CASE j = Len(inbox) + 1
      BY <1>2, <1>3, <1>4, <3>1, <3>2
    <3>3. CASE j \in 1..Len(inbox)
      BY <1>3, <1>4, <1>7, <3>1, <3>3 DEF InStep
    <3> QED BY <1>3, <3>2, <3>3
  <2> QED BY <1>1, <2>5, <2>6, <2>7, <2>8 DEF InStep
<1> QED BY <1>0, <1>1, <1>6, <1>7 DEF CalmInv

\* A message that comes back while calm is one the loop will skip.
LEMMA KeptByRedeliver ==
  ASSUME SensorInv, Redeliver
  PROVE  InboxFits' /\ CalmInv'
<1>0. OutboxInv /\ InboxFits /\ CalmInv /\ OutboxInv' /\ FrontierIs' /\ FrontierIs
  BY FrontierFacts, FrontierNext DEF SensorInv, Next
<1>1. /\ UNCHANGED <<journal, log, start, cache, calm, phase, next, pending>> /\ phase = "consuming"
      /\ Events' = Events
  BY DEF Redeliver, gatewayVars, busVars, durableVars, Events
<1>2. PICK p \in pending \ Outstanding : inbox' = Append(inbox, p)
  BY DEF Redeliver
<1>3. /\ start \in Nat /\ next \in Nat /\ Len(log) \in Nat /\ p \in 1..Len(log) /\ p < next
      /\ inbox \in Seq(Events) /\ Len(inbox) \in Nat /\ DOMAIN inbox = 1..Len(inbox)
      /\ Events \subseteq Nat /\ pending \subseteq Nat /\ p \in Events
  BY <1>0, StreamFacts DEF InboxFits
<1>4. /\ DOMAIN inbox' = 1..(Len(inbox) + 1)
      /\ \A i \in 1..Len(inbox) : inbox'[i] = inbox[i] /\ inbox[i] \in Nat
      /\ inbox'[Len(inbox) + 1] = p
  <2>1. /\ DOMAIN inbox' = 1..(Len(inbox) + 1)
        /\ \A i \in 1..Len(inbox) : inbox'[i] = inbox[i] /\ inbox[i] \in Events
        /\ inbox'[Len(inbox) + 1] = p
    BY <1>2, <1>3, AppendedItems
  <2> QED BY <1>3, <2>1
<1>5. Outstanding' = Outstanding \cup {p}
  BY <1>3, <1>4 DEF Outstanding
<1>6. InboxFits'
  BY <1>0, <1>1, <1>2, <1>3, <1>4 DEF InboxFits
<1>7. ASSUME InStep
      PROVE  InStep'
  <2>1. p < start
    BY <1>2, <1>3, <1>7 DEF InStep
  <2>2. Unapplied' = Unapplied
    BY <1>1, <1>3, <1>5, <2>1 DEF Unapplied
  <2>3. Frontier' = Frontier
    BY <1>1, <2>2 DEF Frontier
  <2>4. cache' = StateAt(LastRowBefore(Frontier))'
    BY <1>0, <1>1, <1>7, <2>3, CacheStands DEF InStep, Next
  <2>5. \A i, j \in DOMAIN inbox' :
          i < j /\ inbox'[i] >= start' /\ inbox'[j] >= start' => inbox'[i] < inbox'[j]
    BY <1>1, <1>3, <1>4, <1>7, <2>1 DEF InStep
  <2> QED BY <1>1, <1>5, <1>7, <2>3, <2>4, <2>5 DEF InStep
<1> QED BY <1>0, <1>1, <1>6, <1>7 DEF CalmInv

\* One turn of the loop with its ack: what is behind the snapshot is skipped,
\* what is not is the frontier itself, and the frontier moves on to the next.
LEMMA KeptByHandle ==
  ASSUME SensorInv, Handle
  PROVE  InboxFits' /\ CalmInv'
<1>0. OutboxInv /\ InboxFits /\ CalmInv /\ OutboxInv' /\ FrontierIs' /\ FrontierIs
  BY FrontierFacts, FrontierNext DEF SensorInv, Next
<1> DEFINE h == Head(inbox)
<1>1. /\ UNCHANGED <<journal, log, start, calm, phase, next>> /\ phase = "consuming"
      /\ inbox # <<>> /\ inbox' = Tail(inbox) /\ pending' = pending \ {h}
      /\ cache' = IF h < start THEN cache ELSE Applied(cache, journal[log[h]])
      /\ Events' = Events
  BY DEF Handle, Turn, gatewayVars, busVars, Events
<1>2. /\ start \in Nat /\ next \in Nat /\ Len(log) \in Nat
      /\ inbox \in Seq(Events) /\ Len(inbox) \in Nat /\ DOMAIN inbox = 1..Len(inbox)
      /\ Events \subseteq Nat /\ pending \subseteq Nat
  BY <1>0, StreamFacts
<1>3. /\ 1 \in DOMAIN inbox /\ h = inbox[1] /\ h \in Events /\ h \in Nat /\ h < next
      /\ DOMAIN inbox' = 1..(Len(inbox) - 1)
      /\ \A i \in DOMAIN inbox' : i + 1 \in DOMAIN inbox /\ inbox'[i] = inbox[i + 1]
      /\ \A i \in DOMAIN inbox : i = 1 \/ (i - 1 \in DOMAIN inbox' /\ inbox'[i - 1] = inbox[i])
  <2>1. Len(inbox) # 0 /\ h = inbox[1]
    BY <1>1, <1>2
  <2>4. 1 \in DOMAIN inbox
    BY <1>2, <2>1
  <2>5. inbox[1] \in Events /\ inbox[1] < next
    BY <1>0, <1>2, <2>4 DEF InboxFits
  <2>2. 1 \in DOMAIN inbox /\ h \in Events /\ h \in Nat /\ h < next
    BY <1>2, <2>1, <2>4, <2>5
  <2>3. DOMAIN inbox' = 1..(Len(inbox) - 1) /\ \A i \in 1..(Len(inbox) - 1) : inbox'[i] = inbox[i + 1]
    BY <1>1, <1>2
  <2> HIDE DEF h
  <2> QED BY <1>2, <2>1, <2>2, <2>3
<1> HIDE DEF h
<1>4. /\ \A q \in Outstanding' : q \in Outstanding
      /\ \A q \in Outstanding : q \in Outstanding' \/ q = h
  BY <1>3 DEF Outstanding
<1>5. InboxFits'
  BY <1>0, <1>1, <1>2, <1>3 DEF InboxFits
<1>6. ASSUME InStep
      PROVE  InStep'
  <2>1. \A q \in pending' : q >= start' => q \in Outstanding'
    BY <1>1, <1>4, <1>6 DEF InStep
  <2>2. \A i, j \in DOMAIN inbox' :
          i < j /\ inbox'[i] >= start' /\ inbox'[j] >= start' => inbox'[i] < inbox'[j]
    BY <1>1, <1>2, <1>3, <1>6 DEF InStep
  <2>3. \A q \in Outstanding' : q \in Nat /\ (q >= start /\ h >= start => h < q)
    <3> SUFFICES ASSUME NEW i \in DOMAIN inbox'
                 PROVE  inbox'[i] \in Nat /\ (inbox'[i] >= start /\ h >= start => h < inbox'[i])
      BY DEF Outstanding
    <3>1. PICK j \in DOMAIN inbox : inbox'[i] = inbox[j] /\ 1 < j
      BY <1>2, <1>3
    <3>2. inbox[j] \in Nat
      <4>1. inbox[j] \in Events
        BY <1>2
      <4> QED BY <1>2, <4>1
    <3>3. inbox[1] >= start /\ inbox[j] >= start => inbox[1] < inbox[j]
      BY <1>3, <1>6, <3>1 DEF InStep
    <3> QED BY <1>3, <3>1, <3>2, <3>3
  <2>4. CASE h < start
    <3>1. Unapplied' = Unapplied
      BY <1>1, <1>2, <1>3, <1>4, <2>3, <2>4 DEF Unapplied
    <3>2. Frontier' = Frontier
      BY <1>1, <3>1 DEF Frontier
    <3>3. cache' = StateAt(LastRowBefore(Frontier))'
      BY <1>0, <1>1, <1>6, <2>4, <3>2, CacheStands DEF InStep, Next
    <3>4. \A q \in Events : Frontier' <= q /\ q < next' => q \in Outstanding'
      <4> SUFFICES ASSUME NEW q \in Events, Frontier <= q, q < next
                   PROVE  q \in Outstanding'
        BY <1>1, <3>2
      <4>1. q \in Outstanding
        BY <1>6 DEF InStep
      <4>2. Frontier \in Nat /\ start <= Frontier /\ q \in Nat
        BY <1>0, <1>2 DEF FrontierIs
      <4>3. q # h
        BY <1>2, <1>3, <2>4, <4>2
      <4> QED BY <1>4, <4>1, <4>3
    <3> QED BY <1>1, <2>1, <2>2, <3>3, <3>4 DEF InStep
  <2>5. CASE h >= start
    <3>1. Unapplied = {h} \cup Unapplied' /\ \A q \in Unapplied' : h < q
      <4>1. h \in Outstanding
        BY <1>3 DEF Outstanding
      <4>2. \A q : q \in Unapplied <=> q = h \/ q \in Unapplied'
        BY <1>1, <1>4, <2>5, <4>1 DEF Unapplied
      <4>3. \A q \in Unapplied' : h < q
        BY <1>1, <2>3, <2>5 DEF Unapplied
      <4> QED BY <4>2, <4>3
    <3>2. Frontier = h
      BY <1>0, <1>3, <3>1 DEF FrontierIs
    <3>3. Frontier' \in Nat /\ h < Frontier' /\ Frontier' <= next
      <4>1. Frontier' \in Nat
        BY <1>0 DEF FrontierIs
      <4>2. CASE Unapplied' = {}
        <5>1. Frontier' = IF next > start THEN next ELSE start
          BY <1>0, <1>1, <4>2 DEF FrontierIs
        <5> QED BY <1>2, <1>3, <2>5, <4>1, <5>1
      <4>3. CASE Unapplied' # {}
        <5>1. Frontier' \in Unapplied'
          BY <1>0, <4>3 DEF FrontierIs
        <5>2. Frontier' \in Outstanding
          BY <1>4, <5>1 DEF Unapplied
        <5>3. Frontier' < next
          BY <1>0, <5>2 DEF InboxFits, Outstanding
        <5> QED BY <1>2, <3>1, <4>1, <5>1, <5>3
      <4> QED BY <4>2, <4>3
    <3>4. \A q \in Events : h <= q /\ q < next => q = h \/ q \in Unapplied'
      BY <1>1, <1>2, <1>3, <1>4, <1>6, <2>5, <3>2 DEF InStep, Unapplied
    <3>5. \A e \in Events : e < Frontier' <=> e <= h
      BY <1>0, <1>2, <1>3, <3>3, <3>4 DEF FrontierIs
    <3>6. \A q \in Events : Frontier' <= q /\ q < next' => q \in Outstanding'
      <4> SUFFICES ASSUME NEW q \in Events, Frontier' <= q, q < next
                   PROVE  q \in Outstanding'
        BY <1>1
      <4>1. q \in Nat /\ h \in Nat /\ Frontier' \in Nat /\ h < Frontier'
        BY <1>2, <1>3, <3>3
      <4>2. h <= q /\ q # h
        BY <4>1
      <4>3. q \in Unapplied'
        BY <3>4, <4>2
      <4> QED BY <4>3 DEF Unapplied
    <3>7. PICK g \in Nat : g = Frontier'
      BY <3>3
    <3>8. StateAt(LastRowBefore(g)) = Applied(StateAt(LastRowBefore(h)), journal[log[h]])
      BY <1>0, <1>3, <3>5, <3>7, ApplyNextEvent
    <3>9. StateAt(LastRowBefore(g))' = StateAt(LastRowBefore(g))
      BY <1>1 DEF StateAt, LastRowBefore, Deciding, Events
    <3>10. cache' = Applied(StateAt(LastRowBefore(h)), journal[log[h]])
      BY <1>1, <1>2, <1>3, <1>6, <2>5, <3>2 DEF InStep
    <3>11. cache' = StateAt(LastRowBefore(Frontier))'
      BY <3>7, <3>8, <3>9, <3>10
    <3> QED BY <1>1, <2>1, <2>2, <3>6, <3>11 DEF InStep
  <2> QED BY <1>2, <1>3, <2>4, <2>5
<1> QED BY <1>0, <1>1, <1>5, <1>6 DEF CalmInv

\* A turn whose ack is lost disturbs the calm.
LEMMA KeptByHandleUnacked ==
  ASSUME SensorInv, HandleUnacked
  PROVE  InboxFits' /\ CalmInv'
<1>1. /\ UNCHANGED <<log, start, phase, next, pending>> /\ ~calm' /\ inbox # <<>>
      /\ inbox' = Tail(inbox) /\ phase = "consuming"
  BY DEF HandleUnacked, durableVars, busVars
<1>2. inbox \in Seq(Events) /\ InboxFits
  BY StreamFacts DEF SensorInv
<1>3. \A i \in DOMAIN inbox' : \E j \in DOMAIN inbox : inbox'[i] = inbox[j]
  <2>1. Len(inbox) \in Nat /\ DOMAIN inbox = 1..Len(inbox) /\ Len(inbox) # 0
    BY <1>1, <1>2
  <2>2. DOMAIN inbox' = 1..(Len(inbox) - 1) /\ \A i \in 1..(Len(inbox) - 1) : inbox'[i] = inbox[i + 1]
    BY <1>1, <1>2, <2>1
  <2> QED BY <2>1, <2>2
<1> QED BY <1>1, <1>2, <1>3 DEF InboxFits, CalmInv

\* The durable is created at the snapshot's position, or was there: the frontier
\* stays, and nothing lies between it and the durable's next message.
LEMMA KeptByOpen ==
  ASSUME SensorInv, OpenConsumer
  PROVE  InboxFits' /\ CalmInv'
<1>0. OutboxInv /\ InboxFits /\ CalmInv
  BY DEF SensorInv
<1>1. /\ UNCHANGED <<journal, log, start, calm, inbox, pending, cache>>
      /\ phase = "ready" /\ phase' = "consuming"
      /\ next' = IF next = 0 THEN start ELSE next
      /\ Events' = Events /\ Outstanding' = Outstanding
  BY DEF OpenConsumer, gatewayVars, busVars, Events, Outstanding
<1>2. inbox = <<>> /\ Outstanding = {} /\ Unapplied = {} /\ Unapplied' = {}
  BY <1>0, <1>1 DEF InboxFits, Outstanding, Unapplied
<1>3. start \in Nat /\ next \in Nat /\ pending \subseteq Nat /\ Events \subseteq Nat
  BY <1>0, StreamFacts
<1>4. Frontier' = Frontier
  BY <1>1, <1>2, <1>3 DEF Frontier
<1>5. InboxFits'
  BY <1>0, <1>1, <1>2, <1>3 DEF InboxFits
<1>6. InStep => InStep'
  <2>1. StateAt(LastRowBefore(Frontier))' = StateAt(LastRowBefore(Frontier))
    BY <1>0, <1>1, <1>4, CacheStands DEF Next
  <2>2. Frontier = IF next > start THEN next ELSE start
    BY <1>2 DEF Frontier
  <2> QED BY <1>1, <1>2, <1>3, <1>4, <2>1, <2>2 DEF InStep
<1> QED BY <1>0, <1>1, <1>5, <1>6 DEF CalmInv

\* Another incarnation of the consumer, or another process.
LEMMA KeptByEnding ==
  ASSUME SensorInv, Rebuild \/ SensorStops
  PROVE  InboxFits' /\ CalmInv'
<1>0. OutboxInv /\ InboxFits /\ CalmInv
  BY DEF SensorInv
<1>1. CASE Rebuild
  <2>1. /\ UNCHANGED <<journal, log, start, next, pending, cache>> /\ phase = "consuming"
        /\ inbox' = <<>> /\ calm' = (calm /\ inbox = <<>>)
    BY <1>1 DEF Rebuild, gatewayVars, busVars, durableVars
  <2>2. InboxFits'
    BY <1>0, <2>1 DEF InboxFits
  <2>3. ASSUME calm'
        PROVE  InStep'
    <3>1. inbox' = inbox /\ InStep
      BY <1>0, <2>1, <2>3 DEF CalmInv
    <3>2. /\ Outstanding' = Outstanding /\ Frontier' = Frontier /\ Events' = Events
      BY <2>1, <3>1 DEF Outstanding, Frontier, Unapplied, Events
    <3>3. StateAt(LastRowBefore(Frontier))' = StateAt(LastRowBefore(Frontier))
      BY <1>0, <1>1, <2>1, <3>2, CacheStands DEF Next
    <3> QED BY <2>1, <3>1, <3>2, <3>3 DEF InStep
  <2> QED BY <2>2, <2>3 DEF CalmInv
<1>2. CASE SensorStops
  <2>1. /\ UNCHANGED <<log, next, pending>> /\ start' = 0 /\ inbox' = <<>> /\ phase' = "down"
    BY <1>2 DEF SensorStops, busVars, durableVars
  <2>2. Len(log) \in Nat /\ next \in Nat
    BY <1>0, StreamFacts
  <2> QED BY <1>0, <2>1, <2>2 DEF InboxFits, CalmInv
<1> QED BY <1>1, <1>2

\* The snapshot stands for the events up to the position it names, and while
\* the durable is not past that position nothing lies between the two.
LEMMA KeptByFetch ==
  ASSUME SensorInv, FetchSnapshot
  PROVE  InboxFits' /\ CalmInv'
<1>0. OutboxInv /\ InboxFits /\ TypeOK /\ HandOff
  BY OutboxHandsOff DEF SensorInv, OutboxInv
<1>1. /\ UNCHANGED <<journal, log, next, pending, inbox>>
      /\ phase = "down" /\ phase' = "ready"
      /\ start' = StreamSequence + 1
      /\ cache' = StateAt(Horizon)
      /\ calm' = ~ \E p \in Events : StreamSequence < p /\ p < next
      /\ Events' = Events
  BY DEF FetchSnapshot, gatewayVars, busVars, durableVars, Events
<1>2. /\ next \in Nat /\ Len(log) \in Nat /\ Events \subseteq 1..Len(log)
      /\ pending \subseteq Events /\ Events \subseteq Nat
  BY <1>0, StreamFacts
<1>3. /\ Horizon \in 0..Len(journal) /\ StreamSequence \in Nat
      /\ Len(journal) \in Nat /\ Rows = 1..Len(journal)
      /\ \A i \in 1..Horizon : position[i] # 0
  BY <1>0, HorizonIsPrefixEnd DEF TypeOK, Rows
<1>4. Horizon # 0 => StreamSequence \in Events /\ log[StreamSequence] = Horizon
  BY <1>0, <1>3 DEF StreamSequence, OutboxInv, DrainInv, CopiesOf, Events
<1>5. StreamSequence <= Len(log)
  BY <1>2, <1>3, <1>4 DEF StreamSequence
<1>6. inbox = <<>> /\ Outstanding' = {} /\ Unapplied' = {}
  BY <1>0, <1>1 DEF InboxFits, Outstanding, Unapplied
<1>7. InboxFits'
  BY <1>0, <1>1, <1>2, <1>3, <1>5, <1>6 DEF InboxFits
<1>8. ASSUME calm'
      PROVE  InStep'
  <2>0. \A e \in Events : ~ (StreamSequence < e /\ e < next)
    BY <1>1, <1>8
  <2>1. Frontier' = IF next > StreamSequence + 1 THEN next ELSE StreamSequence + 1
    BY <1>1, <1>6 DEF Frontier
  <2>2. PICK g \in Nat : g = Frontier'
    BY <1>2, <1>3, <2>1
  <2>3. \A e \in Events : e < g <=> e <= StreamSequence
    <3>1. /\ g \in Nat /\ next \in Nat /\ StreamSequence \in Nat
          /\ g = IF next > StreamSequence + 1 THEN next ELSE StreamSequence + 1
          /\ \A e \in Events : e \in Nat
      BY <1>2, <1>3, <2>1, <2>2
    <3>2. \A e \in Events : ~ (StreamSequence < e /\ e < next)
      BY <2>0
    <3> QED BY <3>1, <3>2
  <2>4. \A e \in Events : e < g => log[e] <= Horizon
    BY <1>0, <2>3 DEF HandOff
  <2>5. LastRowBefore(g) = Horizon
    BY <1>0, <1>3, <1>4, <2>3, <2>4, LastRowIs
  <2>6. StateAt(LastRowBefore(g))' = StateAt(LastRowBefore(g))
    BY <1>1 DEF StateAt, LastRowBefore, Deciding, Events
  <2>7. cache' = StateAt(LastRowBefore(Frontier))'
    BY <1>1, <2>2, <2>5, <2>6
  <2>8. \A q \in Events : ~ (Frontier' <= q /\ q < next')
    BY <1>1, <1>2, <1>3, <2>1
  <2>9. \A q \in pending : ~ (q >= start')
    <3>1. \A q \in pending : q \in Events /\ q \in Nat /\ q < next
      BY <1>0, <1>2 DEF InboxFits
    <3>2. start' = StreamSequence + 1 /\ StreamSequence \in Nat
      BY <1>1, <1>3
    <3> QED BY <2>0, <3>1, <3>2
  <2> QED BY <1>1, <1>6, <2>7, <2>8, <2>9 DEF InStep
<1> QED BY <1>7, <1>8 DEF CalmInv

\* The Gateway and the bus only ever add at the end.
LEMMA StoreAppends ==
  ASSUME NEW r, NEW answer, Store(r, answer)
  PROVE  log' = log \/ \E x : log' = Append(log, x)
BY DEF Store, busVars

\* Every step keeps the Sensor where it is along the stream.
LEMMA SensorStep == SensorInv /\ [Next]_vars => SensorInv'
<1> SUFFICES ASSUME SensorInv, [Next]_vars PROVE InboxFits' /\ CalmInv'
  BY OutboxStep DEF SensorInv
<1>0. OutboxInv'
  BY OutboxStep DEF SensorInv
<1>1. CASE \E d \in Takeable : Record(d)
  <2>1. /\ UNCHANGED <<durableVars, sensorVars>> /\ log' = log
        /\ \E d : journal' = Append(journal, d)
    BY <1>1 DEF Record, busVars
  <2> QED BY <1>0, <2>1, GatewayKeeps
<1>2. CASE DrainRead \/ DrainAbandoned \/ DrainMark \/ \E r \in window : WindowExpires(r)
  <2>1. UNCHANGED <<durableVars, sensorVars>> /\ log' = log /\ journal' = journal
    BY <1>2 DEF DrainRead, DrainAbandoned, DrainMark, WindowExpires, busVars, gatewayVars
  <2> QED BY <1>0, <2>1, GatewayKeeps
<1>3. CASE DrainPublish \/ DrainUnacked
  <2>1. UNCHANGED <<durableVars, sensorVars>> /\ journal' = journal
    BY <1>3 DEF DrainPublish, DrainUnacked
  <2>2. \E answer : Store(Min(waiting), answer)
    BY <1>3 DEF DrainPublish, DrainUnacked
  <2>3. log' = log \/ \E x : log' = Append(log, x)
    BY <2>2, StoreAppends
  <2> QED BY <1>0, <2>1, <2>3, GatewayKeeps
<1>4. CASE Traffic
  <2>1. /\ UNCHANGED <<durableVars, sensorVars>> /\ journal' = journal
        /\ \E x : log' = Append(log, x)
    BY <1>4 DEF Traffic, gatewayVars
  <2> QED BY <1>0, <2>1, GatewayKeeps
<1>5. CASE UNCHANGED vars
  <2>1. UNCHANGED <<durableVars, sensorVars>> /\ log' = log /\ journal' = journal
    BY <1>5 DEF vars, gatewayVars, busVars
  <2> QED BY <1>0, <2>1, GatewayKeeps
<1>6. CASE Deliver
  BY <1>6, KeptByDeliver
<1>7. CASE Redeliver
  BY <1>7, KeptByRedeliver
<1>8. CASE FetchSnapshot
  BY <1>8, KeptByFetch
<1>9. CASE OpenConsumer
  BY <1>9, KeptByOpen
<1>10. CASE Handle
  BY <1>10, KeptByHandle
<1>11. CASE HandleUnacked
  BY <1>11, KeptByHandleUnacked
<1>12. CASE Rebuild \/ SensorStops
  BY <1>12, KeptByEnding
<1> QED BY <1>1, <1>2, <1>3, <1>4, <1>5, <1>6, <1>7, <1>8, <1>9, <1>10, <1>11, <1>12 DEF Next

\* The Sensor's part of every reachable state.
LEMMA SensorInvariant == Spec => []SensorInv
<1>1. Init => SensorInv
  <2>1. Init => OutboxInv
    BY TypeInit, OutboxInit DEF OutboxInv
  <2>2. Init => InboxFits /\ CalmInv
    BY DEF Init, InboxFits, CalmInv
  <2> QED BY <2>1, <2>2 DEF SensorInv
<1>2. SensorInv /\ [Next]_vars => SensorInv'
  BY SensorStep
<1> QED BY <1>1, <1>2, PTL DEF Spec

\* While nothing has set delivery and snapshot apart, the Sensor's cache is the
\* journal's state as of the last event its loop has come to: no decision is
\* missed, applied twice or applied out of order, whatever the drain loop, the
\* bus and the restarts of both sides do.
THEOREM LabelsAreFaithful == Spec => []FaithfulWhenCalm
<1>1. SensorInv => FaithfulWhenCalm
  BY DEF SensorInv, CalmInv, InStep, FaithfulWhenCalm
<1> QED BY <1>1, SensorInvariant, PTL

-----------------------------------------------------------------------------
(* Gateway and bus implement the feed of DecisionFeed.                       *)

\* How many decisions the bus holds.
Announced == LastRowBefore(Len(log) + 1)

LEMMA AnnouncedIs ==
  TypeOK => /\ Announced \in 0..Len(journal)
            /\ \A q \in Events : log[q] <= Announced
            /\ Announced # 0 => \E q \in Events : log[q] = Announced
<1> SUFFICES ASSUME TypeOK
             PROVE  /\ Announced \in 0..Len(journal)
                    /\ \A q \in Events : log[q] <= Announced
                    /\ Announced # 0 => \E q \in Events : log[q] = Announced
  OBVIOUS
<1>1. Len(log) + 1 \in Nat /\ \A q \in Events : q < Len(log) + 1
  BY DEF TypeOK, Events
<1> QED BY <1>1, LastRow DEF Announced

\* It is the only number of that description.
AnnouncedDetermined ==
  \A k \in Nat : /\ \A q \in Events : log[q] <= k
                 /\ k # 0 => \E q \in Events : log[q] = k
                 => Announced = k

LEMMA AnnouncedOnly == TypeOK => AnnouncedDetermined
<1> SUFFICES ASSUME TypeOK, NEW k \in Nat, \A q \in Events : log[q] <= k,
                    k # 0 => \E q \in Events : log[q] = k
             PROVE  Announced = k
  BY DEF AnnouncedDetermined
<1>1. Len(log) + 1 \in Nat /\ \A q \in Events : q < Len(log) + 1
  BY DEF TypeOK, Events
<1> QED BY <1>1, LastRowIs DEF Announced

\* The horizon is the only end of a positioned prefix whose next row is not.
HorizonDetermined ==
  \A k \in 0..Len(journal) : /\ \A i \in 1..k : position[i] # 0
                             /\ k < Len(journal) => position[k + 1] = 0
                             => Horizon = k

LEMMA HorizonOnly == TypeOK => HorizonDetermined
<1> SUFFICES ASSUME TypeOK, NEW k \in 0..Len(journal), \A i \in 1..k : position[i] # 0,
                    k < Len(journal) => position[k + 1] = 0
             PROVE  Horizon = k
  BY DEF HorizonDetermined
<1>1. PICK h \in 0..Len(journal) : h = Horizon
  BY HorizonIsPrefixEnd
<1>2. /\ \A i \in 1..h : position[i] # 0
      /\ h < Len(journal) => position[h + 1] = 0
  BY <1>1, HorizonIsPrefixEnd
<1>3. Len(journal) \in Nat
  BY DEF TypeOK
<1>4. ~ (h < k)
  <2> SUFFICES ASSUME h < k PROVE FALSE
    OBVIOUS
  <2>1. h + 1 \in 1..k /\ h < Len(journal)
    BY <1>3
  <2> QED BY <1>2, <2>1
<1>5. ~ (k < h)
  <2> SUFFICES ASSUME k < h PROVE FALSE
    OBVIOUS
  <2>1. k + 1 \in 1..h /\ k < Len(journal)
    BY <1>3
  <2> QED BY <1>2, <2>1
<1> QED BY <1>1, <1>3, <1>4, <1>5

\* A decision is taken: one more in the journal, nothing new on the bus or in
\* the snapshot.
LEMMA FeedRecord ==
  ASSUME OutboxInv, OutboxInv', NEW d \in Takeable, Record(d)
  PROVE  Feed!Decide(d)
<1>1. TypeOK /\ TypeOK'
  BY DEF OutboxInv
<1>2. /\ Len(journal) < MaxDecisions /\ journal' = Append(journal, d)
      /\ position' = Append(position, 0) /\ log' = log
  BY DEF Record, busVars
<1>3. LastRowBefore(Len(log) + 1)' = LastRowBefore(Len(log) + 1)
  BY <1>2 DEF LastRowBefore, Events
<1>4. /\ Len(journal) \in Nat /\ Len(journal') = Len(journal) + 1
      /\ \A i \in 1..Len(journal) : position'[i] = position[i]
      /\ position'[Len(journal) + 1] = 0
  <2>1. journal \in Seq(Decision) /\ position \in Seq(Nat) /\ Len(position) = Len(journal)
    BY <1>1 DEF TypeOK
  <2> QED BY <1>2, <2>1
<1>5. PICK k \in 0..Len(journal) : k = Horizon
  BY <1>1, HorizonIsPrefixEnd
<1>6. /\ \A i \in 1..k : position[i] # 0
      /\ k < Len(journal) => position[k + 1] = 0
  BY <1>1, <1>5, HorizonIsPrefixEnd
<1>7. /\ k \in 0..Len(journal')
      /\ \A i \in 1..k : position'[i] # 0
      /\ k < Len(journal') => position'[k + 1] = 0
  <2>1. k < Len(journal) => k + 1 \in 1..Len(journal)
    BY <1>4
  <2>2. k < Len(journal') => position'[k + 1] = 0
    BY <1>4, <1>6, <2>1
  <2> QED BY <1>4, <1>6, <2>2
<1>8. (TypeOK => HorizonDetermined)'
  BY HorizonOnly, PTL
<1>9. Horizon' = Horizon
  BY <1>1, <1>5, <1>7, <1>8 DEF HorizonDetermined
<1> QED BY <1>2, <1>3, <1>9 DEF Feed!Decide

\* The bus gets the event of the row in hand: the next decision is announced,
\* or it was already and a copy of its event changes nothing.
LEMMA FeedPublish ==
  ASSUME OutboxInv, OutboxInv', waiting # {},
         NEW answer \in 1..(Len(log) + 1), Store(Min(waiting), answer),
         UNCHANGED <<journal, position>>
  PROVE  Feed!Announce \/ UNCHANGED Feed!vars
<1>1. TypeOK /\ TypeOK'
  BY DEF OutboxInv
<1>2. PICK r \in Rows : r = Min(waiting)
  BY RowInHand
<1>3. /\ position[r] = 0 /\ \A i \in Rows : i < r => position[i] # 0
      /\ \A p \in Events : log[p] <= r
  BY <1>2, RowInHand
<1>4. Horizon' = Horizon
  BY DEF Horizon, Unpublished, Rows
<1>5. CASE log' = log
  <2>1. LastRowBefore(Len(log) + 1)' = LastRowBefore(Len(log) + 1)
    BY <1>5 DEF LastRowBefore, Events
  <2> QED BY <1>4, <2>1 DEF Feed!vars
<1>6. CASE log' = Append(log, r)
  <2>1. /\ Rows = 1..Len(journal) /\ Len(journal) \in Nat /\ r \in Nat \ {0} /\ r <= Len(journal)
        /\ \A p \in Events : log[p] \in Nat
    <3>1. /\ journal \in Seq(Decision) /\ log \in Seq(Rows \cup {0})
          /\ Rows = DOMAIN journal /\ Len(journal) \in Nat
      <4>1. /\ journal \in Seq(Decision) /\ log \in Seq(Rows \cup {0})
        BY <1>1 DEF TypeOK
      <4> QED BY <4>1 DEF Rows
    <3>2. Rows = 1..Len(journal)
      BY <3>1
    <3>3. \A p \in Events : log[p] \in Rows
      BY <3>1 DEF Events
    <3> QED BY <3>1, <3>2, <3>3
  <2>2. PICK k \in 0..Len(journal) : k = Announced
    BY <1>1, AnnouncedIs
  <2>3. /\ \A q \in Events : log[q] <= k
        /\ k # 0 => \E q \in Events : log[q] = k
    BY <1>1, <2>2, AnnouncedIs
  <2>4. k <= r
    BY <1>3, <2>1, <2>3
  <2>5. ASSUME k < r - 1
        PROVE  FALSE
    <3>1. r - 1 \in Rows /\ r - 1 < r
      BY <2>1, <2>2, <2>5
    <3>2. position[r - 1] # 0
      BY <1>3, <3>1
    <3>3. position[r - 1] \in Events /\ log[position[r - 1]] = r - 1
      BY <2>1, <2>2, <2>5, <3>1, <3>2 DEF OutboxInv, DrainInv, CopiesOf, Events
    <3>4. r - 1 <= k
      BY <2>3, <3>3
    <3> QED BY <2>1, <2>2, <2>5, <3>4
  <2>6. /\ \A q \in Events' : log'[q] <= r
        /\ \E q \in Events' : log'[q] = r
    <3>1. /\ DOMAIN log = 1..Len(log) /\ DOMAIN log' = 1..(Len(log) + 1) /\ Len(log) \in Nat
          /\ \A p \in 1..Len(log) : log'[p] = log[p]
          /\ log'[Len(log) + 1] = r
      <4>1. log \in Seq(Rows \cup {0}) /\ r \in Rows \cup {0}
        BY <1>1 DEF TypeOK
      <4>2. Len(log) \in Nat /\ DOMAIN log = 1..Len(log)
        BY <4>1
      <4>3. /\ DOMAIN Append(log, r) = 1..(Len(log) + 1)
            /\ \A p \in 1..Len(log) : Append(log, r)[p] = log[p]
            /\ Append(log, r)[Len(log) + 1] = r
        BY <4>1, AppendedItems
      <4> QED BY <1>6, <4>2, <4>3
    <3>2. Len(log) + 1 \in Events'
      BY <2>1, <3>1 DEF Events
    <3>3. \A q \in Events' : q = Len(log) + 1 \/ (q \in Events /\ log'[q] = log[q])
      BY <3>1 DEF Events
    <3> QED BY <1>3, <2>1, <3>1, <3>2, <3>3
  <2>7. (TypeOK => AnnouncedDetermined)'
    BY AnnouncedOnly, PTL
  <2>8. Announced' = r
    BY <1>1, <2>1, <2>6, <2>7 DEF AnnouncedDetermined
  <2>9. CASE k = r
    BY <1>4, <2>2, <2>8, <2>9 DEF Feed!vars, Announced
  <2>10. CASE k = r - 1
    <3>1. Announced < Len(journal) /\ Announced' = Announced + 1
      BY <2>1, <2>2, <2>8, <2>10
    <3> QED BY <1>4, <3>1 DEF Feed!Announce, Announced
  <2> QED BY <2>1, <2>2, <2>4, <2>5, <2>9, <2>10
<1> QED BY <1>2, <1>5, <1>6 DEF Store, busVars

\* A row is marked published: the snapshot summarises one decision more.
LEMMA FeedMark ==
  ASSUME OutboxInv, OutboxInv', DrainMark
  PROVE  Feed!Serve
<1>1. TypeOK /\ TypeOK' /\ waiting # {} /\ ack # 0
  BY DEF OutboxInv, DrainMark
<1>2. PICK r \in Rows : r = Min(waiting)
  BY <1>1, RowInHand
<1>3. position[r] = 0 /\ \A i \in Rows : i < r => position[i] # 0
  BY <1>1, <1>2, RowInHand
<1>4. /\ Rows = 1..Len(journal) /\ Len(journal) \in Nat /\ r \in Nat \ {0} /\ r <= Len(journal)
      /\ DOMAIN position = 1..Len(journal)
  <2>1. /\ journal \in Seq(Decision) /\ position \in Seq(Nat) /\ Len(position) = Len(journal)
        /\ Rows = DOMAIN journal /\ Len(journal) \in Nat
    BY <1>1 DEF TypeOK, Rows
  <2>2. Rows = 1..Len(journal) /\ DOMAIN position = 1..Len(journal)
    BY <2>1
  <2> QED BY <2>1, <2>2
<1>5. /\ UNCHANGED <<journal, log>>
      /\ position' = [position EXCEPT ![r] = IF @ = 0 THEN ack ELSE @]
  BY <1>2 DEF DrainMark, busVars
<1>6. /\ position'[r] # 0
      /\ \A i \in Rows : i # r => position'[i] = position[i]
  BY <1>1, <1>3, <1>4, <1>5
<1>7. \A i \in Rows : r < i => position[i] = 0
  BY <1>3 DEF OutboxInv, PositionedPrefix
<1>8. Horizon = r - 1
  <2>1. r - 1 \in 0..Len(journal) /\ (r - 1) + 1 = r /\ 1..(r - 1) \subseteq Rows
    BY <1>4
  <2>2. \A i \in 1..(r - 1) : i < r
    BY <1>4
  <2> QED BY <1>1, <1>3, <2>1, <2>2, HorizonOnly DEF HorizonDetermined
<1>9. (TypeOK => HorizonDetermined)'
  BY HorizonOnly, PTL
<1>10. Horizon' = r
  <2>1. r \in 0..Len(journal') /\ \A i \in 1..r : position'[i] # 0
    BY <1>3, <1>4, <1>5, <1>6
  <2>2. r < Len(journal') => position'[r + 1] = 0
    <3>1. ASSUME r < Len(journal)
          PROVE  position'[r + 1] = 0
      <4>1. PICK j \in Rows : j = r + 1 /\ r < j /\ j # r
        BY <1>4, <3>1
      <4> QED BY <1>6, <1>7, <4>1
    <3> QED BY <1>5, <3>1
  <2> QED BY <1>1, <1>9, <2>1, <2>2 DEF HorizonDetermined
<1>11. ack \in Events /\ log[ack] = r
  BY <1>1, <1>2, <1>4 DEF OutboxInv, DrainInv, CopiesOf, Events
<1>12. Announced \in Nat /\ r <= Announced
  BY <1>1, <1>11, AnnouncedIs
<1>13. Horizon < LastRowBefore(Len(log) + 1) /\ Horizon' = Horizon + 1
  BY <1>4, <1>8, <1>10, <1>12 DEF Announced
<1>14. LastRowBefore(Len(log) + 1)' = LastRowBefore(Len(log) + 1)
  BY <1>5 DEF LastRowBefore, Events
<1> QED BY <1>5, <1>13, <1>14 DEF Feed!Serve

\* Every other step is invisible to the feed's readers.
LEMMA FeedStutters ==
  ASSUME OutboxInv, UNCHANGED <<journal, position>>, log' = log \/ log' = Append(log, 0)
  PROVE  UNCHANGED Feed!vars
<1>1. Horizon' = Horizon
  BY DEF Horizon, Unpublished, Rows
<1>2. CASE log' = log
  BY <1>1, <1>2 DEF Feed!vars, LastRowBefore, Events
<1>3. CASE log' = Append(log, 0)
  <2>1. /\ DOMAIN log = 1..Len(log) /\ DOMAIN log' = 1..(Len(log) + 1) /\ Len(log) \in Nat
        /\ \A p \in 1..Len(log) : log'[p] = log[p]
        /\ log'[Len(log) + 1] = 0 /\ Len(log') = Len(log) + 1
    BY <1>3 DEF OutboxInv, TypeOK
  <2>2. Events' = Events /\ \A e \in Events : e \in 1..Len(log)
    BY <2>1 DEF Events
  <2>3. {e \in Events' : e < Len(log') + 1} = {e \in Events : e < Len(log) + 1}
    BY <2>1, <2>2
  <2>4. {log'[e] : e \in {x \in Events' : x < Len(log') + 1}}
          = {log[e] : e \in {x \in Events : x < Len(log) + 1}}
    BY <2>1, <2>2, <2>3
  <2> QED BY <1>1, <2>4 DEF Feed!vars, LastRowBefore
<1> QED BY <1>2, <1>3

LEMMA FeedStep == OutboxInv /\ [Next]_vars => [Feed!Next]_(Feed!vars)
<1> SUFFICES ASSUME OutboxInv, [Next]_vars PROVE [Feed!Next]_(Feed!vars)
  OBVIOUS
<1>0. OutboxInv'
  BY OutboxStep
<1>1. CASE \E d \in Takeable : Record(d)
  BY <1>0, <1>1, FeedRecord, TakeableAssumption DEF Feed!Next
<1>2. CASE DrainPublish \/ DrainUnacked
  BY <1>0, <1>2, FeedPublish DEF DrainPublish, DrainUnacked, Feed!Next
<1>3. CASE DrainMark
  BY <1>0, <1>3, FeedMark DEF Feed!Next
<1>4. CASE \/ DrainRead \/ DrainAbandoned \/ Traffic \/ (\E r \in window : WindowExpires(r))
           \/ Deliver \/ Redeliver
           \/ FetchSnapshot \/ OpenConsumer \/ Handle \/ HandleUnacked
           \/ Rebuild \/ SensorStops \/ UNCHANGED vars
  <2>1. UNCHANGED <<journal, position>> /\ (log' = log \/ log' = Append(log, 0))
    BY <1>4 DEF DrainRead, DrainAbandoned, Traffic, WindowExpires, Deliver, Redeliver,
                FetchSnapshot, OpenConsumer, Handle, HandleUnacked, Rebuild, SensorStops,
                vars, gatewayVars, busVars
  <2> QED BY <2>1, FeedStutters
<1> QED BY <1>1, <1>2, <1>3, <1>4 DEF Next

\* The outbox table, the drain loop and the de-duplicating bus together are the
\* feed DecisionFeed promises: one journal, told to the bus one decision at a
\* time in the journal's order, with a snapshot that never runs ahead of the bus.
THEOREM OutboxImplementsFeed == Spec => Feed!Spec
<1>1. Init => Feed!Init
  <2>1. Init => TypeOK
    BY TypeInit
  <2> SUFFICES ASSUME Init PROVE Feed!Init
    OBVIOUS
  <2>2. Announced = 0
    BY <2>1, AnnouncedIs DEF Init
  <2>3. Horizon = 0
    BY <2>1, HorizonIsPrefixEnd DEF Init
  <2> QED BY <2>2, <2>3 DEF Init, Feed!Init, Announced
<1>2. OutboxInv /\ [Next]_vars => [Feed!Next]_(Feed!vars)
  BY FeedStep
<1> QED BY <1>1, <1>2, OutboxInvariant, PTL DEF Spec, Feed!Spec
=============================================================================
