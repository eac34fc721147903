------------------------- MODULE BridgeStatusProofs -------------------------
(* What is proved of a bridge's status: types, the chain of the activity     *)
(* feed, the agreement with a bridge that has nothing left to say and that   *)
(* an outage told has lasted, for every grace and any number of changes,     *)
(* failures and restarts.                                                    *)
(*                                                                           *)
(* The argument: what is held starts from the state the owner was told and   *)
(* goes elsewhere, unless a change was recorded past it when its own write   *)
(* failed (HeldFits, OvertakenDue), so that recording it continues the chain *)
(* or is the stray its history says it is; and                               *)
(* the last state the bridge has to push is the one it is in (QueueEndsNow), *)
(* so that hearing it whole leaves nothing else told or held.  An outage     *)
(* cannot be told early because what waits and the silence about the state   *)
(* told before it always add up to the grace (HoldAges).                     *)
EXTENDS BridgeStatus, TLAPS

Fits(waiting, rs) ==
  waiting # None => waiting.from = Told(rs) /\ waiting.to # Told(rs)

HeldFits == ~overtaken => Fits(held, rows)

OvertakenDue == overtaken => held # None /\ held.left = 0 /\ ~calm

QueueEndsNow == queue # <<>> => queue[Len(queue)].state = bridge.state

IInv == TypeOK /\ HeldFits /\ OvertakenDue /\ ChangesChain /\ QueueEndsNow /\ AgreesWhenCalm

-----------------------------------------------------------------------------
(* Recording.                                                                *)

\* A transition that starts from the state told and ends elsewhere continues
\* the chain, any other does but for its own row; and it is what is told then
\* (Store::record_bridge_status).
LEMMA Appended ==
  ASSUME NEW rs \in Seq(Transition), NEW t \in Transition, NEW except, NEW now,
         Chained(rs, except), except \subseteq now,
         Len(rs) + 1 \in now \/ (t.from = Told(rs) /\ t.to # Told(rs))
  PROVE  /\ Append(rs, t) \in Seq(Transition)
         /\ Chained(Append(rs, t), now)
         /\ Told(Append(rs, t)) = t.to
<1>1. Append(rs, t) \in Seq(Transition) /\ Len(Append(rs, t)) = Len(rs) + 1
  OBVIOUS
<1>2. Append(rs, t)[Len(rs) + 1] = t /\ \A i \in 1..Len(rs) : Append(rs, t)[i] = rs[i]
  OBVIOUS
<1>3. Told(Append(rs, t)) = t.to
  <2>1. Append(rs, t) # <<>>
    <3>1. Len(rs) + 1 # 0 /\ Len(<<>>) = 0
      OBVIOUS
    <3>2. QED
      BY <1>1, <3>1
  <2>2. QED
    BY <1>1, <1>2, <2>1 DEF Told
<1>4. Chained(Append(rs, t), now)
  <2>1. SUFFICES ASSUME NEW i \in 1..(Len(rs) + 1), i \notin now
                 PROVE  /\ Append(rs, t)[i].from =
                             IF i = 1 THEN Unheard ELSE Append(rs, t)[i - 1].to
                        /\ Append(rs, t)[i].to # Append(rs, t)[i].from
    BY <1>1 DEF Chained
  <2>2. CASE i = Len(rs) + 1
    <3>0. t.from = Told(rs) /\ t.to # Told(rs)
      BY <2>1, <2>2
    <3>1. CASE rs = <<>>
      BY <1>2, <2>2, <3>0, <3>1 DEF Told
    <3>2. CASE rs # <<>>
      <4>1. Len(rs) \in Nat \ {0} /\ Told(rs) = rs[Len(rs)].to
        BY <3>2 DEF Told
      <4>2. i # 1 /\ i - 1 = Len(rs) /\ Append(rs, t)[i - 1] = rs[Len(rs)]
        BY <1>2, <2>2, <4>1
      <4>3. QED
        BY <1>2, <2>2, <3>0, <4>1, <4>2
    <3>3. QED
      BY <3>1, <3>2
  <2>3. CASE i # Len(rs) + 1
    <3>1. i \in 1..Len(rs) /\ i \in DOMAIN rs \ except
      BY <2>1, <2>3
    <3>2. i # 1 => i - 1 \in 1..Len(rs)
      BY <3>1
    <3>3. QED
      BY <1>2, <3>1, <3>2 DEF Chained
  <2>4. QED
    BY <2>2, <2>3
<1>5. QED
  BY <1>1, <1>3, <1>4

\* The same of what the store does with it: it is appended, or an identical one
\* is kept.
LEMMA RecordedFits ==
  ASSUME NEW rs \in Seq(Transition), NEW except, NEW now, Chained(rs, except),
         NEW t, t.from \in States, t.to \in States, t.at \in Seconds,
         except \subseteq now,
         Len(rs) + 1 \in now \/ (t.from = Told(rs) /\ t.to # Told(rs))
  PROVE  /\ Recorded(rs, t) \in Seq(Transition)
         /\ Recorded(rs, t) # rs => Chained(Recorded(rs, t), now)
         /\ DOMAIN rs \subseteq DOMAIN Recorded(rs, t)
         /\ Recorded(rs, t) # rs => Len(rs) + 1 \in DOMAIN Recorded(rs, t)
         /\ ~Replayed(rs, t) => Told(Recorded(rs, t)) = t.to
<1> DEFINE row == [from |-> t.from, to |-> t.to, at |-> t.at]
<1>1. row \in Transition /\ row.from = t.from /\ row.to = t.to
  BY DEF Transition
<1>2. /\ Append(rs, row) \in Seq(Transition)
      /\ Chained(Append(rs, row), now)
      /\ Told(Append(rs, row)) = t.to
  BY <1>1, Appended
<1>3. DOMAIN rs \subseteq DOMAIN Append(rs, row) /\ Len(rs) + 1 \in DOMAIN Append(rs, row)
  BY <1>1
<1>4. Recorded(rs, t) = IF Replayed(rs, t) THEN rs ELSE Append(rs, row)
  BY DEF Recorded
<1>5. QED
  BY <1>2, <1>3, <1>4

\* A row that is taken is what is told then, wherever it starts from.
LEMMA ToldIsRecorded ==
  ASSUME NEW rs \in Seq(Transition),
         NEW t, t.from \in States, t.to \in States, t.at \in Seconds, ~Replayed(rs, t)
  PROVE  Told(Recorded(rs, t)) = t.to
<1> DEFINE everything == DOMAIN rs \cup {Len(rs) + 1}
<1>1. Chained(rs, DOMAIN rs) /\ DOMAIN rs \subseteq everything /\ Len(rs) + 1 \in everything
  BY DEF Chained
<1> HIDE DEF everything
<1>2. QED
  BY <1>1, RecordedFits

-----------------------------------------------------------------------------
(* One decision.                                                             *)

\* The strays a flush leaves.
StraysThen(fails) ==
  IF overtaken /\ Flushed(fails).rows # rows THEN strays \cup {Len(rows) + 1} ELSE strays

\* What the flush leaves: a chain but for its strays, and a hold that fits it
\* unless an overtaken one stays; once the store has taken what was due, nothing
\* due is held.
LEMMA FlushedFits ==
  ASSUME TypeOK, HeldFits, OvertakenDue, ChangesChain, NEW fails \in SUBSET StoreCalls
  PROVE  /\ Flushed(fails).rows \in Seq(Transition)
         /\ Flushed(fails).held = None \/ Flushed(fails).held \in Held
         /\ Chained(Flushed(fails).rows, StraysThen(fails))
         /\ StraysThen(fails) \subseteq DOMAIN Flushed(fails).rows
         /\ (overtaken /\ "flush" \in fails) \/ Fits(Flushed(fails).held, Flushed(fails).rows)
         /\ (Due => "flush" \notin fails) /\ Flushed(fails).held # None => Flushed(fails).held.left > 0
         /\ Due /\ "flush" \notin fails => Flushed(fails).held = None
         /\ ~(Due /\ "flush" \notin fails) => Flushed(fails).rows = rows /\ Flushed(fails).held = held
<1>0. overtaken => Due
  BY DEF OvertakenDue, Due
<1>1. CASE Due /\ "flush" \notin fails
  <2>1. held \in Held /\ held.from \in States /\ held.to \in States /\ held.at \in Seconds
    BY <1>1 DEF Due, TypeOK, Held
  <2>2. ~overtaken => held.from = Told(rows) /\ held.to # Told(rows)
    BY <1>1 DEF Due, HeldFits, Fits
  <2>4. Flushed(fails) = [rows |-> Recorded(rows, held), held |-> None]
    BY <1>1 DEF Flushed
  <2>5. Flushed(fails).rows = Recorded(rows, held) /\ Flushed(fails).held = None
    BY <2>4
  <2> DEFINE now == IF overtaken THEN strays \cup {Len(rows) + 1} ELSE strays
  <2>6. strays \subseteq now /\ (Len(rows) + 1 \in now \/ ~overtaken)
    OBVIOUS
  <2>7. rows \in Seq(Transition) /\ Chained(rows, strays) /\ strays \subseteq DOMAIN rows
    BY DEF TypeOK, ChangesChain
  <2> HIDE DEF now
  <2>8. /\ Recorded(rows, held) \in Seq(Transition)
        /\ Recorded(rows, held) # rows => Chained(Recorded(rows, held), now)
        /\ DOMAIN rows \subseteq DOMAIN Recorded(rows, held)
        /\ Recorded(rows, held) # rows => Len(rows) + 1 \in DOMAIN Recorded(rows, held)
    BY <2>1, <2>2, <2>6, <2>7, RecordedFits
  <2>9. StraysThen(fails) = IF Recorded(rows, held) # rows THEN now ELSE strays
    BY <2>5 DEF StraysThen, now
  <2>10. Chained(Recorded(rows, held), StraysThen(fails))
    BY <2>7, <2>8, <2>9
  <2>11. StraysThen(fails) \subseteq DOMAIN Recorded(rows, held)
    BY <2>7, <2>8, <2>9 DEF now
  <2>12. QED
    BY <1>1, <2>5, <2>8, <2>10, <2>11 DEF Fits
<1>2. CASE ~(Due /\ "flush" \notin fails)
  <2>1. Flushed(fails).rows = rows /\ Flushed(fails).held = held
    BY <1>2 DEF Flushed
  <2>2. (Due => "flush" \notin fails) /\ held # None => held.left > 0
    <3>1. SUFFICES ASSUME Due => "flush" \notin fails, held # None PROVE held.left > 0
      OBVIOUS
    <3>2. held.left # 0
      BY <1>2, <3>1 DEF Due
    <3>3. held.left \in Nat
      BY <3>1, GraceAssumption DEF TypeOK, Held
    <3>4. QED
      BY <3>2, <3>3
  <2>3. StraysThen(fails) = strays
    BY <2>1 DEF StraysThen
  <2>4. (overtaken /\ "flush" \in fails) \/ Fits(held, rows)
    BY <1>0, <1>2 DEF HeldFits
  <2>5. QED
    BY <1>2, <2>1, <2>2, <2>3, <2>4 DEF TypeOK, ChangesChain
<1>3. QED
  BY <1>1, <1>2

\* An observation keeps the chain and leaves a hold that fits it or was
\* overtaken; and one that is heard whole leaves the state observed told, or
\* about to be.
LEMMA ObserveFits ==
  ASSUME TypeOK, HeldFits, OvertakenDue, ChangesChain,
         NEW o \in Observed, NEW fails \in SUBSET StoreCalls, Observe(o, fails), Lined(fails)
  PROVE  /\ rows' \in Seq(Transition)
         /\ held' = None \/ held' \in Held
         /\ sinceTold' \in 0..Grace
         /\ overtaken' \in BOOLEAN /\ strays' \subseteq DOMAIN rows'
         /\ HeldFits' /\ ChangesChain'
         /\ overtaken' => held' # None /\ held'.left = 0 /\ ~HeardWhole(o, fails)
         /\ HeardWhole(o, fails) => Pending' = o.state
<1> DEFINE after == Flushed(fails)
<1> DEFINE told == Told(after.rows)
<1>1. /\ after.rows \in Seq(Transition)
      /\ after.held = None \/ after.held \in Held
      /\ Chained(after.rows, strays')
      /\ strays' \subseteq DOMAIN after.rows
      /\ (overtaken /\ "flush" \in fails) \/ Fits(after.held, after.rows)
      /\ (Due => "flush" \notin fails) /\ after.held # None => after.held.left > 0
      /\ Due /\ "flush" \notin fails => after.held = None
      /\ ~(Due /\ "flush" \notin fails) => after.rows = rows /\ after.held = held
  BY FlushedFits DEF Lined, StraysThen
<1>2. o.state \in States /\ o.at \in Seconds
  BY DEF Observed
<1>3. told \in States
  <2>1. CASE after.rows = <<>>
    BY <2>1 DEF Told, Unheard, States
  <2>2. CASE after.rows # <<>>
    <3>1. after.rows[Len(after.rows)] \in Transition
      BY <1>1, <2>2
    <3>2. QED
      BY <2>2, <3>1 DEF Told, Transition
  <2>3. QED
    BY <2>1, <2>2
<1>4. 0 \in 0..Grace /\ sinceTold \in 0..Grace /\ Grace \in 0..Grace
  BY GraceAssumption DEF TypeOK
<1>5. /\ Settled(after.held) = None \/ Settled(after.held) = after.held
      /\ (Due => "flush" \notin fails) => Settled(after.held) = None
  BY <1>1 DEF Settled
<1>6. overtaken' = (Due /\ "flush" \in fails /\ (overtaken \/ rows' # rows)) /\ overtaken' \in BOOLEAN
  BY DEF Lined
<1>7. overtaken' => /\ after.held = held /\ Settled(after.held) = held
                    /\ held # None /\ held.left = 0 /\ ~HeardWhole(o, fails)
  <2>1. overtaken' => Due /\ "flush" \in fails /\ after.held = held
    BY <1>1, <1>6
  <2>2. overtaken' => held # None /\ held.left = 0
    BY <2>1 DEF Due
  <2>3. held.left = 0 => Settled(held) = held
    BY DEF Settled
  <2>4. overtaken' => ~HeardWhole(o, fails)
    BY <2>1 DEF HeardWhole
  <2> HIDE DEF after
  <2>5. QED
    BY <2>1, <2>2, <2>3, <2>4
<1>8. rows' = after.rows /\ ~overtaken' => Fits(after.held, after.rows)
  <2>1. overtaken => Due
    BY DEF OvertakenDue, Due
  <2>2. QED
    BY <1>1, <1>6, <2>1
<1> HIDE DEF after
<1>9. CASE /\ "read" \in fails /\ rows' = after.rows /\ held' = after.held
           /\ sinceTold' = IF after.rows = rows THEN sinceTold ELSE 0
  <2>1. HeldFits' /\ ChangesChain'
    BY <1>1, <1>8, <1>9 DEF HeldFits, ChangesChain, Fits
  <2>2. ~HeardWhole(o, fails)
    BY <1>9 DEF HeardWhole, Refused
  <2>3. sinceTold' \in 0..Grace
    BY <1>4, <1>9
  <2>4. QED
    BY <1>1, <1>6, <1>7, <1>9, <2>1, <2>2, <2>3
<1>10. CASE o.state = told /\ rows' = after.rows /\ held' = Settled(after.held) /\ sinceTold' = 0
  <2>1. HeldFits' /\ ChangesChain'
    BY <1>1, <1>5, <1>8, <1>10 DEF HeldFits, Fits, ChangesChain
  <2>2. HeardWhole(o, fails) => Pending' = o.state
    BY <1>5, <1>10 DEF HeardWhole, Pending
  <2>3. QED
    BY <1>1, <1>4, <1>5, <1>6, <1>7, <1>10, <2>1, <2>2
<1>11. CASE /\ o.state # told /\ Waits(o.state)
            /\ rows' = after.rows /\ held' = HeldBack(after.held, o, told)
            /\ sinceTold' = IF after.rows = rows THEN sinceTold ELSE 0
  <2>1. /\ held' \in Held /\ held'.to = o.state
        /\ held'.from = IF after.held = None THEN told ELSE after.held.from
        /\ after.held # None => held'.left = after.held.left
    BY <1>1, <1>2, <1>3, <1>4, <1>11 DEF HeldBack, Held
  <2>2. held' # None
    BY <1>2, <2>1 DEF None, States
  <2>3. HeldFits' /\ ChangesChain'
    <3>1. ~overtaken' => held'.from = told
      BY <1>8, <1>11, <2>1 DEF Fits
    <3>2. QED
      BY <1>1, <1>11, <2>1, <3>1 DEF HeldFits, Fits, ChangesChain
  <2>4. Pending' = o.state
    BY <2>1, <2>2 DEF Pending
  <2>5. overtaken' => held'.left = 0
    BY <1>7, <2>1
  <2>6. QED
    BY <1>1, <1>4, <1>6, <1>7, <1>11, <2>1, <2>2, <2>3, <2>4, <2>5
<1>12. CASE /\ o.state # told /\ ~Waits(o.state)
            /\ rows' = IF "record" \notin fails
                       THEN Recorded(after.rows, [from |-> told, to |-> o.state, at |-> o.at])
                       ELSE after.rows
            /\ held' = Settled(after.held)
            /\ sinceTold' = 0
  <2> DEFINE t == [from |-> told, to |-> o.state, at |-> o.at]
  <2>1. /\ Recorded(after.rows, t) \in Seq(Transition)
        /\ Chained(Recorded(after.rows, t), strays')
        /\ DOMAIN after.rows \subseteq DOMAIN Recorded(after.rows, t)
        /\ ~Replayed(after.rows, t) => Told(Recorded(after.rows, t)) = o.state
    <3>1. /\ t.from \in States /\ t.to \in States /\ t.at \in Seconds
          /\ t.from = told /\ t.to # told /\ t.to = o.state
      BY <1>2, <1>3, <1>12
    <3>2. /\ Recorded(after.rows, t) \in Seq(Transition)
          /\ Recorded(after.rows, t) # after.rows => Chained(Recorded(after.rows, t), strays')
          /\ DOMAIN after.rows \subseteq DOMAIN Recorded(after.rows, t)
          /\ ~Replayed(after.rows, t) => Told(Recorded(after.rows, t)) = t.to
      <4>1. /\ after.rows \in Seq(Transition) /\ Chained(after.rows, strays')
            /\ t.from = Told(after.rows) /\ t.to # Told(after.rows)
        BY <1>1, <3>1
      <4> HIDE DEF t, told
      <4>2. QED
        BY <3>1, <4>1, RecordedFits
    <3>3. Recorded(after.rows, t) = after.rows => Chained(Recorded(after.rows, t), strays')
      BY <1>1
    <3>4. QED
      BY <3>1, <3>2, <3>3
  <2>2. Replayed(after.rows, t) <=> Replayed(after.rows, [to |-> o.state, at |-> o.at])
    BY DEF Replayed, SameEvent
  <2>3. CASE "record" \notin fails
    <3>1. rows' = Recorded(after.rows, t)
      BY <1>12, <2>3
    <3>2. ChangesChain' /\ strays' \subseteq DOMAIN rows'
      BY <1>1, <2>1, <3>1 DEF ChangesChain
    <3>3. HeldFits'
      <4>1. CASE Due => "flush" \notin fails
        BY <1>5, <1>12, <4>1 DEF HeldFits, Fits
      <4>2. CASE Due /\ "flush" \in fails
        <5>1. ~overtaken' => rows' = rows /\ after.rows = rows
          BY <1>1, <1>6, <4>2
        <5>2. QED
          BY <1>5, <1>8, <1>12, <5>1 DEF HeldFits, Fits
      <4>3. QED
        BY <4>1, <4>2
    <3>4. HeardWhole(o, fails) => ~Replayed(after.rows, [to |-> o.state, at |-> o.at])
      BY <1>12 DEF HeardWhole, after
    <3>5. HeardWhole(o, fails) => held' = None
      BY <1>5, <1>12 DEF HeardWhole
    <3>6. HeardWhole(o, fails) => Pending' = o.state
      BY <2>1, <2>2, <3>1, <3>4, <3>5 DEF Pending
    <3>7. QED
      BY <1>1, <1>4, <1>5, <1>6, <1>7, <1>12, <2>1, <3>1, <3>2, <3>3, <3>6
  <2>4. CASE "record" \in fails
    <3>1. rows' = after.rows
      BY <1>12, <2>4
    <3>2. HeldFits' /\ ChangesChain'
      BY <1>1, <1>5, <1>8, <1>12, <3>1 DEF HeldFits, Fits, ChangesChain
    <3>3. ~HeardWhole(o, fails)
      BY <1>12, <2>4 DEF HeardWhole, Refused, after
    <3>4. QED
      BY <1>1, <1>4, <1>5, <1>6, <1>7, <1>12, <3>1, <3>2, <3>3
  <2>5. QED
    BY <2>3, <2>4
<1>13. QED
  BY <1>9, <1>10, <1>11, <1>12 DEF Observe, after

-----------------------------------------------------------------------------
(* Every step.                                                               *)

LEMMA InitEstablishes == Init => IInv
<1>1. SUFFICES ASSUME Init PROVE IInv
  OBVIOUS
<1>2. bridge \in Observed /\ second \in Seconds
  BY <1>1, ReportedAssumption, LimitsAssumption DEF Init, Observed, Seconds
<1>3. TypeOK
  <2>1. queue \in Seq(Observed) /\ rows \in Seq(Transition)
    BY <1>1 DEF Init
  <2>2. held = None /\ asked = Asking /\ calm = FALSE /\ overtaken = FALSE /\ strays \subseteq DOMAIN rows
    BY <1>1 DEF Init
  <2>3. sinceTold \in 0..Grace /\ moves \in 0..MaxMoves /\ faults \in 0..MaxFaults /\ stops \in 0..MaxStops
    BY <1>1, GraceAssumption, LimitsAssumption DEF Init
  <2>4. QED
    BY <1>2, <2>1, <2>2, <2>3 DEF TypeOK
<1>4. HeldFits /\ OvertakenDue /\ ChangesChain /\ QueueEndsNow /\ AgreesWhenCalm
  BY <1>1 DEF Init, HeldFits, Fits, OvertakenDue, ChangesChain, Chained, QueueEndsNow, AgreesWhenCalm
<1>5. QED
  BY <1>3, <1>4 DEF IInv

\* What the owner has been told, and what waits, are only changed by a decision.
LEMMA UntouchedFits ==
  ASSUME IInv, UNCHANGED <<rows, held, lineVars>>
  PROVE  /\ HeldFits' /\ ChangesChain' /\ Pending' = Pending
         /\ calm' = calm => OvertakenDue'
BY DEF IInv, HeldFits, Fits, OvertakenDue, ChangesChain, Pending, lineVars

LEMMA MovePreserves ==
  ASSUME IInv, NEW state \in Reported, Move(state) PROVE IInv'
<1>1. TypeOK /\ state \in States
  BY ReportedAssumption DEF IInv
<1>2. bridge' = [state |-> state, at |-> second] /\ bridge' \in Observed
  BY <1>1 DEF Move, Observed, TypeOK
<1>3. queue' = Append(queue, bridge') /\ queue \in Seq(Observed)
  BY <1>1 DEF Move, TypeOK
<1>4. queue' \in Seq(Observed) /\ queue' # <<>> /\ queue'[Len(queue')] = bridge'
  BY <1>2, <1>3
<1>5. TypeOK'
  BY <1>1, <1>2, <1>4, LimitsAssumption DEF Move, TypeOK, lineVars
<1>6. HeldFits' /\ OvertakenDue' /\ ChangesChain'
  BY UntouchedFits DEF Move
<1>7. QueueEndsNow' /\ AgreesWhenCalm'
  BY <1>2, <1>4 DEF QueueEndsNow, AgreesWhenCalm
<1>8. QED
  BY <1>5, <1>6, <1>7 DEF IInv

\* The last element of a queue that its removal empties.
LEMMA LastOut ==
  ASSUME NEW S, NEW q \in Seq(S), q # <<>>, Tail(q) = <<>>
  PROVE  Head(q) = q[Len(q)]
<1>1. Len(q) \in Nat /\ Len(q) # 0 /\ Len(Tail(q)) = Len(q) - 1
  OBVIOUS
<1>2. Len(Tail(q)) = 0
  <2>1. Len(<<>>) = 0
    OBVIOUS
  <2>2. QED
    BY <2>1
<1>3. ASSUME NEW n \in Nat, n - 1 = 0 PROVE n = 1
  BY <1>3
<1>4. Len(q) = 1
  BY <1>1, <1>2, <1>3
<1>5. QED
  BY <1>4

LEMMA PushPreserves ==
  ASSUME IInv, Push PROVE IInv'
<1>1. PICK fails \in SUBSET StoreCalls, answered \in BOOLEAN :
        /\ Observe(Head(queue), fails) /\ Lined(fails)
        /\ Spend((IF fails = {} THEN 0 ELSE 1) + (IF answered THEN 0 ELSE 1))
        /\ queue' = IF answered /\ ~Refused(Head(queue), fails) THEN Tail(queue) ELSE queue
        /\ calm' = HeardWhole(Head(queue), fails)
  BY DEF Push
<1>2. /\ queue # <<>> /\ queue \in Seq(Observed) /\ Head(queue) \in Observed
      /\ queue[Len(queue)].state = bridge.state
  BY DEF Push, IInv, TypeOK, QueueEndsNow
<1>3. UNCHANGED <<bridge, asked, second, moves, stops>>
  BY DEF Push
<1>4. /\ rows' \in Seq(Transition)
      /\ held' = None \/ held' \in Held
      /\ sinceTold' \in 0..Grace
      /\ overtaken' \in BOOLEAN /\ strays' \subseteq DOMAIN rows'
      /\ HeldFits' /\ ChangesChain'
      /\ overtaken' => held' # None /\ held'.left = 0 /\ ~HeardWhole(Head(queue), fails)
      /\ HeardWhole(Head(queue), fails) => Pending' = Head(queue).state
  BY <1>1, <1>2, ObserveFits DEF IInv
<1>5. queue' \in Seq(Observed)
  BY <1>1, <1>2
<1>6. faults' \in 0..MaxFaults
  <2>1. (IF fails = {} THEN 0 ELSE 1) + (IF answered THEN 0 ELSE 1) \in Nat
    OBVIOUS
  <2>2. faults \in Nat
    BY LimitsAssumption DEF IInv, TypeOK
  <2>3. QED
    BY <1>1, <2>1, <2>2, LimitsAssumption DEF Spend
<1>7. calm' \in BOOLEAN
  BY <1>1 DEF HeardWhole
<1>8. TypeOK'
  BY <1>3, <1>4, <1>5, <1>6, <1>7 DEF IInv, TypeOK
<1>9. QueueEndsNow'
  <2>1. CASE queue' = queue
    BY <1>2, <1>3, <2>1 DEF QueueEndsNow
  <2>2. CASE queue' = Tail(queue) /\ Tail(queue) # <<>>
    <3>1. Tail(queue)[Len(Tail(queue))] = queue[Len(queue)]
      BY <1>2, <2>2
    <3>2. QED
      BY <1>2, <1>3, <2>2, <3>1 DEF QueueEndsNow
  <2>3. CASE queue' = <<>>
    BY <2>3 DEF QueueEndsNow
  <2>4. QED
    BY <1>1, <2>1, <2>2, <2>3
<1>10. AgreesWhenCalm'
  <2>1. SUFFICES ASSUME calm', queue' = <<>> PROVE Pending' = bridge'.state
    BY DEF AgreesWhenCalm
  <2>2. Tail(queue) = <<>>
    BY <1>1, <1>2, <2>1
  <2>3. Head(queue) = queue[Len(queue)]
    BY <1>2, <2>2, LastOut
  <2>4. QED
    BY <1>1, <1>2, <1>3, <1>4, <2>1, <2>3
<1>11. OvertakenDue'
  BY <1>1, <1>4 DEF OvertakenDue
<1>12. QED
  BY <1>4, <1>8, <1>9, <1>10, <1>11 DEF IInv

LEMMA ReconcilePreserves ==
  ASSUME IInv, Reconcile PROVE IInv'
<1> DEFINE o == [state |-> asked.state, at |-> asked.at]
<1>1. PICK fails \in SUBSET StoreCalls :
        /\ Observe(o, fails) /\ Lined(fails)
        /\ Spend(IF fails = {} THEN 0 ELSE 1)
        /\ calm' = (HeardWhole(o, fails) /\ o.state = bridge.state)
  BY DEF Reconcile
<1>2. asked' = Done /\ UNCHANGED <<bridge, queue, second, moves, stops>>
  BY DEF Reconcile, bridgeVars
<1>3. o \in Observed
  BY DEF Reconcile, IInv, TypeOK, Observed
<1>4. /\ rows' \in Seq(Transition)
      /\ held' = None \/ held' \in Held
      /\ sinceTold' \in 0..Grace
      /\ overtaken' \in BOOLEAN /\ strays' \subseteq DOMAIN rows'
      /\ HeldFits' /\ ChangesChain'
      /\ overtaken' => held' # None /\ held'.left = 0 /\ ~HeardWhole(o, fails)
      /\ HeardWhole(o, fails) => Pending' = o.state
  BY <1>1, <1>3, ObserveFits DEF IInv
<1>5. faults' \in 0..MaxFaults
  BY <1>1, LimitsAssumption DEF Spend, IInv, TypeOK
<1>6. TypeOK'
  BY <1>1, <1>2, <1>4, <1>5 DEF IInv, TypeOK, HeardWhole
<1>7. QueueEndsNow' /\ AgreesWhenCalm'
  BY <1>1, <1>2, <1>4 DEF IInv, QueueEndsNow, AgreesWhenCalm
<1>8. OvertakenDue'
  BY <1>1, <1>4 DEF OvertakenDue
<1>9. QED
  BY <1>4, <1>6, <1>7, <1>8 DEF IInv

LEMMA SweepPreserves ==
  ASSUME IInv, Sweep PROVE IInv'
<1>1. PICK fails \in SUBSET {"flush"} :
        /\ rows' = Flushed(fails).rows /\ held' = Flushed(fails).held /\ Lined(fails)
        /\ Spend(IF fails = {} THEN 0 ELSE 1)
        /\ calm' = (calm /\ (fails = {} => ~Replayed(rows, held)))
        /\ sinceTold' = IF fails = {} THEN 0 ELSE sinceTold
  BY DEF Sweep
<1>2. Due /\ UNCHANGED <<bridge, queue, asked, second, moves, stops>>
  BY DEF Sweep, bridgeVars
<1>3. /\ rows' \in Seq(Transition)
      /\ held' = None \/ held' \in Held
      /\ overtaken' \in BOOLEAN /\ strays' \subseteq DOMAIN rows'
      /\ HeldFits' /\ OvertakenDue' /\ ChangesChain'
  <2>1. fails \in SUBSET StoreCalls /\ (fails = {} <=> "flush" \notin fails)
    BY DEF StoreCalls
  <2>2. /\ rows' \in Seq(Transition)
        /\ held' = None \/ held' \in Held
        /\ Chained(rows', strays') /\ strays' \subseteq DOMAIN rows'
        /\ (overtaken /\ "flush" \in fails) \/ Fits(held', rows')
        /\ "flush" \in fails => rows' = rows /\ held' = held
    BY <1>1, <1>2, <2>1, FlushedFits DEF IInv, Lined, StraysThen
  <2>3. overtaken' = ("flush" \in fails /\ overtaken)
    BY <1>1, <1>2, <2>2 DEF Lined, IInv, TypeOK
  <2>4. OvertakenDue'
    BY <1>1, <2>2, <2>3 DEF IInv, OvertakenDue
  <2>5. overtaken' \in BOOLEAN
    BY <2>3
  <2>6. HeldFits'
    BY <2>2, <2>3 DEF HeldFits, Fits
  <2>7. QED
    BY <2>2, <2>4, <2>5, <2>6 DEF ChangesChain
<1>4. faults' \in 0..MaxFaults /\ sinceTold' \in 0..Grace
  BY <1>1, LimitsAssumption, GraceAssumption DEF Spend, IInv, TypeOK
<1>5. TypeOK'
  BY <1>1, <1>2, <1>3, <1>4 DEF IInv, TypeOK
<1>6. calm' => calm /\ Pending' = Pending
  <2>1. CASE fails = {}
    <3>1. rows' = Recorded(rows, held) /\ held' = None
      BY <1>1, <1>2, <2>1 DEF Flushed
    <3>2. /\ held \in Held /\ held.from \in States /\ held.to \in States /\ held.at \in Seconds
      BY <1>2 DEF Due, IInv, TypeOK, Held
    <3>3. ~Replayed(rows, held) => Told(Recorded(rows, held)) = held.to
      BY <3>2, ToldIsRecorded DEF IInv, TypeOK
    <3>4. QED
      BY <1>1, <1>2, <2>1, <3>1, <3>3 DEF Pending, Due
  <2>2. CASE fails # {}
    <3>1. "flush" \in fails
      BY <2>2
    <3>2. QED
      BY <1>1, <3>1 DEF Flushed, Pending
  <2>3. QED
    BY <2>1, <2>2
<1>7. QueueEndsNow'
  BY <1>2 DEF IInv, QueueEndsNow
<1>8. AgreesWhenCalm'
  BY <1>2, <1>6 DEF IInv, AgreesWhenCalm
<1>9. QED
  BY <1>3, <1>5, <1>7, <1>8 DEF IInv

LEMMA TickPreserves ==
  ASSUME IInv, Tick PROVE IInv'
<1>1. UNCHANGED <<bridge, queue, rows, asked, calm, overtaken, strays, moves, faults, stops>>
  BY DEF Tick, bridgeVars, lineVars, budgetVars
<1>2. second' \in Seconds /\ sinceTold' \in 0..Grace
  <2>1. /\ second \in Seconds /\ second' = IF second < MaxSeconds THEN second + 1 ELSE second
        /\ sinceTold \in 0..Grace /\ sinceTold' = IF sinceTold < Grace THEN sinceTold + 1 ELSE sinceTold
    BY DEF Tick, IInv, TypeOK
  <2> QED BY <2>1, LimitsAssumption, GraceAssumption DEF Seconds
<1>3. /\ held = None => held' = None
      /\ held # None => held' # None /\ held' \in Held /\ held'.from = held.from /\ held'.to = held.to
  <2>1. CASE held = None
    BY <2>1 DEF Tick
  <2>2. CASE held # None
    <3>1. held \in Held
      BY <2>2 DEF IInv, TypeOK
    <3>2. held' \in Held /\ held'.from = held.from /\ held'.to = held.to
      BY <2>2, <3>1, GraceAssumption DEF Tick, Held
    <3>3. held' # None
      BY <3>2 DEF Held, States, None
    <3>4. QED
      BY <2>2, <3>2, <3>3
  <2>3. QED
    BY <2>1, <2>2
<1>4. TypeOK'
  BY <1>1, <1>2, <1>3 DEF IInv, TypeOK
<1>5. HeldFits' /\ OvertakenDue' /\ ChangesChain' /\ Pending' = Pending
  <2>1. overtaken' = overtaken /\ strays' = strays
    BY DEF Tick, lineVars
  <2>2. overtaken => held' = held
    <3>1. overtaken => ~(held.left > 0)
      BY DEF IInv, OvertakenDue
    <3>2. QED
      BY <3>1 DEF Tick
  <2>3. QED
    BY <1>1, <1>3, <2>1, <2>2 DEF IInv, HeldFits, OvertakenDue, Fits, ChangesChain, Pending
<1>6. QED
  BY <1>1, <1>4, <1>5 DEF IInv, QueueEndsNow, AgreesWhenCalm

LEMMA RestartPreserves ==
  ASSUME IInv, Restart PROVE IInv'
<1>1. /\ UNCHANGED <<bridge, queue, rows, second, strays, sinceTold, moves, faults>>
      /\ held' = None /\ asked' = Asking /\ calm' = (calm /\ held = None) /\ overtaken' = FALSE
  BY DEF Restart, bridgeVars
<1>2. TypeOK'
  <2>1. stops' \in 0..MaxStops
    BY LimitsAssumption DEF Restart, IInv, TypeOK
  <2>2. QED
    BY <1>1, <2>1 DEF IInv, TypeOK
<1>3. HeldFits' /\ OvertakenDue' /\ ChangesChain'
  BY <1>1 DEF IInv, HeldFits, Fits, OvertakenDue, ChangesChain
<1>4. QueueEndsNow' /\ AgreesWhenCalm'
  BY <1>1 DEF IInv, QueueEndsNow, AgreesWhenCalm, Pending
<1>5. QED
  BY <1>2, <1>3, <1>4 DEF IInv

LEMMA NextPreserves == IInv /\ [Next]_vars => IInv'
<1>1. SUFFICES ASSUME IInv, [Next]_vars PROVE IInv'
  OBVIOUS
<1>2. CASE \E state \in Reported : Move(state)
  BY <1>1, <1>2, MovePreserves
<1>3. CASE Push
  BY <1>1, <1>3, PushPreserves
<1>4. CASE Whoami \/ Unreachable
  <2>1. UNCHANGED <<bridge, queue, rows, held, second, calm, overtaken, strays, sinceTold, moves, faults, stops>>
    BY <1>4 DEF Whoami, Unreachable, bridgeVars, lineVars, budgetVars
  <2>2. asked' \in {Asking, Done} \cup [stage : {"answered"}, state : States, at : Seconds]
    BY <1>1, <1>4 DEF Whoami, Unreachable, IInv, TypeOK, Observed
  <2>3. TypeOK'
    BY <1>1, <2>1, <2>2 DEF IInv, TypeOK
  <2>4. HeldFits' /\ OvertakenDue' /\ ChangesChain' /\ Pending' = Pending
    BY <1>1, <2>1, UntouchedFits DEF lineVars
  <2>5. QED
    BY <1>1, <2>1, <2>3, <2>4 DEF IInv, QueueEndsNow, AgreesWhenCalm
<1>5. CASE Reconcile
  BY <1>1, <1>5, ReconcilePreserves
<1>6. CASE Sweep
  BY <1>1, <1>6, SweepPreserves
<1>7. CASE Tick
  BY <1>1, <1>7, TickPreserves
<1>8. CASE Restart
  BY <1>1, <1>8, RestartPreserves
<1>9. CASE UNCHANGED vars
  <2>1. HeldFits' /\ OvertakenDue' /\ ChangesChain' /\ Pending' = Pending
    BY <1>1, <1>9, UntouchedFits DEF vars
  <2>2. QED
    BY <1>1, <1>9, <2>1
    DEF vars, bridgeVars, lineVars, budgetVars, IInv, TypeOK, QueueEndsNow, AgreesWhenCalm
<1>10. QED
  BY <1>1, <1>2, <1>3, <1>4, <1>5, <1>6, <1>7, <1>8, <1>9 DEF Next

-----------------------------------------------------------------------------
(* The theorems.                                                             *)

LEMMA Inductive == Spec => []IInv
<1>1. QED
  BY InitEstablishes, NextPreserves, PTL DEF Spec

\* Every reachable state of a bridge's status is well typed: no hold outlasts
\* the grace it was given, however often the bridge changes its mind (hold).
THEOREM TypeCorrect == Spec => []TypeOK
<1>1. IInv => TypeOK
  BY DEF IInv
<1>2. QED
  BY <1>1, Inductive, PTL

\* The activity feed is one story: every change recorded starts where the one
\* before it ended, and none leads from a state to itself (Statuses::observed,
\* flush_due, Store::record_bridge_status).
THEOREM FeedIsOneStory == Spec => []ChangesChain
<1>1. IInv => ChangesChain
  BY DEF IInv
<1>2. QED
  BY <1>1, Inductive, PTL

\* When a bridge has nothing left to push and what was last heard of it was
\* heard whole, the owner has been told the state it is in or will be when the
\* grace runs out (Statuses::observed, hold, settled).
THEOREM StoreAgrees == Spec => []AgreesWhenCalm
<1>1. IInv => AgreesWhenCalm
  BY DEF IInv
<1>2. QED
  BY <1>1, Inductive, PTL

-----------------------------------------------------------------------------
(* An outage that is told has lasted.                                        *)

\* What waits and the silence about the state told add up to the grace; and a
\* hold that is due while all was heard whole has waited the whole of it.
HoldAges ==
  held # None => /\ held.left > 0 => sinceTold + held.left >= Grace
                 /\ calm /\ held.left = 0 => sinceTold >= Grace

AgedInv == IInv /\ HoldAges

\* A hold's seconds are numbers.
LEMMA HeldLeft ==
  ASSUME TypeOK
  PROVE  /\ Grace \in Nat /\ sinceTold \in Nat /\ sinceTold <= Grace
         /\ held # None => held.left \in Nat /\ held.left <= Grace
BY GraceAssumption DEF TypeOK, Held

\* A decision cancels what waits, leaves it as old as it was, or starts a new
\* wait with all of the grace before it.
LEMMA ObserveAges ==
  ASSUME AgedInv, NEW o \in Observed, NEW fails \in SUBSET StoreCalls, Observe(o, fails),
         calm' => HeardWhole(o, fails)
  PROVE  HoldAges'
<1> DEFINE after == Flushed(fails)
<1> DEFINE told == Told(after.rows)
<1>1. /\ (Due => "flush" \notin fails) /\ after.held # None => after.held.left > 0
      /\ Due /\ "flush" \notin fails => after.held = None
      /\ ~(Due /\ "flush" \notin fails) => after.rows = rows /\ after.held = held
  BY FlushedFits DEF AgedInv, IInv
<1>2. /\ Grace \in Nat /\ sinceTold \in Nat /\ sinceTold <= Grace
      /\ held # None => held.left \in Nat /\ held.left <= Grace
  BY HeldLeft DEF AgedInv, IInv
<1>3. calm' => (Due => "flush" \notin fails)
  BY DEF HeardWhole
<1>4. /\ after.held = None \/ (after.held = held /\ after.rows = rows)
      /\ after.held # None => held # None /\ ~(Due /\ "flush" \notin fails)
  BY <1>1
<1>5. Settled(after.held) # None => after.held = held /\ held # None /\ held.left = 0 /\ "flush" \in fails
                                    /\ Settled(after.held) = held
  BY <1>1, <1>2, <1>4 DEF Settled, Due
<1> HIDE DEF after
<1>6a. CASE held' = after.held /\ sinceTold' = IF after.rows = rows THEN sinceTold ELSE 0
  <2>1. held' # None => held' = held /\ sinceTold' = sinceTold
    BY <1>4, <1>6a
  <2>2. held' # None /\ calm' => held'.left > 0
    BY <1>1, <1>3, <1>6a
  <2>3. held' # None => held'.left \in Nat
    BY <1>2, <2>1
  <2> QED BY <2>1, <2>2, <2>3 DEF AgedInv, HoldAges
<1>6. CASE held' = Settled(after.held)
  <2>1. held' # None => held'.left = 0 /\ Due /\ "flush" \in fails
    BY <1>5, <1>6 DEF Due
  <2>2. held' # None => ~calm'
    BY <1>3, <2>1
  <2> QED BY <2>1, <2>2 DEF HoldAges
<1>7. CASE /\ held' = HeldBack(after.held, o, told)
           /\ sinceTold' = IF after.rows = rows THEN sinceTold ELSE 0
  <2>1. CASE after.held = None
    <3>1. held'.left = Grace
      BY <1>7, <2>1 DEF HeldBack
    <3>2. sinceTold' \in Nat
      BY <1>2, <1>7
    <3>3. held'.left > 0 => sinceTold' + held'.left >= Grace
      <4>1. Grace \in Nat
        BY <1>2
      <4>2. \A x, g \in Nat : x + g >= g
        OBVIOUS
      <4>3. sinceTold' + Grace >= Grace
        BY <3>2, <4>1, <4>2
      <4> QED BY <3>1, <4>3
    <3>4. held'.left = 0 => sinceTold' >= Grace
      BY <1>2, <3>1, <3>2
    <3> QED BY <3>3, <3>4 DEF HoldAges
  <2>2. CASE after.held # None
    <3>1. after.held = held /\ held # None /\ sinceTold' = sinceTold
      BY <1>4, <1>7, <2>2
    <3>2. held \in Held
      BY <3>1 DEF AgedInv, IInv, TypeOK
    <3>3. held'.left = held.left
      BY <1>7, <3>1, <3>2 DEF HeldBack, Held
    <3>4. calm' => held.left > 0
      BY <1>1, <1>3, <2>2, <3>1
    <3>5. held.left > 0 => sinceTold + held.left >= Grace
      BY <3>1 DEF AgedInv, HoldAges
    <3>6. held'.left > 0 => sinceTold' + held'.left >= Grace
      <4>1. sinceTold' = sinceTold /\ held'.left = held.left
        BY <3>1, <3>3
      <4>2. held.left \in Nat /\ sinceTold \in Nat /\ Grace \in Nat
        BY <1>2, <3>1
      <4> QED BY <3>5, <4>1, <4>2
    <3>7. calm' => held'.left # 0
      BY <1>2, <3>1, <3>3, <3>4
    <3> QED BY <3>6, <3>7 DEF HoldAges
  <2> QED BY <2>1, <2>2
<1> QED BY <1>6a, <1>6, <1>7 DEF Observe, after

\* A second passes for what waits and for the silence alike.
LEMMA TickAges ==
  ASSUME AgedInv, Tick
  PROVE  HoldAges'
<1>1. /\ Grace \in Nat /\ sinceTold \in Nat /\ sinceTold <= Grace
      /\ held # None => held.left \in Nat /\ held.left <= Grace
  BY HeldLeft DEF AgedInv, IInv
<1>2. /\ sinceTold' = IF sinceTold < Grace THEN sinceTold + 1 ELSE sinceTold
      /\ held' = IF held # None /\ held.left > 0 THEN [held EXCEPT !.left = @ - 1] ELSE held
      /\ calm' = calm
  BY DEF Tick
<1>3. CASE held = None
  BY <1>2, <1>3 DEF HoldAges
<1>4. CASE held # None
  <2>1. held \in Held
    BY <1>4 DEF AgedInv, IInv, TypeOK
  <2>2. held'.left = IF held.left > 0 THEN held.left - 1 ELSE held.left
    BY <1>2, <1>4, <2>1 DEF Held
  <2>3. /\ held.left > 0 => sinceTold + held.left >= Grace
        /\ calm /\ held.left = 0 => sinceTold >= Grace
    BY <1>4 DEF AgedInv, HoldAges
  <2>4. held'.left > 0 => sinceTold' + held'.left >= Grace
    BY <1>1, <1>2, <1>4, <2>2, <2>3
  <2>5. calm' /\ held'.left = 0 => sinceTold' >= Grace
    BY <1>1, <1>2, <1>4, <2>2, <2>3
  <2> QED BY <2>4, <2>5 DEF HoldAges
<1> QED BY <1>3, <1>4

LEMMA StepAges == AgedInv /\ [Next]_vars => AgedInv'
<1> SUFFICES ASSUME AgedInv, [Next]_vars PROVE HoldAges'
  BY NextPreserves DEF AgedInv
<1>1. CASE \E state \in Reported : Move(state)
  BY <1>1 DEF Move, AgedInv, HoldAges
<1>2. CASE Push
  <2>1. PICK fails \in SUBSET StoreCalls :
          Observe(Head(queue), fails) /\ calm' = HeardWhole(Head(queue), fails)
    BY <1>2 DEF Push
  <2>2. queue # <<>> /\ queue \in Seq(Observed)
    BY <1>2 DEF Push, AgedInv, IInv, TypeOK
  <2>3. Head(queue) \in Observed
    BY <2>2
  <2> QED BY <2>1, <2>3, ObserveAges
<1>3. CASE Whoami \/ Unreachable
  BY <1>3 DEF Whoami, Unreachable, AgedInv, HoldAges
<1>4. CASE Reconcile
  <2> DEFINE o == [state |-> asked.state, at |-> asked.at]
  <2>1. PICK fails \in SUBSET StoreCalls :
          Observe(o, fails) /\ calm' = (HeardWhole(o, fails) /\ o.state = bridge.state)
    BY <1>4 DEF Reconcile
  <2>2. o \in Observed
    BY <1>4 DEF Reconcile, AgedInv, IInv, TypeOK, Observed
  <2> QED BY <2>1, <2>2, ObserveAges
<1>5. CASE Sweep
  <2>1. PICK fails \in SUBSET {"flush"} :
          /\ held' = Flushed(fails).held
          /\ calm' = (calm /\ (fails = {} => ~Replayed(rows, held)))
          /\ sinceTold' = IF fails = {} THEN 0 ELSE sinceTold
    BY <1>5 DEF Sweep
  <2>2. held' = IF fails = {} THEN None ELSE held
    BY <1>5, <2>1 DEF Sweep, Flushed
  <2> QED BY <2>1, <2>2 DEF AgedInv, HoldAges
<1>6. CASE Tick
  BY <1>6, TickAges
<1>7. CASE Restart
  BY <1>7 DEF Restart, HoldAges
<1>8. CASE UNCHANGED vars
  BY <1>8 DEF vars, AgedInv, HoldAges
<1> QED BY <1>1, <1>2, <1>3, <1>4, <1>5, <1>6, <1>7, <1>8 DEF Next

\* Whatever the flush or the decision records first: what was due, or else a
\* bridge that is connected.
LEMMA ToldLasted ==
  ASSUME AgedInv, [Next]_vars, rows' # rows, calm, Grace > 0
  PROVE  rows'[Len(rows) + 1].to = "connected" \/ sinceTold >= Grace
<1>0. rows \in Seq(Transition)
  BY DEF AgedInv, IInv, TypeOK
<1>1. Due => sinceTold >= Grace
  BY DEF AgedInv, HoldAges, Due
<1>2. ASSUME NEW o, NEW fails, Observe(o, fails), ~Due
      PROVE  rows'[Len(rows) + 1].to = "connected"
  <2>1. Flushed(fails) = [rows |-> rows, held |-> held]
    BY <1>2 DEF Flushed
  <2>2. Flushed(fails).rows = rows
    BY <2>1
  <2> DEFINE t == [from |-> Told(rows), to |-> o.state, at |-> o.at]
  <2>3. ~Waits(o.state) /\ rows' = Recorded(rows, t)
    BY <1>2, <2>2 DEF Observe
  <2>4. o.state = "connected"
    BY <2>3 DEF Waits
  <2>5. rows' = Append(rows, [from |-> t.from, to |-> t.to, at |-> t.at])
    BY <2>3 DEF Recorded
  <2>6. rows'[Len(rows) + 1] = [from |-> t.from, to |-> t.to, at |-> t.at]
    BY <1>0, <2>5
  <2> QED BY <2>4, <2>6
<1>3. CASE Push \/ Reconcile
  BY <1>1, <1>2, <1>3 DEF Push, Reconcile
<1>4. CASE Sweep
  BY <1>1, <1>4 DEF Sweep
<1>5. CASE ~(Push \/ Reconcile \/ Sweep)
  BY <1>5 DEF Next, Move, Whoami, Unreachable, Tick, Restart, vars, bridgeVars, lineVars
<1> QED BY <1>3, <1>4, <1>5

\* "A bridge that is back inside the grace produces no row" (#324): what is told
\* of a bridge that is not connected has lasted the whole grace since the bridge
\* was last heard in the state told before it, however often it changed its
\* mind, was pushed again or asked (hold, settled, flush_due).
THEOREM FlapsAreNotTold == Spec => OutagesLasted
<1>1. Init => AgedInv
  <2>1. Init => HoldAges
    BY DEF Init, HoldAges
  <2> QED BY <2>1, InitEstablishes DEF AgedInv
<1>2. AgedInv /\ [Next]_vars =>
        [rows' # rows /\ calm /\ Grace > 0 =>
           \/ rows'[Len(rows) + 1].to = "connected"
           \/ sinceTold >= Grace]_vars
  BY ToldLasted
<1> QED BY <1>1, <1>2, StepAges, PTL DEF Spec, OutagesLasted
=============================================================================
