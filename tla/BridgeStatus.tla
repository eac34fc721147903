---------------------------- MODULE BridgeStatus ----------------------------
(* How one bridge's connection state reaches the owner                       *)
(* (companion-gateway/src/bridge_status.rs): the bridge pushes its state on  *)
(* change, the Gateway asks for it once at startup, and a state worse than   *)
(* `connected` is held for a grace before it is recorded and published.      *)
(*                                                                           *)
(* Bridges share nothing but the lock under which each state is decided, so  *)
(* one bridge is modelled, and a decision is one step.  A state is one of    *)
(* the contract's five, the translation of mautrix's own.                    *)
EXTENDS Naturals, Sequences

CONSTANTS
  Reported,    \* the states the bridge may be in
  Grace,       \* GATEWAY_BRIDGE_STATUS_GRACE_SECONDS
  MaxSeconds,  \* bound on the clock the bridge stamps its changes with
  MaxMoves,    \* bound on the bridge's changes of state
  MaxFaults,   \* bound on lost answers and failing writes
  MaxStops     \* bound on the Gateway's restarts

States == {"starting", "connected", "degraded", "disconnected", "session_expired"}

ASSUME ReportedAssumption == Reported \subseteq States
ASSUME GraceAssumption == Grace \in Nat
ASSUME LimitsAssumption ==
  MaxSeconds \in Nat \ {0} /\ MaxMoves \in Nat /\ MaxFaults \in Nat /\ MaxStops \in Nat

Seconds == 1..MaxSeconds

VARIABLES
  \* The bridge.
  bridge,     \* its state, and the second of its last change
  queue,      \* the states it has yet to push, oldest first
  \* The Gateway's store.
  rows,       \* table bridge_status_change
  \* The Gateway's process.
  held,       \* the transition that waits for its grace, or None
  asked,      \* the startup reconciliation: not asked, answered, done
  second,     \* the clock
  \* Histories, for the properties.
  calm,       \* what the Gateway last heard, it heard whole and in time
  overtaken,  \* a change was recorded past the hold, whose own write had failed
  strays,     \* the rows recorded from such a hold
  sinceTold,  \* seconds since the bridge was last heard in the state told
  moves, faults, stops

bridgeVars == <<bridge, queue>>
budgetVars == <<moves, faults, stops>>
lineVars == <<overtaken, strays>>
vars == <<bridgeVars, rows, held, asked, second, calm, lineVars, sinceTold, budgetVars>>

None    == [to |-> "none"]
Asking  == [stage |-> "asking"]
Done    == [stage |-> "done"]

Observed == [state : States, at : Seconds]

\* A row, and what is held of it before it is one: `left` of its grace.
Transition == [from : States, to : States, at : Seconds]
Held       == [from : States, to : States, at : Seconds, left : 0..Grace]

-----------------------------------------------------------------------------
(* The store.                                                                *)

\* What a bridge nobody has heard from is assumed to be in.
Unheard == "disconnected"

\* The view bridge_status_current: the state the owner was last told.
Told(rs) == IF rs = <<>> THEN Unheard ELSE rs[Len(rs)].to

\* The event id is a hash of the state and the instant.
SameEvent(t, u) == t.to = u.to /\ t.at = u.at

Replayed(rs, t) == \E i \in DOMAIN rs : SameEvent(rs[i], t)

\* Variant: INSERT OR REPLACE, which numbers the row anew.
RecordedAnew(rs, t) ==
  Append(SelectSeq(rs, LAMBDA u : ~SameEvent(u, t)), [from |-> t.from, to |-> t.to, at |-> t.at])

\* Store::record_bridge_status: an identical transition keeps the first.
Recorded(rs, t) ==
  IF Replayed(rs, t) THEN rs ELSE Append(rs, [from |-> t.from, to |-> t.to, at |-> t.at])

-----------------------------------------------------------------------------
(* One decision, under the lock.                                             *)

\* What a decision asks of the store: to take what is due, to say what was last
\* told, and to take the change.  Each may fail by itself.
StoreCalls == {"flush", "read", "record"}

Due == held # None /\ held.left = 0

\* Variant: what the store does not take is dropped.
FlushedOrDropped(fails) ==
  [rows |-> IF Due /\ "flush" \notin fails THEN Recorded(rows, held) ELSE rows,
   held |-> IF Due THEN None ELSE held]

\* flush_due: what outlived its grace is recorded; when the store does not
\* take it, it stays held, and due.
Flushed(fails) ==
  IF Due /\ "flush" \notin fails THEN [rows |-> Recorded(rows, held), held |-> None]
  ELSE [rows |-> rows, held |-> held]

\* Variant: a report that cancels nothing.
SettledNever(waiting) == waiting

\* settled: a hold inside its window is cancelled, one past it is not.
Settled(waiting) ==
  IF waiting # None /\ waiting.left > 0 THEN None ELSE waiting

\* Variant: the last instant wins and the first state.
HeldBackOnce(waiting, o, told) ==
  IF waiting = None
  THEN [from |-> told, to |-> o.state, at |-> o.at, left |-> Grace]
  ELSE waiting

\* hold: the first instant and the first deadline win, the last state does.
HeldBack(waiting, o, told) ==
  IF waiting = None
  THEN [from |-> told, to |-> o.state, at |-> o.at, left |-> Grace]
  ELSE [waiting EXCEPT !.to = o.state]

Waits(state) == state # "connected" /\ Grace > 0

\* observed: what is due is flushed first; then the state is the one already
\* told, or waits, or is told. `fails` is what the store fails to do.
Observe(o, fails) ==
  LET after == Flushed(fails)
      told  == Told(after.rows) IN
  \/ /\ "read" \in fails
     /\ rows' = after.rows /\ held' = after.held
     /\ sinceTold' = IF after.rows = rows THEN sinceTold ELSE 0
  \/ /\ "read" \notin fails /\ o.state = told
     /\ rows' = after.rows /\ held' = Settled(after.held)
     /\ sinceTold' = 0
  \/ /\ "read" \notin fails /\ o.state # told /\ Waits(o.state)
     /\ rows' = after.rows /\ held' = HeldBack(after.held, o, told)
     /\ sinceTold' = IF after.rows = rows THEN sinceTold ELSE 0
  \/ /\ "read" \notin fails /\ o.state # told /\ ~Waits(o.state)
     /\ rows' = IF "record" \notin fails
                THEN Recorded(after.rows, [from |-> told, to |-> o.state, at |-> o.at])
                ELSE after.rows
     /\ held' = Settled(after.held)
     /\ sinceTold' = 0

\* The decision could not be made or not be recorded, and the push is refused.
Refused(o, fails) ==
  \/ "read" \in fails
  \/ "record" \in fails /\ o.state # Told(Flushed(fails).rows) /\ ~Waits(o.state)

\* The observation was heard whole: it was not answered by an older row of the
\* same id, and nothing due stayed held behind it.
HeardWhole(o, fails) ==
  /\ ~Refused(o, fails)
  /\ Due => "flush" \notin fails /\ ~Replayed(rows, held)
  /\ LET after == Flushed(fails) IN
       o.state # Told(after.rows) /\ ~Waits(o.state) => ~Replayed(after.rows, [to |-> o.state, at |-> o.at])

\* The histories of the feed's line. What is held now goes on being held past a
\* change when the flush failed and the record did not; and the row it becomes in
\* the end is one from a state that is no longer the one told.
Lined(fails) ==
  /\ strays' = IF overtaken /\ Flushed(fails).rows # rows
               THEN strays \cup {Len(rows) + 1} ELSE strays
  /\ overtaken' = (Due /\ "flush" \in fails /\ (overtaken \/ rows' # rows))

Spend(n) == faults + n <= MaxFaults /\ faults' = faults + n

-----------------------------------------------------------------------------
Init ==
  /\ bridge \in [state : Reported, at : {1}] /\ queue = <<>>
  /\ rows = <<>> /\ held = None /\ asked = Asking /\ second = 1
  /\ calm = FALSE /\ overtaken = FALSE /\ strays = {} /\ sinceTold = 0
  /\ moves = 0 /\ faults = 0 /\ stops = 0

\* The bridge changes state, and will push it until the push is answered.
Move(state) ==
  /\ moves < MaxMoves /\ second < MaxSeconds /\ state # bridge.state
  /\ bridge' = [state |-> state, at |-> second]
  /\ queue' = Append(queue, bridge')
  /\ moves' = moves + 1
  /\ UNCHANGED <<rows, held, asked, second, calm, lineVars, sinceTold, faults, stops>>

\* Statuses::push: a refused push is retried, and so is one whose answer is lost.
Push ==
  /\ queue # <<>>
  /\ \E fails \in SUBSET StoreCalls, answered \in BOOLEAN :
       /\ Observe(Head(queue), fails) /\ Lined(fails)
       /\ Spend((IF fails = {} THEN 0 ELSE 1) + (IF answered THEN 0 ELSE 1))
       /\ queue' = IF answered /\ ~Refused(Head(queue), fails) THEN Tail(queue) ELSE queue
       /\ calm' = HeardWhole(Head(queue), fails)
  /\ UNCHANGED <<bridge, asked, second, moves, stops>>

\* reconcile asks the bridge once; the answer is stamped by the bridge, or by
\* the Gateway where the bridge has no state to stamp.
Whoami ==
  /\ asked = Asking
  /\ \E at \in {bridge.at, second} :
       asked' = [stage |-> "answered", state |-> bridge.state, at |-> at]
  /\ UNCHANGED <<bridgeVars, rows, held, second, calm, lineVars, sinceTold, budgetVars>>

\* The bridge cannot be reached: the last known state is kept.
Unreachable ==
  /\ asked = Asking
  /\ asked' = Done
  /\ UNCHANGED <<bridgeVars, rows, held, second, calm, lineVars, sinceTold, budgetVars>>

\* ... and what it answered is decided about like a push, whatever has been
\* pushed since; a store that fails is only logged.
Reconcile ==
  /\ asked # Asking /\ asked # Done
  /\ LET o == [state |-> asked.state, at |-> asked.at] IN
       \E fails \in SUBSET StoreCalls :
         /\ Observe(o, fails) /\ Lined(fails)
         /\ Spend(IF fails = {} THEN 0 ELSE 1)
         /\ calm' = (HeardWhole(o, fails) /\ o.state = bridge.state)
  /\ asked' = Done
  /\ UNCHANGED <<bridgeVars, second, moves, stops>>

\* sweep: flush_held.
Sweep ==
  /\ Due
  /\ \E fails \in SUBSET {"flush"} :
       /\ rows' = Flushed(fails).rows /\ held' = Flushed(fails).held /\ Lined(fails)
       /\ Spend(IF fails = {} THEN 0 ELSE 1)
       /\ calm' = (calm /\ (fails = {} => ~Replayed(rows, held)))
       /\ sinceTold' = IF fails = {} THEN 0 ELSE sinceTold
  /\ UNCHANGED <<bridgeVars, asked, second, moves, stops>>

\* A second passes.
Tick ==
  /\ second' = IF second < MaxSeconds THEN second + 1 ELSE second
  /\ held' = IF held # None /\ held.left > 0 THEN [held EXCEPT !.left = @ - 1] ELSE held
  /\ sinceTold' = IF sinceTold < Grace THEN sinceTold + 1 ELSE sinceTold
  /\ UNCHANGED <<bridgeVars, rows, asked, calm, lineVars, budgetVars>>

\* The Gateway dies; what it held is forgotten, and it asks again.
Restart ==
  /\ stops < MaxStops
  /\ held' = None /\ asked' = Asking
  /\ calm' = (calm /\ held = None) /\ overtaken' = FALSE
  /\ stops' = stops + 1
  /\ UNCHANGED <<bridgeVars, rows, second, strays, sinceTold, moves, faults>>

-----------------------------------------------------------------------------
Next ==
  \/ \E state \in Reported : Move(state)
  \/ Push \/ Whoami \/ Unreachable \/ Reconcile \/ Sweep \/ Tick \/ Restart

Spec == Init /\ [][Next]_vars

\* The bridge retries its pushes, the sweep loops for ever, time passes, and a
\* call to the bridge ends.
FairSpec ==
  /\ Spec
  /\ WF_vars(Push) /\ WF_vars(Sweep) /\ WF_vars(Tick)
  /\ WF_vars(Whoami \/ Unreachable) /\ WF_vars(Reconcile)

-----------------------------------------------------------------------------
(* Properties.                                                               *)

TypeOK ==
  /\ bridge \in Observed /\ queue \in Seq(Observed)
  /\ rows \in Seq(Transition)
  /\ held = None \/ held \in Held
  /\ asked \in {Asking, Done} \cup [stage : {"answered"}, state : States, at : Seconds]
  /\ second \in Seconds /\ calm \in BOOLEAN /\ sinceTold \in 0..Grace
  /\ overtaken \in BOOLEAN /\ strays \subseteq DOMAIN rows
  /\ moves \in 0..MaxMoves /\ faults \in 0..MaxFaults /\ stops \in 0..MaxStops

\* The activity feed is one story: each change starts from the state the one
\* before it ended in, and none is from a state to itself -- through holds that
\* change their mind, cancellations, failing writes, restarts and re-pushes.
\* One thing breaks it: a hold that was due, whose write failed and past which a
\* change was then recorded, is recorded later from a state nobody is in.
Chained(rs, except) ==
  \A i \in DOMAIN rs \ except :
    /\ rs[i].from = IF i = 1 THEN Unheard ELSE rs[i - 1].to
    /\ rs[i].to # rs[i].from

ChangesChain == Chained(rows, strays)

\* "After a restart `from_state` is still true" (the module's doc), and after
\* everything else: the chain without its exception.
LineUnbroken == Chained(rows, {})

\* What the owner has been told, or will be when the grace runs out.
Pending == IF held = None THEN Told(rows) ELSE held.to

\* Once the bridge has nothing left to push, what is told or about to be told is
\* the state it is in, unless the last thing heard was not heard whole: it was
\* overtaken, forgotten by a restart, or met a store that was failing.
AgreesWhenCalm == calm /\ queue = <<>> => Pending = bridge.state

\* "A bridge that is back inside the grace produces no row" (#324): a state
\* worse than connected is told only when the bridge has not been heard in the
\* state told before it for the whole grace.
OutagesLasted ==
  [][rows' # rows /\ calm /\ Grace > 0 =>
       \/ rows'[Len(rows) + 1].to = "connected"
       \/ sinceTold >= Grace]_vars

\* What is held is told or cancelled in the end, and the store comes to agree
\* with a bridge that has settled down, when all was heard whole.
TellsInTheEnd == <>[](calm => Told(rows) = bridge.state)

\* "The bridge's own webhook will correct it" (reconcile): once the bridge has
\* had something to say, and nothing fails and nothing restarts, the store comes
\* to hold the state the bridge is in.
AgreesInTheEnd == <>[](moves > 0 => Told(rows) = bridge.state)
=============================================================================
