---------------------------- MODULE DecisionFeed ----------------------------
(* What the Companion Gateway promises of the consent decisions it takes:   *)
(* they form one journal, the bus is told them one at a time in the         *)
(* journal's order, and the snapshot never runs ahead of the bus.           *)
(* ConsentPipeline implements this with an outbox table, a drain loop and a *)
(* de-duplicating bus (companion-gateway/src/outbox.rs, store.rs).          *)
EXTENDS Naturals, Sequences

CONSTANTS
  Decision,       \* the decisions an owner may take
  MaxDecisions    \* bound on the journal

VARIABLES
  decided,    \* the journal
  announced,  \* how many of its decisions the bus holds
  served      \* how many of its decisions the snapshot summarises

vars == <<decided, announced, served>>

TypeOK ==
  /\ decided \in Seq(Decision)
  /\ announced \in Nat
  /\ served \in Nat

Init ==
  /\ decided = <<>>
  /\ announced = 0
  /\ served = 0

Decide(d) ==
  /\ Len(decided) < MaxDecisions
  /\ decided' = Append(decided, d)
  /\ UNCHANGED <<announced, served>>

Announce ==
  /\ announced < Len(decided)
  /\ announced' = announced + 1
  /\ UNCHANGED <<decided, served>>

Serve ==
  /\ served < announced
  /\ served' = served + 1
  /\ UNCHANGED <<decided, announced>>

Next == (\E d \in Decision : Decide(d)) \/ Announce \/ Serve

Spec == Init /\ [][Next]_vars

\* A taken decision is neither kept from the bus nor from the snapshot for ever.
FairSpec == Spec /\ WF_vars(Announce) /\ WF_vars(Serve)
=============================================================================
