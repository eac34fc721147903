------------------------------ MODULE Disposal ------------------------------
(* What becomes of the replies an owner approved, as every component that     *)
(* sends some of them promises it of its own: a reply leaves, or a copy of it *)
(* is kept, before the bus is told to forget it; the record of where it went  *)
(* is written once, and only of a reply that left; nothing of this is undone; *)
(* and a reply that another component sends is only let pass.  ReplyDelivery  *)
(* implements this through a homeserver that de-duplicates per device         *)
(* (sensor/src/main.rs), MailReplies through a mailbox that does not           *)
(* (collector/src/replies.rs).                                               *)

CONSTANTS
  Reply,     \* the approved replies
  Sendable,  \* those this component may send
  Foreign,   \* those another component sends
  Reaches    \* whom a record may say that a reply reached

VARIABLES
  left,      \* the replies a server took
  told,      \* whom the record of each says it reached, or "none"
  kept,      \* the replies a copy of which is among the dead letters
  settled    \* the replies the bus delivers no more

vars == <<left, told, kept, settled>>

Init ==
  /\ left = {} /\ kept = {} /\ settled = {}
  /\ told = [r \in Reply |-> "none"]

\* The bus is told to forget a reply, and hears it or does not.
Settle(r) == settled' \in {settled, settled \cup {r}}

\* It leaves: before it is settled or, as a second copy in hand, after.
Leave(r) ==
  /\ r \in Sendable
  /\ left' = left \cup {r}
  /\ UNCHANGED <<told, kept, settled>>

\* A reply that left is settled, whether or not the record of it could be written.
Tell(r) ==
  /\ r \in left
  /\ \/ /\ told[r] = "none"
        /\ \E whom \in Reaches : told' = [told EXCEPT ![r] = whom]
     \/ UNCHANGED told
  /\ Settle(r)
  /\ UNCHANGED <<left, kept>>

\* One that is given up is settled with its copy stored.
Keep(r) ==
  /\ r \in Reply \ Foreign
  /\ kept' = kept \cup {r}
  /\ Settle(r)
  /\ UNCHANGED <<left, told>>

Pass(r) ==
  /\ r \in Foreign
  /\ Settle(r)
  /\ UNCHANGED <<left, told, kept>>

Next == \E r \in Reply : Leave(r) \/ Tell(r) \/ Keep(r) \/ Pass(r)

Spec == Init /\ [][Next]_vars
=============================================================================
