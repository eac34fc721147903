------------------------------ MODULE SendOnce ------------------------------
(* What an approval promises of one suggestion: its reply is sent at most    *)
(* once, what was sent never changes, and the record of it is written once,  *)
(* after the sending.  Approval implements this with several requests, a row *)
(* and a de-duplicating bus (companion-gateway/src/approval.rs).             *)
EXTENDS Sequences

CONSTANT Reply   \* the replies that may be sent

VARIABLES
  sent,      \* the replies sent, in order
  recorded   \* the record says where the reply landed

vars == <<sent, recorded>>

Init == sent = <<>> /\ recorded = FALSE

Send(reply) ==
  /\ sent = <<>>
  /\ sent' = <<reply>>
  /\ UNCHANGED recorded

Note ==
  /\ sent # <<>> /\ ~recorded
  /\ recorded' = TRUE
  /\ UNCHANGED sent

Next == (\E reply \in Reply : Send(reply)) \/ Note

Spec == Init /\ [][Next]_vars
=============================================================================
