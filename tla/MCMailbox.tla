----------------------------- MODULE MCMailbox -----------------------------
(* Instances of Mailbox for TLC: a letter no rule is about, and a bill that *)
(* a rule files on arrival and a rule about age would file later.           *)
EXTENDS Mailbox
CONSTANTS letter, bill
Both == {letter, bill}
Bills == {bill}
=============================================================================
