------------------------------ MODULE Rotation ------------------------------
(* A credential that is replaced each time it is used: whoever issues it      *)
(* honours the newest one of a family only, and the holder has one.  What     *)
(* every such pair promises: the newest credential of what is held is the one *)
(* that is held, or is on its way to be, or a loss of one is on record.       *)
(* Session implements this between a browser's pages and the Gateway, where   *)
(* a family is a device (companion-gateway/src/session.rs); Collector between *)
(* the grant file and the SSO, where it is a sign-in (collector/src/oidc.rs). *)
EXTENDS Naturals

CONSTANT Family

VARIABLES
  newest,  \* of each family, the number of its newest credential; 0 before the first
  held,    \* the credential the holder would use
  coming,  \* the credentials on their way to the holder
  lost     \* history: the families a credential of which was lost on its way

vars == <<newest, held, coming, lost>>

None == <<0, 0>>
Newest(f) == <<f, newest[f]>>
Following(f) == <<f, newest[f] + 1>>

Init ==
  /\ newest = [f \in Family |-> 0]
  /\ held = None /\ coming = {} /\ lost = {}

\* The next credential of f makes the ones before it worthless.  None is issued
\* while the one before it is on its way, for nobody has that one to show.
Issue(f) ==
  /\ Newest(f) \notin coming
  /\ newest' = [newest EXCEPT ![f] = @ + 1]

\* It is sent to the holder.
Send(f) ==
  /\ Issue(f)
  /\ coming' = coming \cup {Following(f)}
  /\ UNCHANGED <<held, lost>>

\* It is the holder's at once, or the holder wants none of the family.
Hand(f) ==
  /\ Issue(f)
  /\ held' \in {Following(f), None}
  /\ UNCHANGED <<coming, lost>>

\* It is issued and nobody takes it.
Waste(f) ==
  /\ Issue(f)
  /\ lost' = lost \cup {f}
  /\ UNCHANGED <<held, coming>>

Arrive(c) ==
  /\ c \in coming
  /\ held' = c
  /\ coming' = coming \ {c}
  /\ UNCHANGED <<newest, lost>>

Lose(some) ==
  /\ some \subseteq coming
  /\ coming' = coming \ some
  /\ lost' = lost \cup {c[1] : c \in some}
  /\ UNCHANGED <<newest, held>>

Next ==
  \/ \E f \in Family : Send(f) \/ Hand(f) \/ Waste(f)
  \/ \E c \in coming : Arrive(c)
  \/ \E some \in SUBSET coming : Lose(some)

Spec == Init /\ [][Next]_vars
=============================================================================
