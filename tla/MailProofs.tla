---------------------------- MODULE MailProofs -----------------------------
(* Proofs about the Collector's mail: the approved replies it sends          *)
(* (MailReplies) for any approvals and any number of lost answers, crashes,  *)
(* redeliveries, late requests and replies that leave Sent's newest page;    *)
(* and the mailbox it polls (Mailbox) for any mails, rules, states           *)
(* forgotten, calls that fail and crashes.                                   *)
(*                                                                           *)
(* The poll's argument is what the round and the persisted state owe a mail: *)
(* it is past the state, or on the bus, or in what the round still holds.    *)
EXTENDS MailReplies, Mailbox, TLAPS, SequenceTheorems

-----------------------------------------------------------------------------
(* Types.                                                                    *)

\* What the bus may hold in flight.
Messages == [reply : Replies, delivered : 1..MaxAttempts]

\* A stage fits the kind of its approval: only a reply of this collector's is
\* looked up and sent, and another component's is never dead-lettered.
JobFits ==
  job # Idle =>
    /\ job.stage \in {"waiting", "looking", "sending", "sent"} => job.reply \in Mails
    /\ job.stage = "another's" => job.reply \in Others
    /\ job.stage = "undeliverable" => job.reply \notin Others /\ job.why \in Reasons

\* Types and the fit of the stage are inductive together.
IInv == TypeOK /\ JobFits

\* A message handed over carries a delivery count within its bounds.
LEMMA HandTyped ==
  ASSUME TypeOK, NEW r \in Replies, Hand(r)
  PROVE  delivered' \in [Replies -> 0..MaxAttempts] /\ inbox' \in Seq(Messages)
<1>1. delivered \in [Replies -> 0..MaxAttempts] /\ MaxAttempts \in Nat \ {0}
  BY AttemptsAssumption DEF TypeOK
<1>2. delivered' \in [Replies -> 0..MaxAttempts] /\ delivered'[r] \in 1..MaxAttempts
  BY <1>1 DEF Hand
<1>3. [reply |-> r, delivered |-> delivered'[r]] \in Messages
  BY <1>2 DEF Messages
<1>4. inbox \in Seq(Messages)
  BY DEF TypeOK, Messages
<1> QED BY <1>2, <1>3, <1>4 DEF Hand

\* The bus hands over; nothing else moves.
LEMMA BusKeeps ==
  ASSUME IInv, NEW r \in Replies, Deliver(r) \/ Redeliver(r)
  PROVE  IInv'
<1>1. delivered' \in [Replies -> 0..MaxAttempts] /\ inbox' \in Seq(Messages)
  BY HandTyped DEF Deliver, Redeliver, IInv
<1>2. early' \in 0..MaxEarly
  BY LimitsAssumption DEF Deliver, Redeliver, IInv, TypeOK, budgetVars
<1>3. UNCHANGED <<acked, reported, dead, serverVars, token, job, tried, faults, stops, lapses>>
  BY DEF Deliver, Redeliver, budgetVars
<1> QED BY <1>1, <1>2, <1>3 DEF IInv, TypeOK, JobFits, Messages, serverVars

\* The credential comes and goes, and the mailbox changes between requests.
LEMMA OutsideKeeps ==
  ASSUME IInv, TokenGoes \/ TokenComes \/ \E r \in Mails : LeaveThePage(r) \/ RunLate(r)
  PROVE  IInv'
<1>1. CASE TokenGoes
  <2>1. lapses' \in 0..MaxLapses /\ token' = FALSE
    BY <1>1, LimitsAssumption DEF TokenGoes, IInv, TypeOK
  <2> QED BY <1>1, <2>1 DEF TokenGoes, IInv, TypeOK, JobFits, busVars, serverVars
<1>2. CASE TokenComes
  BY <1>2 DEF TokenComes, IInv, TypeOK, JobFits, busVars, serverVars, budgetVars
<1>3. ASSUME NEW r \in Mails, LeaveThePage(r) PROVE IInv'
  <2>1. inSent' \subseteq Mails /\ moved' \in [Mails -> Nat]
    BY <1>3 DEF LeaveThePage, IInv, TypeOK
  <2>2. UNCHANGED <<busVars, thread, copies, drafts, flying, late, token, inbox, job, tried, budgetVars>>
    BY <1>3 DEF LeaveThePage
  <2> QED BY <2>1, <2>2 DEF IInv, TypeOK, JobFits, busVars, budgetVars
<1>4. ASSUME NEW r \in Mails, RunLate(r) PROVE IInv'
  <2>1. flying' \in [Mails -> Nat]
    BY <1>4 DEF RunLate, IInv, TypeOK
  <2>2. copies' \in [Mails -> Nat] /\ inSent' \subseteq Mails /\ drafts' \subseteq Mails
    <3>1. copies \in [Mails -> Nat] /\ inSent \subseteq Mails /\ drafts \subseteq Mails
      BY DEF IInv, TypeOK
    <3>2. CASE Leave(r) /\ UNCHANGED drafts
      BY <3>1, <3>2 DEF Leave
    <3>3. CASE StayBehind(r) /\ UNCHANGED copies
      BY <3>1, <3>3 DEF StayBehind
    <3> QED BY <1>4, <3>2, <3>3 DEF RunLate
  <2>3. UNCHANGED <<busVars, thread, late, moved, token, inbox, job, tried, budgetVars>>
    BY <1>4 DEF RunLate
  <2> QED BY <2>1, <2>2, <2>3 DEF IInv, TypeOK, JobFits, busVars, budgetVars
<1> QED BY <1>1, <1>2, <1>3, <1>4

\* The message taken from the inbox becomes the job.
LEMMA TakeKeeps == ASSUME IInv, Take PROVE IInv'
<1>1. Head(inbox) \in Messages /\ Tail(inbox) \in Seq(Messages)
  <2>1. inbox \in Seq(Messages) /\ inbox # <<>>
    BY DEF Take, IInv, TypeOK, Messages
  <2> HIDE DEF Messages
  <2> QED BY <2>1
<1> DEFINE r == Head(inbox).reply
           kind == IF r \in Unusable THEN "undeliverable"
                   ELSE IF r \in Others THEN "another's" ELSE "waiting"
           why  == IF r \in Unusable THEN "unusable" ELSE "none"
<1>2. /\ job' = [stage |-> kind, reply |-> r, delivered |-> Head(inbox).delivered, why |-> why]
      /\ r \in Replies /\ Head(inbox).delivered \in 1..MaxAttempts
  BY <1>1 DEF Take, Messages
<1>3. job' \in Job
  BY <1>2 DEF Job, Reasons
<1>4. JobFits'
  BY <1>2, KindsAssumption DEF JobFits, Replies, Reasons
<1> QED BY <1>1, <1>3, <1>4 DEF Take, IInv, TypeOK, Messages, busVars, serverVars, budgetVars

\* What a failure, passing or for good, makes of the job.
LEMMA FailureKeeps ==
  ASSUME IInv, At("looking") \/ At("sending"),
         TryLater \/ \E reason \in {"refused", "a stranger's"} : GiveUp(reason)
  PROVE  (job' = Idle \/ job' \in Job) /\ JobFits'
<1>1. job # Idle /\ job \in Job /\ job.reply \in Mails
  BY DEF At, IInv, TypeOK, JobFits
<1>2. job' = Idle \/ \E reason \in Reasons : GiveUp(reason)
  BY DEF TryLater, Reasons
<1>3. CASE job' = Idle
  BY <1>3 DEF JobFits
<1>4. ASSUME NEW reason \in Reasons, GiveUp(reason) PROVE job' \in Job /\ JobFits'
  BY <1>1, <1>4, KindsAssumption DEF GiveUp, Job, JobFits
<1> QED BY <1>2, <1>3, <1>4

\* A request given up in flight is counted as one.
LEMMA GivenUpTyped ==
  ASSUME IInv, NEW r \in Mails,
         flying' = [flying EXCEPT ![r] = @ + 1], late' = [late EXCEPT ![r] = @ + 1]
  PROVE  flying' \in [Mails -> Nat] /\ late' \in [Mails -> Nat]
<1>1. flying \in [Mails -> Nat] /\ late \in [Mails -> Nat]
  BY DEF IInv, TypeOK
<1> QED BY <1>1

\* The job moves on to another stage of the same reply.
LEMMA StageKeeps ==
  ASSUME IInv, job # Idle, job.reply \in Mails,
         NEW stage \in {"looking", "sending", "sent"}, job' = [job EXCEPT !.stage = stage]
  PROVE  job' \in Job /\ JobFits'
<1>1. job \in Job
  BY DEF IInv, TypeOK
<1> QED BY <1>1 DEF Job, JobFits

\* The attempts, to their end or to the next redelivery.
LEMMA WorkKeeps ==
  ASSUME IInv,
         \/ TokenFound \/ WaitOver
         \/ ReadFails \/ RefusedForGood \/ AlreadySent \/ LookUp
         \/ Send \/ SendUnanswered \/ SendTimesOut \/ SubmissionRefused
  PROVE  IInv'
<1>1. job # Idle /\ job \in Job /\ job.reply \in Mails
  BY DEF TokenFound, WaitOver, ReadFails, RefusedForGood, AlreadySent, LookUp, Send,
         SendUnanswered, SendTimesOut, SubmissionRefused, At, IInv, TypeOK, JobFits
<1>2. CASE TokenFound
  <2>1. job' \in Job /\ JobFits'
    BY <1>1, <1>2, StageKeeps DEF TokenFound
  <2>2. tried' \in [Mails -> 0..MaxAttempts]
    BY <1>1, <1>2, AttemptsAssumption DEF TokenFound, IInv, TypeOK
  <2> QED BY <1>2, <2>1, <2>2 DEF TokenFound, IInv, TypeOK, busVars, serverVars, budgetVars
<1>3. CASE WaitOver
  BY <1>3 DEF WaitOver, IInv, TypeOK, JobFits, busVars, serverVars, budgetVars
<1>4. CASE ReadFails \/ RefusedForGood
  <2>1. (job' = Idle \/ job' \in Job) /\ JobFits'
    BY <1>4, FailureKeeps DEF ReadFails, RefusedForGood
  <2> QED BY <1>4, <2>1
       DEF ReadFails, RefusedForGood, IInv, TypeOK, busVars, serverVars, budgetVars
<1>5. CASE AlreadySent
  <2>1. job' \in Job /\ JobFits'
    BY <1>1, <1>5, StageKeeps DEF AlreadySent
  <2> QED BY <1>5, <2>1 DEF AlreadySent, IInv, TypeOK, busVars, serverVars, budgetVars
<1>6. CASE LookUp
  <2>1. \/ job' = [job EXCEPT !.stage = "sending"]
        \/ \E reason \in {"refused", "a stranger's"} : GiveUp(reason)
    BY <1>6 DEF LookUp
  <2>2. (job' = Idle \/ job' \in Job) /\ JobFits'
    BY <1>1, <1>6, <2>1, FailureKeeps, StageKeeps DEF LookUp
  <2> QED BY <1>6, <2>2 DEF LookUp, IInv, TypeOK, busVars, serverVars, budgetVars
<1>7. CASE Send
  <2>1. job' \in Job /\ JobFits'
    BY <1>1, <1>7, StageKeeps DEF Send
  <2>2. copies' \in [Mails -> Nat] /\ inSent' \subseteq Mails
    BY <1>1, <1>7 DEF Send, Leave, IInv, TypeOK
  <2> QED BY <1>7, <2>1, <2>2 DEF Send, IInv, TypeOK, busVars, budgetVars
<1>8. CASE SendUnanswered
  <2>1. (job' = Idle \/ job' \in Job) /\ JobFits'
    BY <1>8, FailureKeeps DEF SendUnanswered
  <2>2. copies' \in [Mails -> Nat] /\ inSent' \subseteq Mails /\ faults' \in 0..MaxFaults
    BY <1>1, <1>8, LimitsAssumption DEF SendUnanswered, Leave, IInv, TypeOK
  <2> QED BY <1>8, <2>1, <2>2 DEF SendUnanswered, IInv, TypeOK, busVars
<1>9. CASE SendTimesOut
  <2>1. (job' = Idle \/ job' \in Job) /\ JobFits'
    BY <1>9, FailureKeeps DEF SendTimesOut
  <2>2. flying' \in [Mails -> Nat] /\ late' \in [Mails -> Nat]
    BY <1>1, <1>9, GivenUpTyped DEF SendTimesOut, IInv, TypeOK
  <2> QED BY <1>9, <2>1, <2>2 DEF SendTimesOut, IInv, TypeOK, busVars, budgetVars
<1>10. CASE SubmissionRefused
  <2>1. (job' = Idle \/ job' \in Job) /\ JobFits'
    BY <1>10, FailureKeeps DEF SubmissionRefused
  <2>2. drafts' \subseteq Mails /\ inSent' \subseteq Mails /\ faults' \in 0..MaxFaults
    BY <1>1, <1>10, LimitsAssumption DEF SubmissionRefused, StayBehind, IInv, TypeOK
  <2> QED BY <1>10, <2>1, <2>2 DEF SubmissionRefused, IInv, TypeOK, busVars
<1> QED BY <1>2, <1>3, <1>4, <1>5, <1>6, <1>7, <1>8, <1>9, <1>10

\* The ack, the report and the dead letter end the job.
LEMMA EndKeeps == ASSUME IInv, LeaveToOthers \/ Report \/ DeadLetter PROVE IInv'
<1>1. job # Idle /\ job \in Job
  BY DEF LeaveToOthers, Report, DeadLetter, At, IInv, TypeOK
<1>2. job' = Idle
  BY DEF LeaveToOthers, Report, DeadLetter
<1>3. acked' \subseteq Replies /\ faults' \in 0..MaxFaults
  BY <1>1, LimitsAssumption DEF LeaveToOthers, Report, DeadLetter, Acknowledge, IInv, TypeOK, Job
<1>4. reported' \subseteq Mails
  BY <1>1 DEF LeaveToOthers, Report, DeadLetter, At, IInv, TypeOK, JobFits
<1>5. dead' \in [Replies -> {"none"} \cup Reasons]
  BY <1>1 DEF LeaveToOthers, Report, DeadLetter, At, IInv, TypeOK, Job
<1>6. UNCHANGED <<delivered, serverVars, token, inbox, tried, stops, early, lapses>>
  BY DEF LeaveToOthers, Report, DeadLetter
<1> QED BY <1>2, <1>3, <1>4, <1>5, <1>6 DEF IInv, TypeOK, JobFits, serverVars

\* A rebuilt consumer and a new process start with nothing in hand.
LEMMA RestartKeeps == ASSUME IInv, Rebuild \/ Crash PROVE IInv'
<1>1. <<>> \in Seq([reply : Replies, delivered : 1..MaxAttempts])
  OBVIOUS
<1>2. CASE Rebuild
  BY <1>1, <1>2, LimitsAssumption DEF Rebuild, IInv, TypeOK, JobFits, busVars, serverVars
<1>3. CASE Crash
  <2>1. flying' \in [Mails -> Nat] /\ late' \in [Mails -> Nat]
    <3>1. CASE UNCHANGED <<flying, late>>
      BY <3>1 DEF IInv, TypeOK
    <3>2. CASE ~UNCHANGED <<flying, late>>
      <4>1. job.reply \in Mails
        BY <1>3, <3>2 DEF Crash, At, IInv, JobFits
      <4> QED BY <1>3, <3>2, <4>1, GivenUpTyped DEF Crash
    <3> QED BY <3>1, <3>2
  <2>2. stops' \in 0..MaxStops /\ inbox' = <<>> /\ job' = Idle /\ token' = FALSE
    BY <1>3, LimitsAssumption DEF Crash, IInv, TypeOK
  <2> QED BY <1>1, <1>3, <2>1, <2>2 DEF Crash, IInv, TypeOK, JobFits, busVars
<1> QED BY <1>2, <1>3

LEMMA IInvKept == ASSUME IInv, [Next]_vars PROVE IInv'
<1>1. CASE UNCHANGED vars
  BY <1>1 DEF vars, busVars, serverVars, budgetVars, IInv, TypeOK, JobFits
<1>2. CASE Next
  BY <1>2, BusKeeps, OutsideKeeps, TakeKeeps, WorkKeeps, EndKeeps, RestartKeeps DEF Next, Work
<1> QED BY <1>1, <1>2

LEMMA IInvAtFirst == ASSUME Init PROVE IInv
<1>1. delivered \in [Replies -> 0..MaxAttempts] /\ tried \in [Mails -> 0..MaxAttempts]
  BY AttemptsAssumption DEF Init
<1>2. inbox \in Seq([reply : Replies, delivered : 1..MaxAttempts]) /\ job = Idle
  BY DEF Init
<1>3. /\ faults \in 0..MaxFaults /\ stops \in 0..MaxStops
      /\ early \in 0..MaxEarly /\ lapses \in 0..MaxLapses
  BY LimitsAssumption DEF Init
<1> QED BY <1>1, <1>2, <1>3 DEF Init, IInv, TypeOK, JobFits

\* Every variable keeps its type: approvals, counts, stages and reasons.
THEOREM TypeCorrect == Spec => []TypeOK
<1>1. Init => IInv
  BY IInvAtFirst
<1>2. IInv /\ [Next]_vars => IInv'
  BY IInvKept
<1>3. IInv => TypeOK
  BY DEF IInv
<1> QED BY <1>1, <1>2, <1>3, PTL DEF Spec

-----------------------------------------------------------------------------
(* Nothing is sent twice for nothing.                                        *)

\* A mail of the reply is on the page of Sent that is read.
Seen(r) == IF r \in inSent THEN 1 ELSE 0

\* The collector is about to send a reply that got onto that page since it
\* looked: a request it had given up came late.
Overtaken(r) == IF At("sending") /\ job.reply = r /\ r \in inSent THEN 1 ELSE 0

\* Every mail that left, every request still in flight and every sending that
\* was overtaken is paid for: by the mail on the page, by a reply that left the
\* page, or by a request given up.
Owed == \A r \in Mails :
  copies[r] + flying[r] + Overtaken(r) <= Seen(r) + moved[r] + late[r]

\* A step that moves neither mail nor request, and does not begin to send.
LEMMA OwedIfStill ==
  ASSUME IInv, Owed, UNCHANGED <<copies, flying, moved, late>>, inSent \subseteq inSent',
         job' = job => inSent' = inSent, job' # job => ~At("sending")'
  PROVE  Owed'
<1> SUFFICES ASSUME NEW r \in Mails
             PROVE  (copies[r] + flying[r] + Overtaken(r) <= Seen(r) + moved[r] + late[r])'
  BY DEF Owed
<1>1. copies[r] + flying[r] + Overtaken(r) <= Seen(r) + moved[r] + late[r]
  BY DEF Owed
<1>2. Overtaken(r)' = Overtaken(r) \/ Overtaken(r)' = 0
  BY DEF Overtaken, At
<1>3. Seen(r)' \in {0, 1} /\ Seen(r) \in {0, 1} /\ Seen(r) <= Seen(r)'
  BY DEF Seen
<1>4. Overtaken(r) \in {0, 1}
  BY DEF Overtaken
<1>5. copies[r] \in Nat /\ flying[r] \in Nat /\ moved[r] \in Nat /\ late[r] \in Nat
  BY DEF IInv, TypeOK
<1> QED BY <1>1, <1>2, <1>3, <1>4, <1>5

\* A mail that leaves takes the place on the page, or was overtaken.
LEMMA OwedIfSent ==
  ASSUME IInv, Owed, At("sending"), Leave(job.reply), UNCHANGED <<flying, moved, late>>,
         ~At("sending")'
  PROVE  Owed'
<1>1. job.reply \in Mails /\ copies \in [Mails -> Nat]
  BY DEF At, IInv, TypeOK, JobFits
<1> SUFFICES ASSUME NEW r \in Mails
             PROVE  (copies[r] + flying[r] + Overtaken(r) <= Seen(r) + moved[r] + late[r])'
  BY DEF Owed
<1>2. copies[r] + flying[r] + Overtaken(r) <= Seen(r) + moved[r] + late[r]
  BY DEF Owed
<1>3. Overtaken(r)' = 0
  BY DEF Overtaken
<1>4. copies[r] \in Nat /\ flying[r] \in Nat /\ moved[r] \in Nat /\ late[r] \in Nat
  BY DEF IInv, TypeOK
<1>5. CASE r = job.reply
  <2>1. copies'[r] = copies[r] + 1 /\ Seen(r)' = 1
    BY <1>1, <1>5 DEF Leave, Seen
  <2>2. Seen(r) = Overtaken(r) /\ Seen(r) \in {0, 1}
    BY <1>5 DEF Seen, Overtaken
  <2> QED BY <1>2, <1>3, <1>4, <2>1, <2>2
<1>6. CASE r # job.reply
  <2>1. copies'[r] = copies[r] /\ Seen(r)' = Seen(r) /\ Overtaken(r) = 0
    BY <1>1, <1>6 DEF Leave, Seen, Overtaken
  <2>2. Seen(r) \in {0, 1}
    BY DEF Seen
  <2> QED BY <1>2, <1>3, <1>4, <2>1, <2>2
<1> QED BY <1>5, <1>6

\* A request given up is in flight and counted.
LEMMA OwedIfGivenUp ==
  ASSUME IInv, Owed, NEW q \in Mails, ~At("sending")',
         flying' = [flying EXCEPT ![q] = @ + 1], late' = [late EXCEPT ![q] = @ + 1],
         UNCHANGED <<copies, inSent, moved>>
  PROVE  Owed'
<1> SUFFICES ASSUME NEW r \in Mails
             PROVE  (copies[r] + flying[r] + Overtaken(r) <= Seen(r) + moved[r] + late[r])'
  BY DEF Owed
<1>1. copies[r] + flying[r] + Overtaken(r) <= Seen(r) + moved[r] + late[r]
  BY DEF Owed
<1>2. Overtaken(r)' = 0 /\ Overtaken(r) \in {0, 1} /\ Seen(r)' = Seen(r) /\ Seen(r) \in {0, 1}
  BY DEF Overtaken, Seen
<1>3. copies[r] \in Nat /\ flying[r] \in Nat /\ moved[r] \in Nat /\ late[r] \in Nat
  BY DEF IInv, TypeOK
<1>4. /\ flying'[r] = IF r = q THEN flying[r] + 1 ELSE flying[r]
      /\ late'[r] = IF r = q THEN late[r] + 1 ELSE late[r]
  BY DEF IInv, TypeOK
<1>5. copies'[r] = copies[r] /\ moved'[r] = moved[r]
  OBVIOUS
<1> QED BY <1>1, <1>2, <1>3, <1>4, <1>5

\* A late request is no longer in flight, and may overtake the collector.
LEMMA OwedIfLate == ASSUME IInv, Owed, NEW q \in Mails, RunLate(q) PROVE Owed'
<1> SUFFICES ASSUME NEW r \in Mails
             PROVE  (copies[r] + flying[r] + Overtaken(r) <= Seen(r) + moved[r] + late[r])'
  BY DEF Owed
<1>1. copies[r] + flying[r] + Overtaken(r) <= Seen(r) + moved[r] + late[r]
  BY DEF Owed
<1>2. copies[r] \in Nat /\ flying[r] \in Nat /\ moved[r] \in Nat /\ late[r] \in Nat
  BY DEF IInv, TypeOK
<1>3. UNCHANGED <<moved, late, job>>
  BY DEF RunLate
<1>4. CASE r # q
  <2>1. flying'[r] = flying[r] /\ copies'[r] = copies[r] /\ (r \in inSent' <=> r \in inSent)
    BY <1>4 DEF RunLate, Leave, StayBehind, IInv, TypeOK
  <2>2. Overtaken(r)' = Overtaken(r) /\ Seen(r)' = Seen(r)
    BY <1>3, <2>1 DEF Overtaken, Seen, At
  <2> QED BY <1>1, <1>3, <2>1, <2>2
<1>5. CASE r = q
  <2>1. flying'[r] = flying[r] - 1
    BY <1>5 DEF RunLate, IInv, TypeOK
  <2>2. CASE r \in inSent
    <3>1. Seen(r) = 1 /\ Seen(r)' = 1 /\ Overtaken(r)' = Overtaken(r)
      BY <1>3, <1>5, <2>2 DEF RunLate, Leave, StayBehind, Seen, Overtaken, At
    <3>2. copies'[r] <= copies[r] + 1 /\ copies'[r] \in Nat
      BY <1>5 DEF RunLate, Leave, StayBehind, IInv, TypeOK
    <3>3. Overtaken(r) \in {0, 1}
      BY DEF Overtaken
    <3> QED BY <1>1, <1>2, <1>3, <2>1, <3>1, <3>2, <3>3
  <2>3. CASE r \notin inSent
    <3>1. Seen(r) = 0 /\ Overtaken(r) = 0 /\ Overtaken(r)' \in {0, 1}
      BY <2>3 DEF Seen, Overtaken
    <3>2. CASE r \in inSent'
      <4>1. Seen(r)' = 1 /\ copies'[r] <= copies[r] + 1 /\ copies'[r] \in Nat
        BY <1>5, <3>2 DEF RunLate, Leave, StayBehind, Seen, IInv, TypeOK
      <4> QED BY <1>1, <1>2, <1>3, <2>1, <3>1, <4>1
    <3>3. CASE r \notin inSent'
      <4>1. Seen(r)' = 0 /\ Overtaken(r)' = 0 /\ copies'[r] = copies[r]
        BY <1>5, <3>3 DEF RunLate, Leave, Seen, Overtaken
      <4> QED BY <1>1, <1>2, <1>3, <2>1, <3>1, <4>1
    <3> QED BY <3>2, <3>3
  <2> QED BY <2>2, <2>3
<1> QED BY <1>4, <1>5

\* A reply that leaves the page is counted as having left it.
LEMMA OwedIfMoved == ASSUME IInv, Owed, NEW q \in Mails, LeaveThePage(q) PROVE Owed'
<1> SUFFICES ASSUME NEW r \in Mails
             PROVE  (copies[r] + flying[r] + Overtaken(r) <= Seen(r) + moved[r] + late[r])'
  BY DEF Owed
<1>1. copies[r] + flying[r] + Overtaken(r) <= Seen(r) + moved[r] + late[r]
  BY DEF Owed
<1>2. copies[r] \in Nat /\ flying[r] \in Nat /\ moved[r] \in Nat /\ late[r] \in Nat
  BY DEF IInv, TypeOK
<1>3. UNCHANGED <<copies, flying, late, job>>
  BY DEF LeaveThePage
<1>4. CASE r = q
  <2>1. Seen(r) = 1 /\ Seen(r)' = 0 /\ Overtaken(r)' = 0 /\ Overtaken(r) \in {0, 1}
    BY <1>4 DEF LeaveThePage, Seen, Overtaken
  <2>2. moved'[r] = moved[r] + 1
    BY <1>4 DEF LeaveThePage, IInv, TypeOK
  <2> QED BY <1>1, <1>2, <1>3, <2>1, <2>2
<1>5. CASE r # q
  <2>1. Seen(r)' = Seen(r) /\ Overtaken(r)' = Overtaken(r) /\ moved'[r] = moved[r]
    BY <1>3, <1>5 DEF LeaveThePage, Seen, Overtaken, At, IInv, TypeOK
  <2> QED BY <1>1, <1>3, <2>1
<1> QED BY <1>4, <1>5

\* The attempt's own steps.
LEMMA OwedThroughWork == ASSUME IInv, Owed, Work PROVE Owed'
<1>1. CASE TokenFound
  <2>1. job' # Idle /\ job'.stage = "looking"
    BY <1>1 DEF TokenFound, At, IInv, TypeOK, Job, Idle
  <2> QED BY <1>1, <2>1, OwedIfStill DEF TokenFound, serverVars, At
<1>2. CASE WaitOver \/ LeaveToOthers \/ Report \/ DeadLetter
  <2>1. job' = Idle /\ UNCHANGED serverVars
    BY <1>2 DEF WaitOver, LeaveToOthers, Report, DeadLetter
  <2> QED BY <2>1, OwedIfStill DEF serverVars, At
<1>3. ASSUME At("looking") \/ At("sending"), TryLater \/ \E w \in Reasons : GiveUp(w)
      PROVE  ~At("sending")'
  <2>1. job \in Job
    BY <1>3 DEF At, IInv, TypeOK
  <2>2. job' = Idle \/ \E w \in Reasons : GiveUp(w)
    BY <1>3 DEF TryLater, Reasons
  <2>3. ASSUME NEW w \in Reasons, GiveUp(w) PROVE job'.stage = "undeliverable"
    BY <2>1, <2>3 DEF GiveUp, Job
  <2> QED BY <2>2, <2>3 DEF At
<1>4. CASE ReadFails \/ RefusedForGood
  <2>1. ~At("sending")'
    BY <1>3, <1>4 DEF ReadFails, RefusedForGood, Reasons
  <2>2. UNCHANGED serverVars
    BY <1>4 DEF ReadFails, RefusedForGood
  <2> QED BY <2>1, <2>2, OwedIfStill DEF serverVars
<1>5. CASE AlreadySent
  <2>1. job'.stage = "sent"
    BY <1>5 DEF AlreadySent, At, IInv, TypeOK, Job
  <2> QED BY <1>5, <2>1, OwedIfStill DEF AlreadySent, serverVars, At
<1>6. CASE LookUp
  <2>1. CASE ~At("sending")'
    BY <1>6, <2>1, OwedIfStill DEF LookUp, serverVars
  <2>2. CASE At("sending")'
    <3>1. job \in Job /\ UNCHANGED serverVars /\ job.reply \notin inSent
      BY <1>6 DEF LookUp, Already, At, IInv, TypeOK
    <3>2. job'.reply = job.reply
      BY <1>6, <2>2, <3>1 DEF LookUp, GiveUp, At, Job
    <3>3. \A r \in Mails : Overtaken(r)' = 0 /\ Seen(r)' = Seen(r)
      BY <3>1, <3>2 DEF Overtaken, Seen, serverVars
    <3>4. \A r \in Mails : Overtaken(r) \in {0, 1} /\ Seen(r) \in {0, 1}
      BY DEF Overtaken, Seen
    <3>5. \A r \in Mails : /\ copies[r] \in Nat /\ flying[r] \in Nat
                           /\ moved[r] \in Nat /\ late[r] \in Nat
      BY DEF IInv, TypeOK
    <3> QED BY <3>1, <3>3, <3>4, <3>5 DEF Owed, serverVars
  <2> QED BY <2>1, <2>2
<1>7. CASE Send
  <2>1. job'.stage = "sent"
    BY <1>7 DEF Send, At, IInv, TypeOK, Job
  <2> QED BY <1>7, <2>1, OwedIfSent DEF Send, At
<1>8. CASE SendUnanswered
  BY <1>3, <1>8, OwedIfSent DEF SendUnanswered
<1>9. CASE SendTimesOut
  <2>1. ~At("sending")'
    BY <1>3, <1>9 DEF SendTimesOut
  <2>2. job.reply \in Mails
    BY <1>9 DEF SendTimesOut, At, IInv, JobFits
  <2>3. CASE UNCHANGED <<flying, late>>
    BY <1>9, <2>1, <2>3, OwedIfStill DEF SendTimesOut
  <2>4. CASE ~UNCHANGED <<flying, late>>
    BY <1>9, <2>1, <2>2, <2>4, OwedIfGivenUp DEF SendTimesOut
  <2> QED BY <2>3, <2>4
<1>10. CASE SubmissionRefused
  <2>1. ~At("sending")' /\ At("sending")
    BY <1>3, <1>10 DEF SubmissionRefused, Reasons
  <2>2. inSent \subseteq inSent'
    BY <1>10 DEF SubmissionRefused, StayBehind
  <2>3. job' # job
    BY <2>1 DEF At
  <2> QED BY <1>10, <2>1, <2>2, <2>3, OwedIfStill DEF SubmissionRefused
<1> QED BY <1>1, <1>2, <1>4, <1>5, <1>6, <1>7, <1>8, <1>9, <1>10 DEF Work

LEMMA OwedKept == ASSUME IInv, Owed, [Next]_vars PROVE Owed'
<1>1. CASE \E r \in Replies : Deliver(r) \/ Redeliver(r)
  BY <1>1, OwedIfStill DEF Deliver, Redeliver, serverVars
<1>2. CASE \E r \in Mails : LeaveThePage(r) \/ RunLate(r)
  BY <1>2, OwedIfMoved, OwedIfLate
<1>3. CASE TokenGoes \/ TokenComes \/ Rebuild
  BY <1>3, OwedIfStill DEF TokenGoes, TokenComes, Rebuild, serverVars
<1>4. CASE Take
  <2>1. job' # Idle /\ job'.stage # "sending"
    BY <1>4 DEF Take, Idle
  <2> QED BY <1>4, <2>1, OwedIfStill DEF Take, serverVars, At
<1>5. CASE Work
  BY <1>5, OwedThroughWork
<1>6. CASE Crash
  <2>1. ~At("sending")' /\ job' = Idle
    BY <1>6 DEF Crash, At
  <2>2. CASE UNCHANGED <<flying, late>>
    BY <1>6, <2>1, <2>2, OwedIfStill DEF Crash
  <2>3. CASE ~UNCHANGED <<flying, late>>
    <3>1. job.reply \in Mails
      BY <1>6, <2>3 DEF Crash, At, IInv, JobFits
    <3> QED BY <1>6, <2>1, <2>3, <3>1, OwedIfGivenUp DEF Crash
  <2> QED BY <2>2, <2>3
<1>7. CASE UNCHANGED vars
  BY <1>7, OwedIfStill DEF vars, serverVars
<1> QED BY <1>1, <1>2, <1>3, <1>4, <1>5, <1>6, <1>7 DEF Next

\* Through lost answers, crashes and redeliveries nothing is sent twice: each
\* mail beyond the first is owed to a request the server ran late, or to a reply
\* no longer on the page of Sent that is read.
THEOREM NothingSentTwice == Spec => []SentOnce
<1>1. Init => IInv /\ Owed
  <2> SUFFICES ASSUME Init PROVE Owed
    BY IInvAtFirst
  <2>1. \A r \in Mails : Overtaken(r) = 0 /\ Seen(r) = 0
    BY DEF Init, Overtaken, Seen, At
  <2> QED BY <2>1 DEF Init, Owed
<1>2. IInv /\ Owed /\ [Next]_vars => (IInv /\ Owed)'
  BY IInvKept, OwedKept
<1>3. IInv /\ Owed => SentOnce
  <2> SUFFICES ASSUME IInv, Owed, NEW r \in Mails
               PROVE  copies[r] <= 1 + moved[r] + late[r]
    BY DEF SentOnce
  <2>1. copies[r] + flying[r] + Overtaken(r) <= Seen(r) + moved[r] + late[r]
    BY DEF Owed
  <2>2. Seen(r) \in {0, 1} /\ Overtaken(r) \in {0, 1}
    BY DEF Seen, Overtaken
  <2>3. copies[r] \in Nat /\ flying[r] \in Nat /\ moved[r] \in Nat /\ late[r] \in Nat
    BY DEF IInv, TypeOK
  <2> QED BY <2>1, <2>2, <2>3
<1> QED BY <1>1, <1>2, <1>3, PTL DEF Spec

-----------------------------------------------------------------------------
(* Nothing is dropped, and nothing is reported that did not leave.           *)

\* With a Drafts mailbox only mails that left are in Sent.
SentHasLeft ==
  /\ \A r \in inSent : copies[r] > 0
  /\ At("sent") => copies[job.reply] > 0

\* Properties of the mailbox and of the bus, inductive together.
DropInv == SentHasLeft /\ NeverDropped

\* A mail that left stays left: no step takes a copy back.
LEMMA CopiesGrow == ASSUME IInv, [Next]_vars PROVE \A r \in Mails : copies'[r] >= copies[r]
<1> SUFFICES ASSUME NEW r \in Mails PROVE copies'[r] >= copies[r]
  OBVIOUS
<1>1. copies \in [Mails -> Nat] /\ copies[r] \in Nat
  BY DEF IInv, TypeOK
<1>2. ASSUME NEW q \in Mails, Leave(q) PROVE copies'[r] >= copies[r]
  BY <1>1, <1>2 DEF Leave
<1>3. CASE UNCHANGED copies
  BY <1>1, <1>3
<1>4. CASE \E q \in Mails : RunLate(q)
  BY <1>2, <1>3, <1>4 DEF RunLate
<1>5. CASE Send \/ SendUnanswered
  <2>1. job.reply \in Mails
    BY <1>5 DEF Send, SendUnanswered, At, IInv, JobFits
  <2> QED BY <1>2, <1>5, <2>1 DEF Send, SendUnanswered
<1>6. UNCHANGED copies \/ (\E q \in Mails : RunLate(q)) \/ Send \/ SendUnanswered
  BY DEF Next, vars, Work, Deliver, Redeliver, LeaveThePage, TokenGoes, TokenComes, Take,
         TokenFound, WaitOver, ReadFails, RefusedForGood, AlreadySent, LookUp, SendTimesOut,
         SubmissionRefused, LeaveToOthers, Report, DeadLetter, Rebuild, Crash, serverVars
<1> QED BY <1>3, <1>4, <1>5, <1>6

\* What is in Sent has left, whatever the step.
LEMMA SentStaysLeft == ASSUME HasDrafts, IInv, SentHasLeft, [Next]_vars PROVE SentHasLeft'
<1>1. /\ copies \in [Mails -> Nat] /\ inSent \subseteq Mails
      /\ \A r \in Mails : copies[r] \in Nat /\ copies'[r] >= copies[r]
  BY CopiesGrow DEF IInv, TypeOK
<1>2. copies' \in [Mails -> Nat] /\ inSent' \subseteq Mails
  BY IInvKept DEF IInv, TypeOK
<1>3. \A r \in inSent' : copies'[r] > 0
  <2>1. inSent' \subseteq inSent \/ \E q \in Mails : Leave(q)
    <3>1. job.reply \in Mails \/ ~At("sending")
      BY DEF At, IInv, JobFits
    <3> QED BY <3>1
         DEF Next, vars, Work, Deliver, Redeliver, LeaveThePage, RunLate, TokenGoes, TokenComes,
             Take, TokenFound, WaitOver, ReadFails, RefusedForGood, AlreadySent, LookUp, Send,
             SendUnanswered, SendTimesOut, SubmissionRefused, StayBehind, LeaveToOthers, Report,
             DeadLetter, Rebuild, Crash, serverVars
  <2>2. CASE inSent' \subseteq inSent
    BY <1>1, <1>2, <2>2 DEF SentHasLeft
  <2>3. ASSUME NEW q \in Mails, Leave(q) PROVE \A r \in inSent' : copies'[r] > 0
    BY <1>1, <2>3 DEF Leave, SentHasLeft
  <2> QED BY <2>1, <2>2, <2>3
<1>4. At("sent")' => copies'[job'.reply] > 0
  <2> SUFFICES ASSUME At("sent")' PROVE copies'[job'.reply] > 0
    OBVIOUS
  <2>1. job' = job \/ AlreadySent \/ Send
    <3>1. job # Idle => job \in Job
      BY DEF IInv, TypeOK
    <3>2. \A w \in Reasons : GiveUp(w) /\ job # Idle => job'.stage = "undeliverable"
      BY <3>1 DEF GiveUp, Job
    <3>3. TryLater /\ job # Idle => job' = Idle \/ job'.stage = "undeliverable"
      BY <3>2 DEF TryLater, Reasons
    <3>4. CASE Work
      <4>1. CASE TokenFound \/ LookUp
        BY <3>1, <3>2, <4>1 DEF TokenFound, LookUp, At, Job, Reasons
      <4>2. CASE WaitOver \/ LeaveToOthers \/ Report \/ DeadLetter
        BY <4>2 DEF WaitOver, LeaveToOthers, Report, DeadLetter, At
      <4>3. CASE ReadFails \/ RefusedForGood \/ SendUnanswered \/ SendTimesOut \/ SubmissionRefused
        BY <3>2, <3>3, <4>3
           DEF ReadFails, RefusedForGood, SendUnanswered, SendTimesOut, SubmissionRefused, At, Reasons
      <4> QED BY <3>4, <4>1, <4>2, <4>3 DEF Work
    <3>5. CASE Take
      BY <3>5 DEF Take, At
    <3>6. CASE ~Work /\ ~Take
      BY <3>6 DEF Next, vars, Deliver, Redeliver, LeaveThePage, RunLate, TokenGoes, TokenComes,
                  Rebuild, Crash, At
    <3> QED BY <3>4, <3>5, <3>6
  <2>2. CASE job' = job
    <3>1. At("sent") /\ job.reply \in Mails
      BY <2>2 DEF At, IInv, JobFits
    <3> QED BY <1>1, <1>2, <2>2, <3>1 DEF SentHasLeft
  <2>3. CASE AlreadySent
    <3>1. job.reply \in inSent /\ job'.reply = job.reply
      BY <2>3 DEF AlreadySent, Already, At, IInv, TypeOK, Job
    <3> QED BY <1>1, <1>2, <3>1 DEF SentHasLeft
  <2>4. CASE Send
    <3>1. job.reply \in Mails /\ job'.reply = job.reply
      BY <2>4 DEF Send, At, IInv, TypeOK, JobFits, Job
    <3>2. copies'[job.reply] = copies[job.reply] + 1
      BY <1>1, <2>4, <3>1 DEF Send, Leave
    <3> QED BY <1>1, <3>1, <3>2
  <2> QED BY <2>1, <2>2, <2>3, <2>4
<1> QED BY <1>3, <1>4 DEF SentHasLeft

\* What is acked is settled, what is reported has left, others are untouched.
LEMMA NeverDroppedKept ==
  ASSUME IInv, SentHasLeft, NeverDropped, [Next]_vars
  PROVE  NeverDropped'
<1>1. \A r \in Mails : copies[r] \in Nat /\ copies'[r] \in Nat /\ copies'[r] >= copies[r]
  BY CopiesGrow, IInvKept DEF IInv, TypeOK
<1>2. acked \subseteq Replies /\ reported \subseteq Mails /\ dead \in [Replies -> {"none"} \cup Reasons]
  BY DEF IInv, TypeOK
<1>3. CASE LeaveToOthers
  <2>1. acked' \subseteq acked \cup Others
    BY <1>3 DEF LeaveToOthers, Acknowledge, At, IInv, JobFits
  <2> QED BY <1>1, <1>2, <1>3, <2>1 DEF LeaveToOthers, NeverDropped
<1>4. CASE Report
  <2>1. job.reply \in Mails /\ copies[job.reply] > 0
    BY <1>4 DEF Report, At, IInv, JobFits, SentHasLeft
  <2>2. acked' \subseteq acked \cup {job.reply} /\ reported' \subseteq reported \cup {job.reply}
    BY <1>4 DEF Report, Acknowledge
  <2> QED BY <1>1, <1>2, <1>4, <2>1, <2>2 DEF Report, NeverDropped
<1>5. CASE DeadLetter
  <2>1. job.reply \in Replies /\ job.reply \notin Others /\ job.why # "none"
    BY <1>5 DEF DeadLetter, At, IInv, TypeOK, JobFits, Job, Reasons
  <2>2. \A r \in Replies : /\ r # job.reply => dead'[r] = dead[r]
                           /\ dead[r] # "none" => dead'[r] # "none"
    BY <1>2, <1>5 DEF DeadLetter
  <2>3. acked' \subseteq acked \/ (acked' \subseteq acked \cup {job.reply} /\ dead'[job.reply] # "none")
    BY <1>2, <1>5, <2>1 DEF DeadLetter, Acknowledge
  <2>4. reported' = reported /\ Others \subseteq Replies
    BY <1>5 DEF DeadLetter, Replies
  <2> QED BY <1>1, <1>2, <2>1, <2>2, <2>3, <2>4 DEF NeverDropped
<1>6. CASE ~(LeaveToOthers \/ Report \/ DeadLetter)
  <2>1. UNCHANGED <<acked, reported, dead>>
    BY <1>6 DEF Next, vars, Work, Deliver, Redeliver, LeaveThePage, RunLate, TokenGoes, TokenComes,
             Take, TokenFound, WaitOver, ReadFails, RefusedForGood, AlreadySent, LookUp, Send,
             SendUnanswered, SendTimesOut, SubmissionRefused, Rebuild, Crash, busVars
  <2> QED BY <1>1, <1>2, <2>1 DEF NeverDropped
<1> QED BY <1>3, <1>4, <1>5, <1>6

\* Where the server has a Drafts mailbox, no approved reply is dropped and none
\* is reported that did not leave. Without one a draft left behind is taken for
\* the reply.
THEOREM SettledOrKept == HasDrafts => (Spec => []NeverDropped)
<1> SUFFICES ASSUME HasDrafts PROVE Spec => []NeverDropped
  OBVIOUS
<1>1. Init => IInv /\ DropInv
  BY IInvAtFirst DEF Init, DropInv, SentHasLeft, NeverDropped, At, Replies
<1>2. IInv /\ DropInv /\ [Next]_vars => (IInv /\ DropInv)'
  BY IInvKept, SentStaysLeft, NeverDroppedKept DEF DropInv
<1>3. IInv /\ DropInv => NeverDropped
  BY DEF DropInv
<1> QED BY <1>1, <1>2, <1>3, PTL DEF Spec

-----------------------------------------------------------------------------
(* Disposal.                                                                 *)

\* A mail that leaves, sent now or by a request given up, is its reply leaving.
LEMMA MailIsLeaving ==
  ASSUME IInv, NEW r \in Mails, Leave(r), UNCHANGED <<acked, reported, dead>>
  PROVE  r \in Replies /\ Collectors!Leave(r)
<1>1. copies \in [Mails -> Nat] /\ r \in Replies
  BY DEF IInv, TypeOK, Replies
<1>2. \A q \in Mails : copies'[q] > 0 <=> copies[q] > 0 \/ q = r
  BY <1>1 DEF Leave
<1>3. SentReplies' = SentReplies \cup {r}
  BY <1>2 DEF SentReplies
<1>4. Records' = Records /\ KeptReplies' = KeptReplies
  BY DEF Records, KeptReplies
<1> QED BY <1>1, <1>3, <1>4 DEF Collectors!Leave

\* A report is the first of its reply, or changes nothing.
LEMMA ReportIsTelling ==
  ASSUME IInv, SentHasLeft, Report, NEW r, r = job.reply
  PROVE  r \in Replies /\ Collectors!Tell(r)
<1>1. r \in Mails /\ r \in SentReplies /\ r \in Replies
  BY DEF Report, At, IInv, JobFits, SentHasLeft, SentReplies, Replies
<1>2. SentReplies' = SentReplies /\ KeptReplies' = KeptReplies
  BY DEF Report, serverVars, SentReplies, KeptReplies
<1>3. acked' \in {acked, acked \cup {r}} /\ reported' \in {reported, reported \cup {r}}
  BY DEF Report, Acknowledge
<1>4. CASE reported' = reported
  BY <1>1, <1>2, <1>3, <1>4 DEF Collectors!Tell, Collectors!Settle, Records
<1>5. CASE r \notin reported /\ reported' = reported \cup {r}
  <2>1. Records[r] = "none"
    BY <1>1, <1>5 DEF Records
  <2>2. Records' = [Records EXCEPT ![r] = "contact"]
    <3>1. Records' = [q \in Replies |-> IF q = r THEN "contact" ELSE Records[q]]
      BY <1>1, <1>5 DEF Records
    <3> QED BY <3>1, <1>1 DEF Records
  <2> QED BY <1>1, <1>2, <1>3, <2>1, <2>2 DEF Collectors!Tell, Collectors!Settle
<1> QED BY <1>1, <1>3, <1>4, <1>5

\* A copy is stored under the reason of the first, or is not known to be stored
\* and nothing is acked.
LEMMA CopyIsKeeping ==
  ASSUME IInv, DeadLetter, NEW r, r = job.reply
  PROVE  r \in Replies /\ (Collectors!Keep(r) \/ UNCHANGED Collectors!vars)
<1>1. r \in Replies \ Others /\ job.why # "none" /\ dead \in [Replies -> {"none"} \cup Reasons]
  BY DEF DeadLetter, At, IInv, TypeOK, JobFits, Job, Reasons
<1>2. SentReplies' = SentReplies /\ Records' = Records
  BY DEF DeadLetter, serverVars, SentReplies, Records
<1>3. CASE UNCHANGED <<dead, acked>>
  <2>1. KeptReplies' = KeptReplies
    BY <1>3 DEF KeptReplies
  <2> QED BY <1>1, <1>2, <1>3, <2>1 DEF Collectors!vars
<1>4. CASE ~UNCHANGED <<dead, acked>>
  <2>1. /\ dead' = [dead EXCEPT ![r] = IF @ = "none" THEN job.why ELSE @]
        /\ acked' \in {acked, acked \cup {r}}
    BY <1>4 DEF DeadLetter, Acknowledge
  <2>2. \A q \in Replies : dead'[q] # "none" <=> dead[q] # "none" \/ q = r
    BY <1>1, <2>1
  <2>3. KeptReplies' = KeptReplies \cup {r}
    BY <1>1, <2>2 DEF KeptReplies
  <2> QED BY <1>1, <1>2, <2>1, <2>3 DEF Collectors!Keep, Collectors!Settle
<1> QED BY <1>3, <1>4

\* Every step of the collector is a step of Disposal, or settles nothing.
LEMMA MailStepDisposes ==
  ASSUME IInv, SentHasLeft, [Next]_vars
  PROVE  [Collectors!Next]_(Collectors!vars)
<1>1. CASE \E r \in Mails : Leave(r) /\ UNCHANGED <<acked, reported, dead>>
  BY <1>1, MailIsLeaving DEF Collectors!Next
<1>2. CASE Report
  BY <1>2, ReportIsTelling DEF Collectors!Next
<1>3. CASE DeadLetter
  BY <1>3, CopyIsKeeping DEF Collectors!Next
<1>4. CASE LeaveToOthers
  <2> DEFINE r == job.reply
  <2>1. r \in Others /\ r \in Replies /\ acked' \in {acked, acked \cup {r}}
    BY <1>4 DEF LeaveToOthers, Acknowledge, At, IInv, JobFits, Replies
  <2>2. SentReplies' = SentReplies /\ Records' = Records /\ KeptReplies' = KeptReplies
    BY <1>4 DEF LeaveToOthers, serverVars, SentReplies, Records, KeptReplies
  <2>3. Collectors!Pass(r)
    BY <2>1, <2>2 DEF Collectors!Pass, Collectors!Settle
  <2> QED BY <2>1, <2>3 DEF Collectors!Next
<1>5. CASE UNCHANGED <<copies, acked, reported, dead>>
  BY <1>5 DEF Collectors!vars, SentReplies, Records, KeptReplies
<1>6. \/ UNCHANGED <<copies, acked, reported, dead>>
      \/ \E r \in Mails : Leave(r) /\ UNCHANGED <<acked, reported, dead>>
      \/ Report \/ DeadLetter \/ LeaveToOthers
  <2>1. CASE Send \/ SendUnanswered
    <3>1. job.reply \in Mails
      BY <2>1 DEF Send, SendUnanswered, At, IInv, JobFits
    <3> QED BY <2>1, <3>1 DEF Send, SendUnanswered, busVars
  <2>2. CASE \E r \in Mails : RunLate(r)
    BY <2>2 DEF RunLate, busVars
  <2> QED BY <2>1, <2>2
       DEF Next, vars, Work, Deliver, Redeliver, LeaveThePage, TokenGoes, TokenComes, Take,
           TokenFound, WaitOver, ReadFails, RefusedForGood, AlreadySent, LookUp, SendTimesOut,
           SubmissionRefused, Rebuild, Crash, busVars, serverVars
<1> QED BY <1>1, <1>2, <1>3, <1>4, <1>5, <1>6

\* DisposesOfReplies: where the server has a Drafts mailbox, the collector
\* implements the Disposal that the Sensor implements, although its server knows
\* no transaction id: what a look into Sent reports had left.
THEOREM CollectorDisposes == HasDrafts => (Spec => DisposesOfReplies)
<1> SUFFICES ASSUME HasDrafts PROVE Spec => DisposesOfReplies
  OBVIOUS
<1>1. Init => IInv /\ SentHasLeft /\ Collectors!Init
  <2> SUFFICES ASSUME Init PROVE SentHasLeft /\ Collectors!Init
    BY IInvAtFirst
  <2>1. SentReplies = {} /\ KeptReplies = {} /\ Records = [r \in Replies |-> "none"]
    BY DEF Init, SentReplies, KeptReplies, Records
  <2> QED BY <2>1 DEF Init, SentHasLeft, At, Collectors!Init
<1>2. IInv /\ SentHasLeft /\ [Next]_vars => (IInv /\ SentHasLeft)'
  BY IInvKept, SentStaysLeft
<1>3. IInv /\ SentHasLeft /\ [Next]_vars => [Collectors!Next]_(Collectors!vars)
  BY MailStepDisposes
<1> QED BY <1>1, <1>2, <1>3, PTL DEF Spec, DisposesOfReplies, Collectors!Spec

-----------------------------------------------------------------------------
(* What arrived.                                                             *)

\* Less has arrived since a later state, and nothing since the current one.
LEMMA AfterLess ==
  ASSUME NEW s \in Seq(Mail), NEW from \in 0 .. Len(s), NEW to \in 0 .. Len(s), from <= to
  PROVE  After(s, to) \subseteq After(s, from) /\ After(s, from) \subseteq Mail
BY DEF After

LEMMA AfterAll == ASSUME NEW s \in Seq(Mail) PROVE After(s, Len(s)) = {}
<1>1. Len(s) + 1 .. Len(s) = {}
  OBVIOUS
<1> QED BY <1>1 DEF After

\* What arrives joins what arrived since any earlier state.
LEMMA AfterOneMore ==
  ASSUME NEW s \in Seq(Mail), NEW m \in Mail, NEW from \in 0 .. Len(s)
  PROVE  After(Append(s, m), from) = After(s, from) \cup {m}
<1>1. PICK t : t = Append(s, m)
  OBVIOUS
<1>2. Len(t) = Len(s) + 1 /\ t[Len(s) + 1] = m /\ \A i \in 1 .. Len(s) : t[i] = s[i]
  BY <1>1
<1>3. \A i \in from + 1 .. Len(s) + 1 : i = Len(s) + 1 \/ (i \in from + 1 .. Len(s) /\ t[i] = s[i])
  BY <1>2
<1>4. \A i \in from + 1 .. Len(s) : i \in from + 1 .. Len(s) + 1 /\ t[i] = s[i]
  BY <1>2
<1>5. Len(s) + 1 \in from + 1 .. Len(s) + 1
  OBVIOUS
<1>6. After(t, from) = After(s, from) \cup {m}
  BY <1>2, <1>3, <1>4, <1>5 DEF After
<1> QED BY <1>1, <1>6

-----------------------------------------------------------------------------
(* Type correctness.                                                         *)

LEMMA MailboxTypeInit == MailboxInit => MailboxTypeOK
<1> SUFFICES ASSUME MailboxInit PROVE MailboxTypeOK
  OBVIOUS
<1>1. log = <<>> /\ moves = <<>> /\ Len(log) = 0 /\ Len(moves) = 0
  BY DEF MailboxInit
<1>2. log \in Seq(Mail) /\ moves \in Seq(Moves)
  BY <1>1
<1>3. ServerOK
  BY <1>1, <1>2 DEF MailboxInit, ServerOK, Places
<1>4. NoState \in MailStates
  BY <1>1 DEF NoState, MailStates
<1>5. PollOK
  BY <1>4 DEF MailboxInit, PollOK, Positions
<1>6. JournalOK
  <2>1. undos = {} /\ filed = {} /\ swept = FALSE /\ mishaps = 0
    BY DEF MailboxInit
  <2>2. 0 \in 0 .. MaxMishaps /\ 0 <= MaxMoves
    BY MailboxAssumption
  <2> QED BY <1>1, <1>2, <2>1, <2>2 DEF JournalOK
<1> QED BY <1>3, <1>5, <1>6 DEF MailboxTypeOK

\* A mail is where File puts it, or where it was.
Filing(taken) ==
  where' = [m \in Mail |->
              CASE \E f \in taken : f.mail = m /\ f.undoes # 0 -> "inbox"
                [] \E f \in taken : f.mail = m /\ f.undoes = 0 -> "folder"
                [] OTHER -> where[m]]

Back == {moves[i].mail : i \in undos}

Wanted == {[mail |-> moves[i].mail, undoes |-> i, asked |-> FALSE] : i \in undos}
            \cup {[mail |-> m, undoes |-> 0, asked |-> FALSE] : m \in triaged \ Back}

Taken == {f \in Wanted : where[f.mail] # "gone"}

\* What a round files: all it wants that is not gone, or nothing.
LEMMA FileParts ==
  ASSUME File
  PROVE  /\ at = "file" /\ at' = "report" /\ triaged' = {}
         /\ UNCHANGED <<log, forgot, disk, found, next, envelopes, undos, swept, moves, bus, base, unsaid, redone, ahead, rest>>
         /\ \/ /\ filed' = Taken /\ Filing(Taken) /\ touched' = touched \cup (Back \ In("gone"))
               /\ UNCHANGED mishaps
            \/ /\ mishaps < MaxMishaps /\ mishaps' = mishaps + 1
               /\ UNCHANGED <<filed, where, touched>>
BY DEF File, Back, Wanted, Taken, Filing

LEMMA WantedType ==
  ASSUME JournalOK, PollOK
  PROVE  Back \subseteq Mail /\ Wanted \subseteq Moves /\ Taken \subseteq Moves
<1>1. ASSUME NEW i \in undos
      PROVE  /\ moves[i].mail \in Mail
             /\ [mail |-> moves[i].mail, undoes |-> i, asked |-> FALSE] \in Moves
  <2>1. i \in 1 .. Len(moves) /\ moves[i] \in Moves /\ Len(moves) \in Nat /\ Len(moves) <= MaxMoves
    BY DEF JournalOK
  <2>2. i \in 0 .. MaxMoves
    BY <2>1, MailboxAssumption
  <2> QED BY <2>1, <2>2 DEF Moves
<1>2. ASSUME NEW m \in triaged
      PROVE  [mail |-> m, undoes |-> 0, asked |-> FALSE] \in Moves
  <2>1. m \in Mail /\ 0 \in 0 .. MaxMoves
    BY MailboxAssumption DEF PollOK
  <2> QED BY <2>1 DEF Moves
<1>3. Back \subseteq Mail
  BY <1>1 DEF Back
<1>4. Wanted \subseteq Moves
  BY <1>1, <1>2 DEF Wanted
<1> QED BY <1>3, <1>4 DEF Taken

LEMMA ServerStep == MailboxTypeOK /\ [MailboxNext]_mailboxVars => ServerOK'
<1> SUFFICES ASSUME MailboxTypeOK, [MailboxNext]_mailboxVars PROVE ServerOK'
  OBVIOUS
<1> USE DEF server, round, history
<1>0. ServerOK /\ PollOK /\ JournalOK
  BY DEF MailboxTypeOK
<1>1. CASE UNCHANGED <<server, base, touched>>
  BY <1>0, <1>1 DEF ServerOK
<1>2. CASE \/ UNCHANGED mailboxVars \/ Start \/ Killed \/ CallFails \/ Poll \/ Changes \/ StateForgotten
           \/ Window \/ Read \/ ReportMoves \/ Publish \/ Published \/ Commit \/ SweepDue
           \/ \E i \in 1 .. Len(moves) : AskUndo(i)
  BY <1>1, <1>2 DEF mailboxVars, Start, Killed, CallFails, Poll, Changes, StateForgotten, Window, Read,
                    ReportMoves, Publish, Published, Commit, SweepDue, AskUndo
<1>3. CASE TakeAsItStands
  <2>1. log \in Seq(Mail) /\ 0 \in 0 .. Len(log) /\ 0 <= 0
    BY <1>0 DEF ServerOK
  <2>2. Arrived(0) \subseteq Mail
    BY <2>1, AfterLess DEF Arrived
  <2> QED BY <1>0, <1>3, <2>2 DEF TakeAsItStands, ServerOK
<1>4. CASE File
  <2>1. where' = where \/ Filing(Taken)
    BY <1>4, FileParts
  <2>2. where' \in [Mail -> Places]
    BY <1>0, <2>1 DEF Filing, ServerOK, Places
  <2>3. touched' \subseteq Mail
    BY <1>0, <1>4, FileParts, WantedType DEF ServerOK
  <2>4. UNCHANGED <<log, forgot, base>>
    BY <1>4, FileParts
  <2> QED BY <1>0, <2>2, <2>3, <2>4 DEF ServerOK
<1>5. ASSUME NEW m \in Mail, Arrive(m)
      PROVE  ServerOK'
  <2>1. log' \in Seq(Mail) /\ Len(log') = Len(log) + 1 /\ Len(log) \in Nat
    BY <1>0, <1>5 DEF Arrive, ServerOK
  <2>2. where' \in [Mail -> Places]
    BY <1>0, <1>5 DEF Arrive, ServerOK, Places
  <2>3. forgot \in 0 .. Len(log')
    BY <1>0, <2>1 DEF ServerOK
  <2> QED BY <1>0, <1>5, <2>1, <2>2, <2>3 DEF Arrive, ServerOK
<1>6. ASSUME NEW m \in Mail, MoveByHand(m)
      PROVE  ServerOK'
  <2>1. where' \in [Mail -> Places]
    BY <1>0, <1>6 DEF MoveByHand, ServerOK, Places
  <2> QED BY <1>0, <1>6, <2>1 DEF MoveByHand, ServerOK
<1>7. CASE Forget
  BY <1>0, <1>7 DEF Forget, ServerOK
<1> QED BY <1>2, <1>3, <1>4, <1>5, <1>6, <1>7 DEF MailboxNext, PollStep

\* A row that is asked back, or no longer is, is a row of the journal still.
LEMMA AskedRow ==
  ASSUME NEW journal \in Seq(Moves), NEW i \in 1 .. Len(journal), NEW b \in BOOLEAN,
         NEW after, after = [journal EXCEPT ![i].asked = b]
  PROVE  /\ after \in Seq(Moves) /\ Len(after) = Len(journal)
         /\ \A j \in 1 .. Len(journal) : after[j].mail = journal[j].mail
<1>1. journal \in [1 .. Len(journal) -> Moves] /\ Len(journal) \in Nat
  OBVIOUS
<1>2. ASSUME NEW j \in 1 .. Len(journal)
      PROVE  after[j] \in Moves /\ after[j].mail = journal[j].mail
  <2>1. journal[j] \in Moves
    BY <1>1
  <2>2. after[j] = IF j = i THEN [journal[j] EXCEPT !.asked = b] ELSE journal[j]
    BY <1>1
  <2> QED BY <2>1, <2>2 DEF Moves
<1>3. after \in [1 .. Len(journal) -> Moves]
  <2>1. after = [j \in 1 .. Len(journal) |-> after[j]]
    BY <1>1
  <2> QED BY <1>2, <2>1
<1>4. after \in Seq(Moves) /\ Len(after) = Len(journal)
  BY <1>1, <1>3, LenProperties, SeqDef
<1> QED BY <1>2, <1>4

\* A row keeps the journal one of moves, not longer than the bound, and about
\* the mails it was about and the one reported.
LEMMA RecordedType ==
  ASSUME JournalOK, NEW f \in filed, Recorded(f)
  PROVE  /\ moves' \in Seq(Moves) /\ Len(moves') <= MaxMoves
         /\ Len(moves) <= Len(moves')
         /\ \A j \in 1 .. Len(moves') :
              moves'[j].mail = f.mail \/ (j \in 1 .. Len(moves) /\ moves'[j].mail = moves[j].mail)
<1> DEFINE cleared == IF f.undoes = 0 THEN moves ELSE [moves EXCEPT ![f.undoes].asked = FALSE]
<1>1. moves \in Seq(Moves) /\ Len(moves) <= MaxMoves /\ f \in Moves /\ Len(moves) \in Nat
  BY DEF JournalOK
<1>2. ASSUME f.undoes \notin 1 .. Len(moves)
      PROVE  [moves EXCEPT ![f.undoes].asked = FALSE] = moves
  <2>1. moves \in [1 .. Len(moves) -> Moves]
    BY <1>1
  <2> QED BY <1>2, <2>1
<1>3. /\ cleared \in Seq(Moves) /\ Len(cleared) = Len(moves)
      /\ \A j \in 1 .. Len(moves) : cleared[j].mail = moves[j].mail
  <2>1. CASE f.undoes = 0
    BY <1>1, <2>1
  <2>2. CASE f.undoes # 0 /\ f.undoes \notin 1 .. Len(moves)
    <3>1. cleared = moves
      BY <1>2, <2>2
    <3> HIDE DEF cleared
    <3> QED BY <1>1, <3>1
  <2>3. CASE f.undoes # 0 /\ f.undoes \in 1 .. Len(moves)
    <3>1. PICK i \in 1 .. Len(moves) : i = f.undoes
      BY <2>3
    <3>2. PICK b \in BOOLEAN : b = FALSE
      OBVIOUS
    <3>3. PICK after : after = [moves EXCEPT ![i].asked = b]
      OBVIOUS
    <3>4. /\ after \in Seq(Moves) /\ Len(after) = Len(moves)
          /\ \A j \in 1 .. Len(moves) : after[j].mail = moves[j].mail
      <4> HIDE DEF cleared
      <4>1. moves \in Seq(Moves)
        BY <1>1
      <4> QED BY <3>3, <4>1, AskedRow
    <3>5. cleared = after
      BY <2>3, <3>1, <3>2, <3>3
    <3> HIDE DEF cleared
    <3> QED BY <3>4, <3>5
  <2> QED BY <2>1, <2>2, <2>3
<1> HIDE DEF cleared
<1>4. moves' = Row(cleared, f)
  BY DEF Recorded, cleared
<1>5. CASE Len(cleared) < MaxMoves
  <2>1. moves' = Append(cleared, f)
    BY <1>4, <1>5 DEF Row
  <2>2. moves' \in Seq(Moves) /\ Len(moves') = Len(cleared) + 1
    BY <1>1, <1>3, <2>1
  <2>3. \A j \in 1 .. Len(moves') :
          moves'[j].mail = f.mail \/ (j \in 1 .. Len(moves) /\ moves'[j].mail = moves[j].mail)
    BY <1>1, <1>3, <2>1, <2>2
  <2> QED BY <1>1, <1>3, <1>5, <2>2, <2>3, MailboxAssumption
<1>6. CASE ~ (Len(cleared) < MaxMoves)
  BY <1>1, <1>3, <1>4, <1>6 DEF Row
<1> QED BY <1>5, <1>6

LEMMA JournalStep == MailboxTypeOK /\ [MailboxNext]_mailboxVars => JournalOK'
<1> SUFFICES ASSUME MailboxTypeOK, [MailboxNext]_mailboxVars PROVE JournalOK'
  OBVIOUS
<1> USE DEF server, round, history, RoundOver
<1>0. ServerOK /\ PollOK /\ JournalOK /\ MaxMishaps \in Nat
  BY MailboxAssumption DEF MailboxTypeOK
<1>1. /\ mishaps < MaxMishaps => mishaps + 1 \in 0 .. MaxMishaps
      /\ Pending \subseteq 1 .. Len(moves)
  BY <1>0 DEF JournalOK, Pending
<1>2. CASE \/ UNCHANGED mailboxVars \/ Start \/ Killed \/ CallFails \/ Poll \/ TakeAsItStands \/ Changes
           \/ StateForgotten \/ Window
  <2>1. CASE Changes
    <3>1. UNCHANGED <<moves, filed, undos, swept>> /\ mishaps' \in 0 .. MaxMishaps
      BY <1>0, <1>1, <2>1 DEF Changes, JournalOK
    <3> QED BY <1>0, <3>1 DEF JournalOK
  <2>2. CASE ~Changes
    BY <1>0, <1>1, <1>2, <2>2 DEF mailboxVars, Start, Killed, CallFails, Poll, TakeAsItStands,
                                  StateForgotten, Window, JournalOK
  <2> QED BY <2>1, <2>2
<1>3. CASE \/ Read \/ Publish \/ Published \/ Commit \/ SweepDue \/ Forget
           \/ \E m \in Mail : Arrive(m) \/ MoveByHand(m)
  BY <1>0, <1>1, <1>3 DEF Read, Publish, Published, Commit, SweepDue, Forget, Arrive, MoveByHand,
                          JournalOK
<1>4. CASE File
  <2>1. filed' \subseteq Moves /\ UNCHANGED <<moves, undos, swept>> /\ mishaps' \in 0 .. MaxMishaps
    BY <1>0, <1>1, <1>4, FileParts, WantedType DEF JournalOK
  <2> QED BY <1>0, <2>1 DEF JournalOK
<1>5. CASE ReportMoves
  <2>1. moves' \in Seq(Moves) /\ Len(moves') <= MaxMoves /\ Len(moves) <= Len(moves')
    BY <1>0, <1>5, RecordedType DEF ReportMoves, JournalOK
  <2>2. filed' \subseteq filed /\ mishaps' \in 0 .. MaxMishaps /\ UNCHANGED <<undos, swept>>
    BY <1>0, <1>1, <1>5 DEF ReportMoves, JournalOK
  <2>3. undos' \subseteq 1 .. Len(moves')
    BY <1>0, <2>1, <2>2 DEF JournalOK
  <2> QED BY <1>0, <2>1, <2>2, <2>3 DEF JournalOK
<1>6. ASSUME NEW i \in 1 .. Len(moves), AskUndo(i)
      PROVE  JournalOK'
  <2>1. moves' = [moves EXCEPT ![i].asked = TRUE] /\ UNCHANGED <<filed, undos, swept, mishaps>>
    BY <1>6 DEF AskUndo
  <2>2. moves' \in Seq(Moves) /\ Len(moves') = Len(moves)
    BY <1>0, <2>1, AskedRow DEF JournalOK
  <2> QED BY <1>0, <2>1, <2>2 DEF JournalOK
<1> QED BY <1>2, <1>3, <1>4, <1>5, <1>6 DEF MailboxNext, PollStep

LEMMA PollStepType == MailboxTypeOK /\ [MailboxNext]_mailboxVars => PollOK'
<1> SUFFICES ASSUME MailboxTypeOK, [MailboxNext]_mailboxVars PROVE PollOK'
  OBVIOUS
<1> USE DEF server, round, history
<1>0. ServerOK /\ PollOK /\ JournalOK
  BY DEF MailboxTypeOK
<1>1. /\ log \in Seq(Mail) /\ Len(log) \in Nat /\ Len(log) \in 0 .. Len(log) /\ 0 \in 0 .. Len(log)
      /\ disk.state \in 0 .. Len(log) /\ disk.last \in 0 .. Len(log)
      /\ disk.read \subseteq Mail /\ next.read \subseteq Mail
  BY <1>0 DEF ServerOK, PollOK, MailStates
<1>2. NoState \in MailStates
  BY <1>1 DEF NoState, MailStates
<1>3. \A k \in 0 .. Len(log) : Arrived(k) \subseteq Mail
  <2> TAKE k \in 0 .. Len(log)
  <2>1. k <= k
    OBVIOUS
  <2> QED BY <1>1, <2>1, AfterLess DEF Arrived
<1>4. ASSUME log' = log
      PROVE  MailStates' = MailStates
  BY <1>4 DEF MailStates
<1>5. CASE UNCHANGED mailboxVars \/ Start \/ Poll \/ Published \/ SweepDue
  BY <1>0, <1>4, <1>5 DEF mailboxVars, Start, Poll, Published, SweepDue, PollOK, Positions
<1>6. CASE Killed \/ CallFails \/ Commit
  <2>1. MailStates' = MailStates
    BY <1>4, <1>6 DEF Killed, CallFails, Commit
  <2>2. redone' \subseteq Mail /\ disk' \in {disk, next} /\ at' \in Positions
        /\ UNCHANGED <<bus, unsaid, ahead, rest>>
    BY <1>0, <1>1, <1>6 DEF Killed, CallFails, Commit, PollOK, Positions
  <2>3. RoundOver
    BY <1>6 DEF Killed, CallFails, Commit
  <2> QED BY <1>0, <1>2, <2>1, <2>2, <2>3 DEF RoundOver, PollOK
<1>7. CASE TakeAsItStands
  <2>1. next' \in MailStates /\ MailStates' = MailStates
    BY <1>1, <1>4, <1>7 DEF TakeAsItStands, MailStates
  <2> QED BY <1>0, <1>7, <2>1 DEF TakeAsItStands, PollOK, Positions
<1>8. CASE Changes \/ StateForgotten
  <2>1. next' \in MailStates /\ MailStates' = MailStates
    <3>1. PICK end \in 0 .. Len(log) : next' = [disk EXCEPT !.state = end, !.last = Len(log)]
      <4>1. disk.state .. Len(log) \subseteq 0 .. Len(log)
        BY <1>1
      <4> QED BY <1>1, <1>8, <4>1 DEF Changes, StateForgotten
    <3>2. log' = log /\ disk \in MailStates
      BY <1>0, <1>8 DEF Changes, StateForgotten, PollOK
    <3> QED BY <1>1, <1>4, <3>1, <3>2 DEF MailStates
  <2>2. found' \subseteq Mail /\ rest' \subseteq Mail
    BY <1>0, <1>1, <1>3, <1>8 DEF Changes, StateForgotten, PollOK
  <2>3. at' \in Positions /\ UNCHANGED <<disk, envelopes, triaged, bus, unsaid, redone, ahead>>
    BY <1>8 DEF Changes, StateForgotten, Positions
  <2> QED BY <1>0, <2>1, <2>2, <2>3 DEF PollOK
<1>9. CASE Window
  <2>1. found' \subseteq Mail /\ ahead' \subseteq Mail
    BY <1>0, <1>9 DEF Window, PollOK, In
  <2>2. MailStates' = MailStates
    BY <1>4, <1>9 DEF Window
  <2> QED BY <1>0, <1>9, <2>1, <2>2 DEF Window, PollOK, Positions
<1>10. CASE Read
  <2>1. next' \in MailStates /\ MailStates' = MailStates
    <3>1. PICK read \in SUBSET Mail : next' = [next EXCEPT !.read = @ \cup read]
      BY <1>10 DEF Read, In
    <3>2. log' = log /\ next \in MailStates
      BY <1>0, <1>10 DEF Read, PollOK
    <3> QED BY <1>4, <3>1, <3>2 DEF MailStates
  <2>2. triaged' \subseteq Mail /\ envelopes' \subseteq Mail
    BY <1>10, MailboxAssumption DEF Read, In
  <2> QED BY <1>0, <1>10, <2>1, <2>2 DEF Read, PollOK, Positions
<1>11. CASE File
  <2>1. MailStates' = MailStates
    BY <1>4, <1>11, FileParts
  <2> QED BY <1>0, <1>11, <2>1, FileParts DEF PollOK, Positions
<1>12. CASE ReportMoves
  <2>1. MailStates' = MailStates
    BY <1>4, <1>12 DEF ReportMoves
  <2> QED BY <1>0, <1>12, <2>1 DEF ReportMoves, PollOK, Positions
<1>13. CASE Publish
  <2>1. bus' \in [Mail -> 0 .. 2]
    BY <1>0, <1>13 DEF Publish, PollOK
  <2>2. envelopes' \subseteq Mail /\ unsaid' \subseteq Mail /\ MailStates' = MailStates
    BY <1>0, <1>4, <1>13 DEF Publish, PollOK
  <2> QED BY <1>0, <1>13, <2>1, <2>2 DEF Publish, PollOK
<1>14. ASSUME NEW m \in Mail, Arrive(m)
       PROVE  PollOK'
  <2>1. Len(log') = Len(log) + 1
    BY <1>1, <1>14 DEF Arrive
  <2>2. 0 .. Len(log) \subseteq 0 .. Len(log')
    BY <1>1, <2>1
  <2>3. MailStates \subseteq MailStates'
    BY <2>2 DEF MailStates
  <2>4. UNCHANGED <<disk, next, at, found, envelopes, triaged, bus, unsaid, redone, ahead, rest>>
    BY <1>14 DEF Arrive
  <2> QED BY <1>0, <2>3, <2>4 DEF PollOK
<1>15. CASE Forget \/ (\E m \in Mail : MoveByHand(m)) \/ \E i \in 1 .. Len(moves) : AskUndo(i)
  <2>1. UNCHANGED <<log, disk, next, at, found, envelopes, triaged, bus, unsaid, redone, ahead, rest>>
    BY <1>15 DEF Forget, MoveByHand, AskUndo
  <2> QED BY <1>0, <1>4, <2>1 DEF PollOK
<1> QED BY <1>5, <1>6, <1>7, <1>8, <1>9, <1>10, <1>11, <1>12, <1>13, <1>14, <1>15 DEF MailboxNext, PollStep

LEMMA MailboxTypeStep == MailboxTypeOK /\ [MailboxNext]_mailboxVars => MailboxTypeOK'
BY ServerStep, PollStepType, JournalStep DEF MailboxTypeOK

-----------------------------------------------------------------------------
(* Where the mails are.                                                      *)

Late == {"file", "report", "publish", "commit"}

\* A mail is unborn until it arrives; only the owner, an undo or a rule takes
\* it out of the INBOX; and only what arrived is filed.
BoxInv ==
  /\ \A m \in Mail : where[m] = "unborn" <=> m \notin Arrived(0)
  /\ \A m \in Mail \ (Ruled \cup Aged \cup touched) : where[m] \in {"unborn", "inbox"}
  /\ triaged \subseteq (Ruled \cup Aged) \cap Arrived(0)
  /\ \A i \in 1 .. Len(moves) : moves[i].mail \in Arrived(0)
  /\ \A f \in filed : f.mail \in Arrived(0)

\* What the round holds, by where the poll is.
RoundInv ==
  /\ ~disk.held => disk.read = {}
  /\ found \cup next.read \cup disk.read \subseteq Arrived(0)
  /\ IF at \in {"off", "idle", "changes"} THEN next.read = {} ELSE next.held
  /\ at \in {"window", "read"} => next.read = disk.read
  /\ at \in Late => disk.read \subseteq next.read
  /\ at \notin {"file", "report", "publish"} => envelopes = {}
  /\ envelopes \subseteq next.read

\* The states a round holds are ones the log has.
LEMMA StatesFit ==
  ASSUME MailboxTypeOK
  PROVE  /\ log \in Seq(Mail) /\ Len(log) \in Nat /\ 0 \in 0 .. Len(log) /\ Len(log) \in 0 .. Len(log)
         /\ disk.state \in 0 .. Len(log) /\ disk.last \in 0 .. Len(log)
         /\ disk.read \subseteq Mail /\ disk.held \in BOOLEAN
         /\ next.state \in 0 .. Len(log) /\ next.read \subseteq Mail
         /\ NoState.read = {} /\ ~NoState.held
         /\ \A k \in 0 .. Len(log) : After(log, k) \subseteq After(log, 0) /\ After(log, k) \subseteq Mail
<1>1. /\ log \in Seq(Mail) /\ Len(log) \in Nat /\ 0 \in 0 .. Len(log) /\ Len(log) \in 0 .. Len(log)
      /\ disk.state \in 0 .. Len(log) /\ disk.last \in 0 .. Len(log)
      /\ disk.read \subseteq Mail /\ disk.held \in BOOLEAN
      /\ next.state \in 0 .. Len(log) /\ next.read \subseteq Mail
  BY DEF MailboxTypeOK, ServerOK, PollOK, MailStates
<1>2. \A k \in 0 .. Len(log) : After(log, k) \subseteq After(log, 0) /\ After(log, k) \subseteq Mail
  <2> TAKE k \in 0 .. Len(log)
  <2>1. 0 <= k /\ k <= k
    BY <1>1
  <2> QED BY <1>1, <2>1, AfterLess
<1> QED BY <1>1, <1>2 DEF NoState

\* Nothing of the server's and the journal's side moves.
LEMMA BoxKept ==
  ASSUME BoxInv, UNCHANGED <<log, where, moves>>, touched \subseteq touched',
         triaged' \subseteq triaged, filed' \subseteq filed
  PROVE  BoxInv'
BY DEF BoxInv, Arrived

LEMMA BoxStep == MailboxTypeOK /\ BoxInv /\ [MailboxNext]_mailboxVars => BoxInv'
<1> SUFFICES ASSUME MailboxTypeOK, BoxInv, [MailboxNext]_mailboxVars PROVE BoxInv'
  OBVIOUS
<1> USE DEF server, round, history
<1>0. ServerOK /\ PollOK /\ JournalOK
  BY DEF MailboxTypeOK
<1>1. CASE \/ UNCHANGED mailboxVars \/ Start \/ Killed \/ CallFails \/ Poll \/ TakeAsItStands \/ Changes
           \/ StateForgotten \/ Window \/ Publish \/ Published \/ Commit \/ SweepDue \/ Forget
  <2>1. UNCHANGED <<log, where, moves>> /\ touched \subseteq touched'
        /\ triaged' \subseteq triaged /\ filed' \subseteq filed
    BY <1>1 DEF mailboxVars, Start, Killed, CallFails, Poll, TakeAsItStands, Changes, StateForgotten,
                Window, Publish, Published, Commit, SweepDue, Forget, RoundOver
  <2> QED BY <2>1, BoxKept
<1>2. CASE Read
  <2>1. \A m \in In("inbox") : m \in Arrived(0)
    BY <1>0 DEF BoxInv, In
  <2>2. triaged' \subseteq (Ruled \cup Aged) \cap In("inbox")
    BY <1>2 DEF Read
  <2>3. UNCHANGED <<log, where, moves, touched, filed>>
    BY <1>2 DEF Read
  <2> QED BY <2>1, <2>2, <2>3 DEF BoxInv, Arrived
<1>3. CASE File
  <2>1. UNCHANGED <<log, moves>> /\ triaged' = {} /\ touched \subseteq touched'
    BY <1>3, FileParts
  <2>2. CASE UNCHANGED <<filed, where, touched>>
    BY <2>1, <2>2, BoxKept
  <2>3. CASE filed' = Taken /\ Filing(Taken) /\ touched' = touched \cup (Back \ In("gone"))
    <3>1. /\ \A f \in Taken : f \in Wanted /\ where[f.mail] # "gone"
          /\ \A f \in Wanted : \/ f.undoes \in undos /\ f.mail \in Back
                               \/ f.undoes = 0 /\ f.mail \in triaged
      BY DEF Taken, Wanted, Back
    <3>2. Back \subseteq Arrived(0) /\ Back \subseteq Mail
      BY <1>0, WantedType DEF Back, BoxInv, JournalOK
    <3>3. \A f \in Taken : f.mail \in Arrived(0) /\ f.mail \in Mail
      BY <1>0, <3>1, <3>2 DEF BoxInv, PollOK
    <3>4. \A m \in Mail : /\ m \notin Arrived(0) => where'[m] = where[m]
                          /\ m \in Arrived(0) => where'[m] # "unborn"
      BY <2>3, <3>3 DEF Filing, BoxInv
    <3>5. \A m \in Mail \ (Ruled \cup Aged \cup touched') : where'[m] = where[m]
      <4> TAKE m \in Mail \ (Ruled \cup Aged \cup touched')
      <4>1. ~ \E f \in Taken : f.mail = m
        <5> SUFFICES ASSUME NEW f \in Taken, f.mail = m PROVE FALSE
          OBVIOUS
        <5>1. CASE f.mail \in Back
          BY <2>3, <3>1, <3>2, <5>1 DEF In
        <5>2. CASE f.mail \in triaged
          BY <5>2 DEF BoxInv
        <5> QED BY <3>1, <5>1, <5>2
      <4> QED BY <2>3, <4>1 DEF Filing
    <3>6. \A m \in Mail : where'[m] = "unborn" <=> m \notin Arrived(0)
      BY <3>4 DEF BoxInv
    <3>7. \A m \in Mail \ (Ruled \cup Aged \cup touched') : where'[m] \in {"unborn", "inbox"}
      BY <2>1, <3>5 DEF BoxInv
    <3>8. filed' = Taken
      BY <2>3
    <3> QED BY <2>1, <3>3, <3>6, <3>7, <3>8 DEF BoxInv, Arrived
  <2> QED BY <1>3, <2>2, <2>3, FileParts
<1>4. CASE ReportMoves
  <2>1. UNCHANGED <<log, where, touched, triaged>> /\ filed' \subseteq filed
    BY <1>4 DEF ReportMoves
  <2>2. CASE UNCHANGED moves
    BY <2>1, <2>2, BoxKept
  <2>3. ASSUME NEW f \in filed, Recorded(f) PROVE BoxInv'
    <3>1. \A j \in 1 .. Len(moves') :
            moves'[j].mail = f.mail \/ (j \in 1 .. Len(moves) /\ moves'[j].mail = moves[j].mail)
      BY <1>0, <2>3, RecordedType
    <3>2. \A j \in 1 .. Len(moves') : moves'[j].mail \in Arrived(0)
      BY <3>1 DEF BoxInv
    <3> QED BY <2>1, <3>2 DEF BoxInv, Arrived
  <2> QED BY <1>4, <2>2, <2>3 DEF ReportMoves
<1>5. ASSUME NEW m \in Mail, Arrive(m)
      PROVE  BoxInv'
  <2>1. log' = Append(log, m) /\ where' = [where EXCEPT ![m] = "inbox"]
        /\ UNCHANGED <<touched, triaged, moves, filed>>
    BY <1>5 DEF Arrive
  <2>2. After(log', 0) = After(log, 0) \cup {m}
    BY <2>1, AfterOneMore, StatesFit
  <2>3. \A n \in Mail : where'[n] = IF n = m THEN "inbox" ELSE where[n]
    BY <1>0, <2>1 DEF ServerOK
  <2> QED BY <2>1, <2>2, <2>3 DEF BoxInv, Arrived
<1>6. ASSUME NEW m \in Mail, MoveByHand(m)
      PROVE  BoxInv'
  <2>1. where[m] # "unborn" /\ touched' = touched \cup {m}
        /\ UNCHANGED <<log, triaged, moves, filed>>
    BY <1>6 DEF MoveByHand
  <2>2. PICK place \in {"inbox", "folder", "gone"} : where' = [where EXCEPT ![m] = place]
    BY <1>6 DEF MoveByHand
  <2>3. \A n \in Mail : where'[n] = IF n = m THEN place ELSE where[n]
    BY <1>0, <2>2 DEF ServerOK
  <2>4. place # "unborn"
    OBVIOUS
  <2> QED BY <2>1, <2>3, <2>4 DEF BoxInv, Arrived
<1>7. ASSUME NEW i \in 1 .. Len(moves), AskUndo(i)
      PROVE  BoxInv'
  <2>1. UNCHANGED <<log, where, touched, triaged, filed>> /\ moves' = [moves EXCEPT ![i].asked = TRUE]
    BY <1>7 DEF AskUndo
  <2>2. Len(moves') = Len(moves) /\ \A j \in 1 .. Len(moves) : moves'[j].mail = moves[j].mail
    BY <1>0, <2>1, AskedRow DEF JournalOK
  <2> QED BY <2>1, <2>2 DEF BoxInv, Arrived
<1> QED BY <1>1, <1>2, <1>3, <1>4, <1>5, <1>6, <1>7 DEF MailboxNext, PollStep

\* The round and the state are as they were, and no mail is fewer.
LEMMA RoundKept ==
  ASSUME MailboxTypeOK, RoundInv, UNCHANGED <<disk, next, found, envelopes, at>>, After(log, 0) \subseteq After(log', 0)
  PROVE  RoundInv'
BY DEF RoundInv, Arrived, Late

LEMMA RoundStep == MailboxTypeOK /\ BoxInv /\ RoundInv /\ [MailboxNext]_mailboxVars => RoundInv'
<1> SUFFICES ASSUME MailboxTypeOK, BoxInv, RoundInv, [MailboxNext]_mailboxVars PROVE RoundInv'
  OBVIOUS
<1> USE DEF server, round, history
<1>0. ServerOK /\ PollOK /\ JournalOK
  BY DEF MailboxTypeOK
<1>1. CASE \/ UNCHANGED mailboxVars \/ SweepDue \/ Forget \/ (\E m \in Mail : MoveByHand(m))
           \/ \E i \in 1 .. Len(moves) : AskUndo(i)
  <2>1. UNCHANGED <<log, disk, next, found, envelopes, at>>
    BY <1>1 DEF mailboxVars, SweepDue, Forget, MoveByHand, AskUndo
  <2> QED BY <2>1, RoundKept
<1>2. ASSUME NEW m \in Mail, Arrive(m)
      PROVE  RoundInv'
  <2>1. UNCHANGED <<disk, next, found, envelopes, at>> /\ log' = Append(log, m)
    BY <1>2 DEF Arrive
  <2>2. After(log, 0) \subseteq After(log', 0)
    BY <2>1, AfterOneMore, StatesFit
  <2> QED BY <2>1, <2>2, RoundKept
<1>3. CASE Start \/ Poll
  BY <1>3 DEF Start, Poll, RoundInv, Arrived, Late
<1>4. CASE Killed \/ CallFails
  <2>1. log' = log /\ disk' = disk /\ at' \in {"off", "idle"} /\ RoundOver
    BY <1>4 DEF Killed, CallFails
  <2>2. next' = NoState /\ found' = {} /\ envelopes' = {} /\ NoState.read = {}
    BY <2>1 DEF RoundOver, NoState
  <2> QED BY <2>1, <2>2 DEF RoundInv, Arrived, Late
<1>5. CASE TakeAsItStands
  <2>1. log' = log /\ disk' = disk /\ at = "changes" /\ at' = "commit" /\ next'.read = {} /\ disk.read = {}
        /\ next'.held
        /\ found' = found /\ envelopes' = envelopes
    BY <1>5 DEF TakeAsItStands, RoundInv
  <2> QED BY <2>1 DEF RoundInv, Arrived, Late
<1>6. CASE Changes
  <2>1. log' = log /\ disk' = disk /\ at = "changes" /\ at' = "read" /\ next'.read = disk.read
        /\ next'.held /\ found' \subseteq After(log, disk.state) /\ envelopes' = envelopes
    BY <1>0, <1>6 DEF Changes, Arrived, PollOK, MailStates
  <2>2. found' \subseteq After(log, 0)
    BY <2>1, StatesFit
  <2> QED BY <2>1, <2>2 DEF RoundInv, Arrived, Late
<1>7. CASE StateForgotten
  <2>1. log' = log /\ disk' = disk /\ at = "changes" /\ at' = "window" /\ next'.read = disk.read
        /\ next'.held /\ found' = found /\ envelopes' = envelopes
    BY <1>0, <1>7 DEF StateForgotten, PollOK, MailStates
  <2> QED BY <2>1 DEF RoundInv, Arrived, Late
<1>8. CASE Window
  <2>1. UNCHANGED <<log, disk, next, envelopes>> /\ at = "window" /\ at' = "read"
    BY <1>8 DEF Window
  <2>2. PICK since \in 0 .. disk.last : found' = (Arrived(since) \cap In("inbox")) \ disk.read
    BY <1>8 DEF Window
  <2>3. since \in 0 .. Len(log)
    BY StatesFit
  <2>4. found' \subseteq After(log, 0)
    BY <2>2, <2>3, StatesFit DEF Arrived
  <2> QED BY <2>1, <2>4 DEF RoundInv, Arrived, Late
<1>9. CASE Read
  <2>1. PICK read \in SUBSET Mail : read = found \cap In("inbox") /\ next' = [next EXCEPT !.read = @ \cup read]
                          /\ envelopes' = read \cap Kept
    BY <1>9 DEF Read, In
  <2>2. next'.read = next.read \cup read /\ next'.held = next.held
    BY <1>0, <2>1 DEF PollOK, MailStates
  <2>3. UNCHANGED <<log, disk>> /\ found' = {} /\ at = "read" /\ at' = "file"
    BY <1>9 DEF Read
  <2> QED BY <2>1, <2>2, <2>3 DEF RoundInv, Arrived, Late
<1>10. CASE File
  <2>1. UNCHANGED <<log, disk, next, found, envelopes>> /\ at = "file" /\ at' = "report"
    BY <1>10, FileParts
  <2> QED BY <2>1 DEF RoundInv, Arrived, Late
<1>11. CASE ReportMoves
  <2>1. UNCHANGED <<log, disk, next, found, envelopes>> /\ at = "report" /\ at' \in {"report", "publish"}
    BY <1>11 DEF ReportMoves
  <2> QED BY <2>1 DEF RoundInv, Arrived, Late
<1>12. CASE Publish \/ Published
  <2>1. UNCHANGED <<log, disk, next, found>> /\ at = "publish" /\ envelopes' \subseteq envelopes
        /\ \/ at' = "publish"
           \/ at' = "commit" /\ envelopes' = {}
    BY <1>12 DEF Publish, Published
  <2> QED BY <2>1 DEF RoundInv, Arrived, Late
<1>13. CASE Commit
  <2>1. UNCHANGED log /\ at = "commit" /\ at' = "idle" /\ disk' \in {disk, next} /\ RoundOver
    BY <1>13 DEF Commit
  <2>2. next' = NoState /\ found' = {} /\ envelopes' = {} /\ NoState.read = {}
    BY <2>1 DEF RoundOver, NoState
  <2>3. ~disk'.held => disk'.read = {}
    BY <1>13, <2>1 DEF Commit, RoundInv
  <2> QED BY <2>1, <2>2, <2>3 DEF RoundInv, Arrived, Late
<1> QED BY <1>1, <1>2, <1>3, <1>4, <1>5, <1>6, <1>7, <1>8, <1>9, <1>10, <1>11, <1>12, <1>13
        DEF MailboxNext, PollStep

-----------------------------------------------------------------------------
(* Nothing is passed over.                                                   *)

\* What the round and the persisted state owe a mail: it is after the state,
\* or on the bus; read, it is on the bus or about to be; what a recovery looks
\* back to is before it; and what the round would write puts the state no
\* further than that.
Accounted(m) ==
  /\ m \in Arrived(disk.state) \/ bus[m] > 0
  /\ m \in disk.read => bus[m] > 0
  /\ m \in next.read => bus[m] > 0 \/ m \in envelopes
  /\ at = "window" => m \in Arrived(disk.last) \/ bus[m] > 0
  /\ at = "read" => m \in Arrived(next.state) \/ bus[m] > 0 \/ m \in found
  /\ at \in Late => m \in Arrived(next.state) \/ bus[m] > 0 \/ m \in envelopes

SaidInv == \A m \in Ours \ (unsaid \cup rest) : Accounted(m)

\* A mail is the state's for no longer than before, save when it arrives.
LEMMA OursLess ==
  ASSUME UNCHANGED log, base \subseteq base', touched \subseteq touched', unsaid \subseteq unsaid',
         rest \subseteq rest', NEW m \in Ours' \ (unsaid' \cup rest')
  PROVE  m \in Ours \ (unsaid \cup rest)
BY DEF Ours, Arrived

LEMMA SaidStep == MailboxTypeOK /\ BoxInv /\ RoundInv /\ SaidInv /\ [MailboxNext]_mailboxVars => SaidInv'
<1> SUFFICES ASSUME MailboxTypeOK, BoxInv, RoundInv, SaidInv, [MailboxNext]_mailboxVars PROVE SaidInv'
  OBVIOUS
<1> USE DEF server, round, history
<1>0. ServerOK /\ PollOK /\ JournalOK
  BY DEF MailboxTypeOK
<1>1. CASE \/ UNCHANGED mailboxVars \/ SweepDue \/ Forget \/ (\E m \in Mail : MoveByHand(m))
           \/ \E i \in 1 .. Len(moves) : AskUndo(i)
  <2>1. /\ UNCHANGED <<log, disk, next, found, envelopes, at, bus, base, unsaid, rest>>
        /\ touched \subseteq touched'
    BY <1>1 DEF mailboxVars, SweepDue, Forget, MoveByHand, AskUndo
  <2>2. ASSUME NEW m \in Ours' \ (unsaid' \cup rest') PROVE Accounted(m)'
    <3>1. Accounted(m)
      BY <2>1, <2>2, OursLess DEF SaidInv
    <3> QED BY <2>1, <3>1 DEF Accounted, Arrived, Late
  <2> QED BY <2>2 DEF SaidInv
<1>2. ASSUME NEW m \in Mail, Arrive(m)
      PROVE  SaidInv'
  <2>1. UNCHANGED <<disk, next, found, envelopes, at, bus, base, unsaid, rest, touched>>
        /\ log' = Append(log, m) /\ where[m] = "unborn"
    BY <1>2 DEF Arrive
  <2>2. \A k \in 0 .. Len(log) : After(log', k) = After(log, k) \cup {m}
    BY <2>1, AfterOneMore, StatesFit
  <2>3. m \notin disk.read /\ m \notin next.read
    BY <2>1 DEF BoxInv, RoundInv
  <2>4. /\ After(log', disk.state) = After(log, disk.state) \cup {m}
        /\ After(log', next.state) = After(log, next.state) \cup {m}
        /\ After(log', disk.last) = After(log, disk.last) \cup {m}
        /\ After(log', 0) = After(log, 0) \cup {m}
    BY <2>2, StatesFit
  <2>5. ASSUME NEW n \in Ours' \ (unsaid' \cup rest') PROVE Accounted(n)'
    <3>1. CASE n = m
      BY <2>1, <2>3, <2>4, <3>1 DEF Accounted, Arrived
    <3>2. CASE n # m
      <4>1. n \in Ours \ (unsaid \cup rest)
        BY <2>1, <2>4, <2>5, <3>2 DEF Ours, Arrived
      <4>2. Accounted(n)
        BY <4>1 DEF SaidInv
      <4> QED BY <2>1, <2>4, <4>2 DEF Accounted, Arrived, Late
    <3> QED BY <3>1, <3>2
  <2> QED BY <2>5 DEF SaidInv
<1>3. CASE Start \/ Poll
  <2>1. UNCHANGED <<log, disk, next, bus, base, unsaid, rest, touched, envelopes>> /\ at' \in {"idle", "changes"}
    BY <1>3 DEF Start, Poll
  <2>2. ASSUME NEW m \in Ours' \ (unsaid' \cup rest') PROVE Accounted(m)'
    <3>1. Accounted(m)
      BY <2>1, <2>2, OursLess DEF SaidInv
    <3> QED BY <2>1, <3>1 DEF Accounted, Arrived, Late
  <2> QED BY <2>2 DEF SaidInv
<1>4. CASE Killed \/ CallFails
  <2>1. UNCHANGED <<log, disk, bus, base, unsaid, rest, touched>> /\ at' \in {"off", "idle"} /\ next'.read = {}
    BY <1>4 DEF Killed, CallFails, RoundOver, NoState
  <2>2. ASSUME NEW m \in Ours' \ (unsaid' \cup rest') PROVE Accounted(m)'
    <3>1. Accounted(m)
      BY <2>1, <2>2, OursLess DEF SaidInv
    <3> QED BY <2>1, <3>1 DEF Accounted, Arrived, Late
  <2> QED BY <2>2 DEF SaidInv
<1>5. CASE TakeAsItStands
  <2>1. Ours' = {}
    BY <1>5 DEF TakeAsItStands, Ours, Arrived
  <2> QED BY <2>1 DEF SaidInv
<1>6. CASE Changes \/ StateForgotten
  <2>1. /\ UNCHANGED <<log, disk, envelopes, bus, base, unsaid, touched>> /\ next'.read = disk.read
        /\ rest \subseteq rest'
        /\ \/ at' = "window" /\ Arrived(disk.state) \subseteq Arrived(disk.last) \cup rest'
           \/ at' = "read" /\ Arrived(disk.state) \subseteq found' \cup Arrived(next'.state)
    <3>1. CASE Changes
      <4>1. PICK end \in disk.state .. Len(log) :
               /\ found' = Arrived(disk.state) \ Arrived(end)
               /\ next' = [disk EXCEPT !.state = end, !.last = Len(log)]
        BY <3>1 DEF Changes
      <4>2. next'.read = disk.read /\ next'.state = end
        BY <1>0, <4>1 DEF PollOK, MailStates
      <4> QED BY <3>1, <4>1, <4>2 DEF Changes
    <3>2. CASE StateForgotten
      <4>1. next'.read = disk.read
        BY <1>0, <3>2 DEF StateForgotten, PollOK, MailStates
      <4> QED BY <3>2, <4>1 DEF StateForgotten
    <3> QED BY <1>6, <3>1, <3>2
  <2>2. ASSUME NEW m \in Ours' \ (unsaid' \cup rest') PROVE Accounted(m)'
    <3>1. Accounted(m)
      BY <2>1, <2>2, OursLess DEF SaidInv
    <3> QED BY <2>1, <2>2, <3>1 DEF Accounted, Arrived, Late
  <2> QED BY <2>2 DEF SaidInv
<1>7. CASE Window
  <2>1. UNCHANGED <<log, where, disk, next, envelopes, bus, base, unsaid, rest, touched>> /\ at = "window" /\ at' = "read"
    BY <1>7 DEF Window
  <2>2. PICK since \in 0 .. disk.last : found' = (Arrived(since) \cap In("inbox")) \ disk.read
    BY <1>7 DEF Window
  <2>3. ASSUME NEW m \in Ours' \ (unsaid' \cup rest') PROVE Accounted(m)'
    <3>1. Accounted(m) /\ m \in Ours
      BY <2>1, <2>3, OursLess DEF SaidInv
    <3>2. m \in Mail /\ where[m] = "inbox"
      BY <3>1, StatesFit DEF Ours, BoxInv, Arrived
    <3>3. since \in 0 .. Len(log) /\ disk.last \in 0 .. Len(log) /\ since <= disk.last
      BY StatesFit
    <3>4. Arrived(disk.last) \subseteq Arrived(since)
      BY <3>3, StatesFit, AfterLess DEF Arrived
    <3>5. bus[m] > 0 \/ m \in found'
      BY <2>1, <2>2, <3>1, <3>2, <3>4 DEF Accounted, In
    <3> QED BY <2>1, <3>1, <3>5 DEF Accounted, Arrived, Late
  <2> QED BY <2>3 DEF SaidInv
<1>8. CASE Read
  <2>1. PICK read \in SUBSET Mail : read = found \cap In("inbox") /\ next' = [next EXCEPT !.read = @ \cup read]
                          /\ envelopes' = read \cap Kept
    BY <1>8 DEF Read, In
  <2>2. next'.read = next.read \cup read /\ next'.state = next.state
    BY <1>0, <2>1 DEF PollOK, MailStates
  <2>3. UNCHANGED <<log, disk, bus, base, unsaid, rest, touched>> /\ at = "read" /\ at' = "file"
    BY <1>8 DEF Read
  <2>4. ASSUME NEW m \in Ours' \ (unsaid' \cup rest') PROVE Accounted(m)'
    <3>1. Accounted(m) /\ m \in Ours
      BY <2>3, <2>4, OursLess DEF SaidInv
    <3>2. m \in Mail /\ where[m] = "inbox" /\ m \in Kept
      BY <3>1, StatesFit DEF Ours, BoxInv, Arrived
    <3>3. m \in found => m \in envelopes' /\ m \in next'.read
      BY <2>1, <2>2, <3>2 DEF In
    <3>4. m \in next'.read => bus[m] > 0 \/ m \in envelopes'
      BY <2>1, <2>2, <2>3, <3>1, <3>2 DEF Accounted, RoundInv
    <3> QED BY <2>2, <2>3, <3>1, <3>3, <3>4 DEF Accounted, Arrived, Late
  <2> QED BY <2>4 DEF SaidInv
<1>9. CASE File \/ ReportMoves
  <2>1. /\ UNCHANGED <<log, disk, next, envelopes, bus, base, unsaid, rest>> /\ touched \subseteq touched'
        /\ at \in Late /\ at' \in Late
    <3>1. CASE File
      BY <3>1, FileParts DEF Late
    <3>2. CASE ReportMoves
      BY <3>2 DEF ReportMoves, Late
    <3> QED BY <1>9, <3>1, <3>2
  <2>2. ASSUME NEW m \in Ours' \ (unsaid' \cup rest') PROVE Accounted(m)'
    <3>1. Accounted(m)
      BY <2>1, <2>2, OursLess DEF SaidInv
    <3> QED BY <2>1, <3>1 DEF Accounted, Arrived, Late
  <2> QED BY <2>2 DEF SaidInv
<1>10. CASE Publish
  <2>1. UNCHANGED <<log, disk, next, base, rest, touched, at>> /\ unsaid \subseteq unsaid' /\ at = "publish"
    BY <1>10 DEF Publish
  <2>2. PICK e \in envelopes :
           /\ envelopes' = envelopes \ {e}
           /\ \/ /\ bus' = [bus EXCEPT ![e] = IF @ < 2 THEN @ + 1 ELSE @]
                 /\ UNCHANGED unsaid
              \/ /\ unsaid' = unsaid \cup {e}
                 /\ UNCHANGED bus
    BY <1>10 DEF Publish
  <2>3. bus \in [Mail -> 0 .. 2] /\ e \in Mail
    BY <1>0 DEF PollOK
  <2>4. /\ \A m \in Mail : bus[m] > 0 => bus'[m] > 0
        /\ bus'[e] > 0 \/ e \in unsaid'
    BY <2>2, <2>3
  <2>5. ASSUME NEW m \in Ours' \ (unsaid' \cup rest') PROVE Accounted(m)'
    <3>1. Accounted(m) /\ m \in Ours
      BY <2>1, <2>5, OursLess DEF SaidInv
    <3>2. m \in Mail
      BY <3>1, StatesFit DEF Ours, Arrived
    <3>3. bus[m] > 0 \/ m \in envelopes => bus'[m] > 0 \/ m \in envelopes'
      BY <2>2, <2>4, <2>5, <3>2
    <3>4. bus[m] > 0 => bus'[m] > 0
      BY <2>4, <3>2
    <3> QED BY <2>1, <3>1, <3>3, <3>4 DEF Accounted, Arrived, Late
  <2> QED BY <2>5 DEF SaidInv
<1>11. CASE Published
  <2>1. UNCHANGED <<log, disk, next, envelopes, bus, base, unsaid, rest, touched>> /\ at = "publish" /\ at' = "commit"
    BY <1>11 DEF Published
  <2>2. ASSUME NEW m \in Ours' \ (unsaid' \cup rest') PROVE Accounted(m)'
    <3>1. Accounted(m)
      BY <2>1, <2>2, OursLess DEF SaidInv
    <3> QED BY <2>1, <3>1 DEF Accounted, Arrived, Late
  <2> QED BY <2>2 DEF SaidInv
<1>12. CASE Commit
  <2>1. /\ UNCHANGED <<log, bus, base, unsaid, rest, touched>> /\ at = "commit" /\ at' = "idle"
        /\ disk' \in {disk, next} /\ next'.read = {}
    BY <1>12 DEF Commit, RoundOver, NoState
  <2>2. envelopes = {}
    BY <2>1 DEF RoundInv
  <2>3. ASSUME NEW m \in Ours' \ (unsaid' \cup rest') PROVE Accounted(m)'
    <3>1. Accounted(m)
      BY <2>1, <2>3, OursLess DEF SaidInv
    <3>2. /\ m \in Arrived(next.state) \/ bus[m] > 0
          /\ m \in next.read => bus[m] > 0
      BY <2>1, <2>2, <3>1 DEF Accounted, Late
    <3> QED BY <2>1, <3>1, <3>2 DEF Accounted, Arrived, Late
  <2> QED BY <2>3 DEF SaidInv
<1> QED BY <1>1, <1>2, <1>3, <1>4, <1>5, <1>6, <1>7, <1>8, <1>9, <1>10, <1>11, <1>12
        DEF MailboxNext, PollStep
-----------------------------------------------------------------------------
(* Nothing is published twice without need.                                  *)

\* A published mail was read, and what the round is about to read or publish
\* again, a lost round had read, or a window ahead of its state.
Again == redone \cup ahead

Once(m) ==
  /\ bus[m] > 1 => m \in Again
  /\ bus[m] > 0 =>
       /\ m \in disk.read \cup next.read \cup Again
       /\ m \in envelopes => m \in Again
       /\ at = "read" /\ m \in found => m \in Again
  /\ m \in disk.read \cap Arrived(disk.state) => m \in Again
  /\ m \in next.read \cap Arrived(next.state) => m \in Again
  /\ at = "read" /\ m \in found \cap Arrived(next.state) => m \in Again

OnceInv == \A m \in Mail : Once(m)

LEMMA OnceStep == MailboxTypeOK /\ BoxInv /\ RoundInv /\ OnceInv /\ [MailboxNext]_mailboxVars => OnceInv'
<1> SUFFICES ASSUME MailboxTypeOK, BoxInv, RoundInv, OnceInv, [MailboxNext]_mailboxVars, NEW m \in Mail PROVE Once(m)'
  BY DEF OnceInv
<1> USE DEF server, round, history
<1>0. ServerOK /\ PollOK /\ JournalOK /\ Once(m)
  BY DEF MailboxTypeOK, OnceInv
<1>1. CASE \/ UNCHANGED mailboxVars \/ SweepDue \/ Forget \/ (\E n \in Mail : MoveByHand(n))
           \/ \E i \in 1 .. Len(moves) : AskUndo(i)
  <2>1. UNCHANGED <<log, disk, next, found, envelopes, at, bus, redone, ahead>>
    BY <1>1 DEF mailboxVars, SweepDue, Forget, MoveByHand, AskUndo
  <2> QED BY <1>0, <2>1 DEF Once, Again, Arrived
<1>2. ASSUME NEW n \in Mail, Arrive(n)
      PROVE  Once(m)'
  <2>1. UNCHANGED <<disk, next, found, envelopes, at, bus, redone, ahead>>
        /\ log' = Append(log, n) /\ where[n] = "unborn"
    BY <1>2 DEF Arrive
  <2>2. n \notin disk.read /\ n \notin next.read /\ n \notin found
    BY <2>1 DEF BoxInv, RoundInv
  <2>3. /\ After(log', disk.state) = After(log, disk.state) \cup {n}
        /\ After(log', next.state) = After(log, next.state) \cup {n}
    BY <2>1, AfterOneMore, StatesFit
  <2> QED BY <1>0, <2>1, <2>2, <2>3 DEF Once, Again, Arrived
<1>3. CASE Start \/ Poll
  <2>1. UNCHANGED <<log, disk, next, found, envelopes, bus, redone, ahead>> /\ at' \in {"idle", "changes"}
    BY <1>3 DEF Start, Poll
  <2> QED BY <1>0, <2>1 DEF Once, Again, Arrived
<1>4. CASE Killed \/ CallFails
  <2>1. UNCHANGED <<log, disk, bus, ahead>> /\ at' \in {"off", "idle"} /\ next'.read = {} /\ envelopes' = {}
        /\ redone' \in {redone, redone \cup (next.read \ disk.read)}
    BY <1>4 DEF Killed, CallFails, RoundOver, NoState
  <2>2. m \in next.read => m \in disk.read \/ m \in redone'
    <3>1. CASE Killed
      BY <3>1 DEF Killed
    <3>2. CASE CallFails
      BY <3>2 DEF CallFails, RoundInv
    <3> QED BY <1>4, <3>1, <3>2
  <2> QED BY <1>0, <2>1, <2>2 DEF Once, Again, Arrived
<1>5. CASE TakeAsItStands
  <2>1. UNCHANGED <<log, disk, bus, found, envelopes, redone, ahead>> /\ at' = "commit" /\ next'.read = {} /\ next.read = {}
    BY <1>5 DEF TakeAsItStands, RoundInv
  <2> QED BY <1>0, <2>1 DEF Once, Again, Arrived
<1>6. CASE Changes
  <2>1. PICK end \in disk.state .. Len(log) :
           /\ found' = Arrived(disk.state) \ Arrived(end)
           /\ next' = [disk EXCEPT !.state = end, !.last = Len(log)]
    BY <1>6 DEF Changes
  <2>2. /\ UNCHANGED <<log, disk, envelopes, bus, redone, ahead>> /\ at = "changes" /\ at' = "read"
        /\ next'.read = disk.read /\ next'.state = end /\ next.read = {}
    BY <1>0, <1>6, <2>1 DEF Changes, PollOK, MailStates, RoundInv
  <2>3. end \in 0 .. Len(log) /\ disk.state \in 0 .. Len(log) /\ disk.state <= end
    BY StatesFit
  <2>4. Arrived(end) \subseteq Arrived(disk.state)
    BY <2>3, StatesFit, AfterLess DEF Arrived
  <2>5. envelopes = {}
    BY <2>2 DEF RoundInv
  <2> QED BY <1>0, <2>1, <2>2, <2>4, <2>5 DEF Once, Again, Arrived
<1>7. CASE StateForgotten
  <2>1. /\ UNCHANGED <<log, disk, envelopes, bus, redone, ahead>> /\ next'.read = disk.read
        /\ next'.state = Len(log) /\ at' = "window" /\ next.read = {}
    BY <1>0, <1>7 DEF StateForgotten, PollOK, MailStates, RoundInv
  <2>2. After(log, Len(log)) = {}
    BY StatesFit, AfterAll
  <2> QED BY <1>0, <2>1, <2>2 DEF Once, Again, Arrived
<1>8. CASE Window
  <2>1. /\ UNCHANGED <<log, disk, next, envelopes, bus, redone>> /\ at' = "read" /\ next.read = disk.read
        /\ found' \cap disk.read = {} /\ ahead' = ahead \cup (found' \cap Arrived(next.state))
    BY <1>8 DEF Window, RoundInv
  <2> QED BY <1>0, <2>1 DEF Once, Again, Arrived
<1>9. CASE Read
  <2>1. PICK read \in SUBSET Mail : read = found \cap In("inbox") /\ next' = [next EXCEPT !.read = @ \cup read]
                          /\ envelopes' = read \cap Kept
    BY <1>9 DEF Read, In
  <2>2. next'.read = next.read \cup read /\ next'.state = next.state /\ read \subseteq found /\ envelopes' \subseteq found
    BY <1>0, <2>1 DEF PollOK, MailStates
  <2>3. UNCHANGED <<log, disk, bus, redone, ahead>> /\ at = "read" /\ at' = "file"
    BY <1>9 DEF Read
  <2> QED BY <1>0, <2>2, <2>3 DEF Once, Again, Arrived
<1>10. CASE File \/ ReportMoves \/ Published
  <2>1. UNCHANGED <<log, disk, next, envelopes, bus, redone, ahead>> /\ at' \in Late
    BY <1>10, FileParts DEF ReportMoves, Published, Late
  <2> QED BY <1>0, <2>1 DEF Once, Again, Arrived, Late
<1>11. CASE Publish
  <2>1. UNCHANGED <<log, disk, next, at, redone, ahead>> /\ at = "publish"
    BY <1>11 DEF Publish
  <2>2. PICK e \in envelopes :
           /\ envelopes' = envelopes \ {e}
           /\ \/ bus' = [bus EXCEPT ![e] = IF @ < 2 THEN @ + 1 ELSE @]
              \/ UNCHANGED bus
    BY <1>11 DEF Publish
  <2>3. bus \in [Mail -> 0 .. 2] /\ e \in Mail /\ e \in next.read
    BY <1>0 DEF PollOK, RoundInv
  <2>4. /\ m # e => bus'[m] = bus[m]
        /\ bus'[e] > 1 => bus[e] > 0
    BY <2>2, <2>3
  <2>5. CASE m = e
    BY <1>0, <2>1, <2>2, <2>3, <2>4, <2>5 DEF Once, Again, Arrived
  <2>6. CASE m # e
    BY <1>0, <2>1, <2>2, <2>4, <2>6 DEF Once, Again, Arrived
  <2> QED BY <2>5, <2>6
<1>12. CASE Commit
  <2>1. /\ UNCHANGED <<log, bus, ahead>> /\ at' = "idle" /\ next'.read = {} /\ envelopes' = {} /\ disk.read \subseteq next.read
        /\ \/ disk' = next /\ redone' = redone
           \/ disk' = disk /\ redone' = redone \cup (next.read \ disk.read)
    BY <1>12 DEF Commit, RoundOver, NoState, RoundInv, Late
  <2> QED BY <1>0, <2>1 DEF Once, Again, Arrived
<1> QED BY <1>1, <1>2, <1>3, <1>4, <1>5, <1>6, <1>7, <1>8, <1>9, <1>10, <1>11, <1>12
        DEF MailboxNext, PollStep
-----------------------------------------------------------------------------
(* The theorems.                                                             *)

MailboxInv == MailboxTypeOK /\ BoxInv /\ RoundInv /\ SaidInv /\ OnceInv

LEMMA MailboxStart == MailboxInit => MailboxInv
<1> SUFFICES ASSUME MailboxInit PROVE MailboxInv
  OBVIOUS
<1>1. MailboxTypeOK
  BY MailboxTypeInit
<1>2. Len(log) = 0 /\ Len(moves) = 0
  BY DEF MailboxInit
<1>3. After(log, 0) = {}
  BY <1>1, <1>2, AfterAll, StatesFit
<1>4. Ours = {}
  BY <1>3 DEF Ours, Arrived
<1> QED BY <1>1, <1>2, <1>3, <1>4
        DEF MailboxInit, MailboxInv, BoxInv, RoundInv, SaidInv, OnceInv, Once, Again, Arrived, NoState, Late

LEMMA MailboxStep == MailboxInv /\ [MailboxNext]_mailboxVars => MailboxInv'
BY MailboxTypeStep, BoxStep, RoundStep, SaidStep, OnceStep DEF MailboxInv

LEMMA MailboxAlways == MailboxSpec => []MailboxInv
BY MailboxStart, MailboxStep, PTL DEF MailboxSpec

\* What a mailbox's poll holds is what a poll can hold: no state it would
\* write is past the log, and no undo it read is a row the journal has not.
THEOREM MailboxTypeCorrect == MailboxSpec => []MailboxTypeOK
<1>1. MailboxInv => MailboxTypeOK
  BY DEF MailboxInv
<1> QED BY <1>1, MailboxAlways, PTL

\* EachMailOnce: whichever calls fail, wherever a page of changes ends and the
\* process dies, no mail is skipped but one still to be paged when the server
\* forgot the state, and none is published twice but what a lost round or a
\* recovery's window had read (mails.rs: the state moves only after the events).
THEOREM EveryMailOnce == MailboxSpec => []EachMailOnce
<1>1. MailboxInv => EachMailOnce
  BY DEF MailboxInv, EachMailOnce, NothingPassedOver, PublishedOnce, SaidInv, Accounted, OnceInv, Once, Again
<1> QED BY <1>1, MailboxAlways, PTL
=============================================================================
