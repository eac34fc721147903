---------------------------- MODULE SensorProofs ----------------------------
(* Proofs about the Sensor.  ReplyDelivery, its way out: for any replies, any *)
(* number of devices handed over and revoked, and any number of lost         *)
(* answers, crashes and redeliveries.  Inbound, its way in: for any rooms,   *)
(* contacts, marks and registries, and any number of messages, decisions,    *)
(* failures and restarts.                                                    *)
EXTENDS ReplyDelivery, Inbound, TLAPS, FiniteSetTheorems, SequenceTheorems

-----------------------------------------------------------------------------
(* Types.                                                                    *)

\* How far the loop has come with a message fits the kind of its reply: only a
\* postable reply is posted, and another component's is never dead-lettered.
JobFits ==
  job # Idle =>
    /\ job.stage \in {"posting", "posted"} => job.reply \in Postable
    /\ job.stage = "another's" => job.reply \in Others
    /\ job.stage = "undeliverable" => job.reply \notin Others

\* What the bus may hold in flight.
Messages == [reply : Replies, delivered : 1..MaxAttempts]

\* A reply handed over carries a delivery count within its bounds.
LEMMA HandTyped ==
  ASSUME TypeOK, NEW r \in Replies, Hand(r)
  PROVE  delivered' \in [Replies -> 0..MaxAttempts] /\ inbox' \in Seq(Messages)
<1>1. delivered \in [Replies -> 0..MaxAttempts] /\ MaxAttempts \in Nat \ {0}
  BY AttemptsAssumption DEF TypeOK
<1>2. delivered' \in [Replies -> 0..MaxAttempts] /\ delivered'[r] \in 1..MaxAttempts
  BY <1>1 DEF Hand
<1>3. [reply |-> r, delivered |-> delivered'[r]] \in Messages
  BY <1>2 DEF Messages
<1>4. inbox \in Seq(Messages)
  BY DEF TypeOK, Messages
<1> QED BY <1>2, <1>3, <1>4 DEF Hand

\* The bus's actions keep every type.
LEMMA BusTyped ==
  ASSUME TypeOK, NEW r \in Replies, Deliver(r) \/ Redeliver(r)
  PROVE  TypeOK'
<1>1. delivered' \in [Replies -> 0..MaxAttempts] /\ inbox' \in Seq(Messages)
  BY HandTyped DEF Deliver, Redeliver
<1>2. early' \in 0..MaxEarly
  BY LimitsAssumption DEF Deliver, Redeliver, TypeOK, budgetVars
<1>3. UNCHANGED <<acked, reports, dead, posts, valid, joined, deviceVars, job, faults, stops, revocations>>
  BY DEF Deliver, Redeliver, budgetVars
<1> QED BY <1>1, <1>2, <1>3 DEF TypeOK, Messages, deviceVars

\* So do a handover, a revocation and the device's own syncs.
LEMMA DeviceTyped ==
  ASSUME TypeOK,
         \/ \E d \in Devices : TakeHandover(d) \/ Revoke(d)
         \/ Hold \/ SyncRefused \/ \E r \in Postable : SyncJoins(r)
  PROVE  TypeOK'
<1>1. ASSUME NEW d \in Devices, TakeHandover(d) PROVE TypeOK'
  BY <1>1 DEF TakeHandover, TypeOK, busVars, budgetVars
<1>2. ASSUME NEW d \in Devices, Revoke(d) PROVE TypeOK'
  BY <1>2, LimitsAssumption DEF Revoke, TypeOK, busVars, deviceVars
<1>3. CASE Hold
  BY <1>3 DEF Hold, TypeOK, busVars, budgetVars
<1>4. CASE SyncRefused
  BY <1>4 DEF SyncRefused, TypeOK, busVars, budgetVars
<1>5. ASSUME NEW r \in Postable, SyncJoins(r) PROVE TypeOK'
  <2>1. cell \in Devices
    BY <1>5 DEF SyncJoins, TypeOK
  <2>2. joined' \subseteq Devices \X Postable
    BY <1>5, <2>1 DEF SyncJoins, TypeOK
  <2> QED BY <1>5, <2>2 DEF SyncJoins, TypeOK, busVars, deviceVars, budgetVars
<1> QED BY <1>1, <1>2, <1>3, <1>4, <1>5

\* The message taken from the inbox becomes the job.
LEMMA TakeTyped == ASSUME TypeOK, Take PROVE TypeOK' /\ JobFits'
<1>1. Head(inbox) \in Messages /\ Tail(inbox) \in Seq(Messages)
  <2>1. inbox \in Seq(Messages) /\ inbox # <<>>
    BY DEF Take, TypeOK, Messages
  <2> HIDE DEF Messages
  <2> QED BY <2>1
<1>2. Acting \in {"notConfigured", "credentialGone", "ownersDevice"}
  BY DEF Acting
<1> DEFINE r == Head(inbox).reply
           kind == IF r \in Unusable THEN "undeliverable"
                   ELSE IF r \in Others THEN "another's" ELSE "posting"
<1>3. /\ job' = [stage |-> kind, reply |-> r, delivered |-> Head(inbox).delivered,
                 acting |-> Acting, device |-> cell, reach |-> "none"]
      /\ r \in Replies /\ Head(inbox).delivered \in 1..MaxAttempts
      /\ cell \in {0} \cup Devices
  BY <1>1 DEF Take, TypeOK, Messages
<1>4. job' \in Job
  BY <1>2, <1>3 DEF Job
<1>5. JobFits'
  BY <1>3, KindsAssumption DEF JobFits, Replies
<1> QED BY <1>1, <1>4, <1>5 DEF Take, TypeOK, Messages, busVars, deviceVars, budgetVars

\* What a failure that may pass makes of the job.
LEMMA TryLaterTyped ==
  ASSUME TypeOK, JobFits, job # Idle, job.stage = "posting", TryLater
  PROVE  (job' = Idle \/ job' \in Job) /\ JobFits'
<1>1. job \in Job /\ job.reply \in Postable
  BY DEF TypeOK, JobFits
<1> QED BY <1>1, KindsAssumption DEF TryLater, Job, JobFits

\* What is posted, is posted by the owner's device or by the Sensor.
LEMMA SenderTyped == ASSUME TypeOK, job # Idle PROVE Sender \in {0} \cup Devices
BY DEF Sender, TypeOK, Job

\* A post, however it ends.
LEMMA WorkTyped == ASSUME TypeOK, JobFits, Work PROVE TypeOK' /\ JobFits'
<1>1. job # Idle /\ job \in Job /\ job.stage = "posting" /\ job.reply \in Postable
  BY DEF Work, Attempt, Post, PostUnanswered, PostRefused, PostCredentialGone, TypeOK, JobFits
<1>2. {<<job.reply, Sender>>} \subseteq Postable \X ({0} \cup Devices)
  BY <1>1, SenderTyped
<1>3. ASSUME NEW portal \in SeenAsPortal, Post(portal) PROVE TypeOK' /\ JobFits'
  <2>1. job' \in Job /\ JobFits'
    BY <1>1, <1>3 DEF Post, Reach, Job, JobFits
  <2>2. posts' \subseteq Postable \X ({0} \cup Devices)
    BY <1>2, <1>3 DEF Post, TypeOK
  <2> QED BY <1>3, <2>1, <2>2 DEF Post, TypeOK, busVars, deviceVars, budgetVars
<1>4. ASSUME NEW portal \in SeenAsPortal, PostUnanswered(portal) PROVE TypeOK' /\ JobFits'
  <2>1. (job' = Idle \/ job' \in Job) /\ JobFits'
    BY <1>1, <1>4, TryLaterTyped DEF PostUnanswered
  <2>2. posts' \subseteq Postable \X ({0} \cup Devices) /\ faults' \in 0..MaxFaults
    BY <1>2, <1>4, LimitsAssumption DEF PostUnanswered, TypeOK
  <2> QED BY <1>4, <2>1, <2>2 DEF PostUnanswered, TypeOK, busVars, deviceVars
<1>5. CASE PostRefused
  BY <1>1, <1>5, TryLaterTyped DEF PostRefused, TypeOK, busVars, deviceVars, budgetVars
<1>6. CASE PostCredentialGone
  BY <1>1, <1>6, TryLaterTyped DEF PostCredentialGone, TypeOK, busVars, budgetVars
<1> QED BY <1>3, <1>4, <1>5, <1>6 DEF Work, Attempt

\* The ack, the report and the dead letter end the job.
LEMMA EndTyped ==
  ASSUME TypeOK, JobFits, LeaveToOthers \/ Report \/ DeadLetter
  PROVE  TypeOK' /\ JobFits'
<1>1. job # Idle /\ job \in Job
  BY DEF LeaveToOthers, Report, DeadLetter, TypeOK
<1>2. job' = Idle
  BY DEF LeaveToOthers, Report, DeadLetter
<1>3. acked' \subseteq Replies /\ dead' \subseteq Replies /\ faults' \in 0..MaxFaults
  BY <1>1, LimitsAssumption DEF LeaveToOthers, Report, DeadLetter, Acknowledge, TypeOK, Job
<1>4. reports' \in [Replies -> {"none", "contact", "nobody"}]
  BY <1>1 DEF LeaveToOthers, Report, DeadLetter, TypeOK, Job
<1>5. UNCHANGED <<delivered, posts, valid, joined, deviceVars, inbox, stops, early, revocations>>
  BY DEF LeaveToOthers, Report, DeadLetter
<1> QED BY <1>2, <1>3, <1>4, <1>5 DEF TypeOK, JobFits, deviceVars

\* A rebuilt consumer and a new process start with nothing in hand.
LEMMA RestartTyped ==
  ASSUME TypeOK, JobFits, Rebuild \/ Crash
  PROVE  TypeOK' /\ JobFits'
<1>1. <<>> \in Seq([reply : Replies, delivered : 1..MaxAttempts])
  OBVIOUS
<1>2. CASE Rebuild
  BY <1>1, <1>2, LimitsAssumption DEF Rebuild, TypeOK, JobFits, busVars, deviceVars
<1>3. CASE Crash
  <2>1. cell' \in {0, volume} /\ syncing' \in BOOLEAN /\ gone' \in BOOLEAN
    BY <1>3 DEF Crash
  <2>4. stops' \in 0..MaxStops /\ volume \in {0} \cup Devices
    BY <1>3, LimitsAssumption DEF Crash, TypeOK
  <2>2. inbox' = <<>> /\ job' = Idle /\ handing' = 0
    BY <1>3 DEF Crash
  <2>3. UNCHANGED <<busVars, posts, valid, joined, volume, faults, early, revocations>>
    BY <1>3 DEF Crash
  <2> QED BY <1>1, <2>1, <2>2, <2>3, <2>4 DEF TypeOK, JobFits, busVars
<1> QED BY <1>2, <1>3

\* What is inductive: a type alone does not say that what is posted can be.
IInv == TypeOK /\ JobFits

\* Types and the fit of the job to its reply are inductive.
LEMMA IInvKept == ASSUME IInv, [Next]_vars PROVE IInv'
<1>1. CASE \E r \in Replies : Deliver(r) \/ Redeliver(r)
  BY <1>1, BusTyped DEF IInv, JobFits, Deliver, Redeliver
<1>2. CASE \/ \E d \in Devices : TakeHandover(d) \/ Revoke(d)
           \/ Hold \/ SyncRefused \/ \E r \in Postable : SyncJoins(r)
  <2>1. job' = job
    BY <1>2 DEF TakeHandover, Revoke, Hold, SyncRefused, SyncJoins
  <2> QED BY <1>2, <2>1, DeviceTyped DEF IInv, JobFits
<1>3. CASE Take
  BY <1>3, TakeTyped DEF IInv
<1>4. CASE Work
  BY <1>4, WorkTyped DEF IInv
<1>5. CASE LeaveToOthers \/ Report \/ DeadLetter
  BY <1>5, EndTyped DEF IInv
<1>6. CASE Rebuild \/ Crash
  BY <1>6, RestartTyped DEF IInv
<1>7. CASE UNCHANGED vars
  BY <1>7 DEF IInv, TypeOK, JobFits, vars, busVars, deviceVars, budgetVars
<1> QED BY <1>1, <1>2, <1>3, <1>4, <1>5, <1>6, <1>7 DEF Next, Work

\* The bus has handed nothing over yet, and nothing is in hand.
LEMMA IInvAtFirst == Init => IInv
<1> SUFFICES ASSUME Init PROVE IInv
  OBVIOUS
<1>1. volume \in {0} \cup Devices /\ valid \subseteq Devices
  BY DEF Init
<1>2. inbox \in Seq([reply : Replies, delivered : 1..MaxAttempts])
  BY DEF Init
<1>3. delivered \in [Replies -> 0..MaxAttempts]
  BY AttemptsAssumption DEF Init
<1>4. /\ faults \in 0..MaxFaults /\ stops \in 0..MaxStops
      /\ early \in 0..MaxEarly /\ revocations \in 0..MaxRevocations
  BY LimitsAssumption DEF Init
<1>5. /\ reports \in [Replies -> {"none", "contact", "nobody"}]
      /\ posts = {} /\ joined = {} /\ dead = {} /\ acked = {}
      /\ handing = 0 /\ cell = volume /\ syncing \in BOOLEAN /\ gone = FALSE /\ job = Idle
  BY DEF Init
<1> QED BY <1>1, <1>2, <1>3, <1>4, <1>5 DEF IInv, TypeOK, JobFits

\* Every state the delivery of replies reaches is well typed, for any replies,
\* devices, attempts and faults.
THEOREM TypeCorrect == Spec => []TypeOK
<1>1. IInv => TypeOK
  BY DEF IInv
<1>2. IInv /\ [Next]_vars => IInv'
  BY IInvKept
<1> QED BY <1>1, <1>2, IInvAtFirst, PTL DEF Spec

\* Types and fit as a fact about every behaviour, for the theorems below.
LEMMA Invariantly == Spec => []IInv
<1>1. IInv /\ [Next]_vars => IInv'
  BY IInvKept
<1> QED BY <1>1, IInvAtFirst, PTL DEF Spec

-----------------------------------------------------------------------------
(* Nothing approved disappears.                                              *)

\* Each step stores posts and copies and takes none away, and what it adds, it
\* adds for the reply in hand.
LEMMA PostsAndCopiesStay ==
  ASSUME IInv, Next
  PROVE  /\ posts \subseteq posts' /\ dead \subseteq dead'
         /\ dead' # dead => job.stage = "undeliverable" /\ job # Idle
                            /\ dead' = dead \cup {job.reply}
<1>1. CASE Work
  BY <1>1 DEF Work, Attempt, Post, PostUnanswered, PostRefused, PostCredentialGone, busVars
<1>2. CASE DeadLetter
  BY <1>2 DEF DeadLetter
<1>3. CASE ~Work /\ ~DeadLetter
  <2>1. posts' = posts /\ dead' = dead
    BY <1>3 DEF Next, Work, Deliver, Redeliver, TakeHandover, Revoke, Hold, SyncRefused,
       SyncJoins, Take, LeaveToOthers, Report, Rebuild, Crash, busVars
  <2> QED BY <2>1
<1> QED BY <1>1, <1>2, <1>3

\* A job that has been posted was, and the reach it names is what happened.
Reached(r, reach) ==
  CASE reach = "contact" -> PostedByOwner(r) \/ (r \in Natives /\ PostedBy(r) # {})
    [] reach = "nobody"  -> 0 \in PostedBy(r)
    [] OTHER -> FALSE

PostedIsTrue ==
  job # Idle /\ job.stage = "posted" => Reached(job.reply, job.reach)

\* What reached its contact, or nobody, goes on having done so.
LEMMA ReachedStays ==
  ASSUME posts \subseteq posts', NEW r, NEW reach, Reached(r, reach)
  PROVE  Reached(r, reach)'
<1>1. PostedBy(r) \subseteq PostedBy(r)'
  BY DEF PostedBy
<1>2. PostedBy(r) # {} => PostedBy(r)' # {}
  BY <1>1
<1>3. PostedByOwner(r) => PostedByOwner(r)'
  BY <1>1 DEF PostedByOwner
<1>4. 0 \in PostedBy(r) => 0 \in PostedBy(r)'
  BY <1>1
<1> QED BY <1>2, <1>3, <1>4 DEF Reached

\* An accepted post has reached whom it says.
LEMMA PostReaches ==
  ASSUME IInv, NEW portal \in SeenAsPortal, job # Idle, Post(portal),
         NEW r, r = job.reply, NEW reach, reach = Reach(AsOwner, portal)
  PROVE  Reached(r, reach)'
<1>1. /\ job \in Job /\ Sender \in {0} \cup Devices /\ <<r, Sender>> \in posts'
  BY SenderTyped DEF IInv, TypeOK, Post
<1>2. Sender \in PostedBy(r)'
  BY <1>1 DEF PostedBy
<1>3. CASE AsOwner
  <2>1. Sender = job.device /\ job.device \in Devices /\ reach = "contact"
    BY <1>3 DEF Sender, AsOwner, IInv, TypeOK, Reach
  <2>2. Sender # 0
    BY <2>1, DevicesAssumption DEF Devices
  <2>3. PostedByOwner(r)'
    BY <1>2, <2>2 DEF PostedByOwner
  <2> QED BY <2>1, <2>3 DEF Reached
<1>4. CASE ~AsOwner /\ portal
  <2>1. Sender = 0 /\ reach = "nobody"
    BY <1>4 DEF Sender, Reach
  <2> QED BY <1>2, <2>1 DEF Reached
<1>5. CASE ~AsOwner /\ ~portal
  <2>1. r \in Natives /\ reach = "contact"
    BY <1>5 DEF SeenAsPortal, Reach
  <2> QED BY <1>2, <2>1 DEF Reached
<1> QED BY <1>3, <1>4, <1>5 DEF SeenAsPortal

\* The post in hand stays true until it is reported.
LEMMA PostedIsTrueKept ==
  ASSUME IInv, PostedIsTrue, Next
  PROVE  PostedIsTrue'
<1> SUFFICES ASSUME NEW r, r = job'.reply, NEW reach, reach = job'.reach,
                    job' # Idle, job'.stage = "posted"
             PROVE  Reached(r, reach)'
  BY DEF PostedIsTrue
<1>1. CASE \E portal \in SeenAsPortal : job # Idle /\ Post(portal)
  <2>1. PICK portal \in SeenAsPortal : job # Idle /\ Post(portal)
    BY <1>1
  <2>2. r = job.reply /\ reach = Reach(AsOwner, portal)
    BY <2>1 DEF Post, IInv, TypeOK, Job
  <2> QED BY <2>1, <2>2, PostReaches
<1>2. CASE job' = job
  BY <1>2, PostsAndCopiesStay, ReachedStays DEF PostedIsTrue
<1>3. CASE job' # job /\ ~\E portal \in SeenAsPortal : job # Idle /\ Post(portal)
  <2>1. CASE Take
    BY <2>1 DEF Take
  <2>2. CASE TryLater /\ job # Idle
    BY <2>2 DEF TryLater, IInv, TypeOK, Job
  <2>3. CASE job' = Idle
    BY <2>3
  <2> QED BY <1>3, <2>1, <2>2, <2>3
       DEF Next, Attempt, Deliver, Redeliver, TakeHandover, Revoke, Hold, SyncRefused,
       SyncJoins, PostUnanswered, PostRefused, PostCredentialGone, LeaveToOthers, Report,
       DeadLetter, Rebuild, Crash
<1> QED BY <1>1, <1>2, <1>3

\* A report is stored once, and says what the job in hand says.
LEMMA ReportsAreTrueKept ==
  ASSUME IInv, PostedIsTrue, ReportsAreTrue, Next
  PROVE  ReportsAreTrue'
<1>0. reports' \in [Replies -> {"none", "contact", "nobody"}]
  BY IInvKept DEF IInv, TypeOK
<1> SUFFICES ASSUME NEW r \in Replies, NEW v, v = reports'[r], v # "none"
             PROVE  Reached(r, v)'
  <2>1. \A r \in Replies : reports'[r] # "none" =>
          \/ reports'[r] = "contact" /\ (PostedByOwner(r) \/ (r \in Natives /\ PostedBy(r) # {}))'
          \/ reports'[r] = "nobody" /\ (0 \in PostedBy(r))'
    BY <1>0 DEF Reached
  <2> QED BY <1>0, <2>1 DEF ReportsAreTrue
<1>1. posts \subseteq posts'
  BY PostsAndCopiesStay
<1>2. CASE v = reports[r]
  <2>1. Reached(r, v)
    BY <1>0, <1>2 DEF ReportsAreTrue, Reached
  <2> QED BY <1>1, <2>1, ReachedStays
<1>3. CASE v # reports[r]
  <2>1. Report
    BY <1>3 DEF Next, Attempt, Deliver, Redeliver, TakeHandover, Revoke, Hold, SyncRefused,
       SyncJoins, Take, Post, PostUnanswered, PostRefused, PostCredentialGone, LeaveToOthers,
       DeadLetter, Rebuild, Crash, busVars
  <2>2. r = job.reply /\ v = job.reach /\ job # Idle /\ job.stage = "posted"
    BY <1>3, <2>1 DEF Report, IInv, TypeOK
  <2> QED BY <1>1, <2>2, ReachedStays DEF PostedIsTrue
<1> QED BY <1>2, <1>3

\* What a report says of a reply happened to that reply, whatever was lost,
\* redelivered, revoked or replaced on the way.
THEOREM ReportsSayWhatHappened == Spec => []ReportsAreTrue
<1>1. Init => PostedIsTrue /\ ReportsAreTrue
  BY DEF Init, PostedIsTrue, ReportsAreTrue
<1>2. IInv /\ PostedIsTrue /\ ReportsAreTrue /\ [Next]_vars => (PostedIsTrue /\ ReportsAreTrue)'
  <2>1. ASSUME UNCHANGED vars, PostedIsTrue, ReportsAreTrue PROVE (PostedIsTrue /\ ReportsAreTrue)'
    BY <2>1 DEF vars, busVars, PostedIsTrue, ReportsAreTrue, Reached, PostedByOwner, PostedBy
  <2> QED BY <2>1, PostedIsTrueKept, ReportsAreTrueKept
<1> QED BY <1>1, <1>2, Invariantly, PTL DEF Spec

-----------------------------------------------------------------------------
(* Nothing an owner approved disappears.                                     *)

\* Only what may be given up on has a dead-letter copy.
CopiesFit == dead \cap Others = {}

\* The reply in hand is settled in one of its ways before it is acked.
LEMMA SettledKept ==
  ASSUME IInv, PostedIsTrue, CopiesFit, AckedMeansSettled, Next
  PROVE  (CopiesFit /\ AckedMeansSettled)'
<1>0. /\ posts \subseteq posts' /\ dead \subseteq dead'
      /\ posts' \subseteq Postable \X ({0} \cup Devices)
      /\ acked \subseteq Replies
  BY PostsAndCopiesStay, IInvKept DEF IInv, TypeOK
<1>1. CopiesFit'
  BY PostsAndCopiesStay DEF CopiesFit, IInv, JobFits
<1>2. ASSUME NEW r \in acked', r \in Postable
      PROVE  PostedBy(r)' # {} \/ r \in dead'
  <2>1. CASE r \in acked
    BY <1>0, <1>2, <2>1 DEF AckedMeansSettled, PostedBy
  <2>2. CASE r \notin acked
    <3>1. Report \/ DeadLetter \/ LeaveToOthers
      BY <2>2, <1>2 DEF Next, Attempt, Deliver, Redeliver, TakeHandover, Revoke, Hold,
         SyncRefused, SyncJoins, Take, Post, PostUnanswered, PostRefused, PostCredentialGone,
         Rebuild, Crash, busVars
    <3>2. r = job.reply
      BY <1>2, <2>2, <3>1 DEF Report, DeadLetter, LeaveToOthers, Acknowledge
    <3>3. ~LeaveToOthers
      BY <1>2, <3>2, KindsAssumption DEF LeaveToOthers, IInv, JobFits
    <3>4. CASE Report
      <4>1. PostedBy(r) # {} /\ posts' = posts
        BY <3>2, <3>4 DEF Report, PostedIsTrue, Reached, PostedByOwner
      <4> QED BY <4>1 DEF PostedBy
    <3>5. CASE DeadLetter
      BY <1>2, <2>2, <3>2, <3>5 DEF DeadLetter
    <3> QED BY <3>1, <3>3, <3>4, <3>5
  <2> QED BY <2>1, <2>2
<1>3. ASSUME NEW r \in acked', r \in Unusable
      PROVE  r \in dead'
  <2>1. CASE r \in acked
    BY <1>0, <1>3, <2>1, KindsAssumption DEF AckedMeansSettled
  <2>2. CASE r \notin acked
    <3>1. Report \/ DeadLetter \/ LeaveToOthers
      BY <2>2, <1>3 DEF Next, Attempt, Deliver, Redeliver, TakeHandover, Revoke, Hold,
         SyncRefused, SyncJoins, Take, Post, PostUnanswered, PostRefused, PostCredentialGone,
         Rebuild, Crash, busVars
    <3>2. r = job.reply
      BY <1>3, <2>2, <3>1 DEF Report, DeadLetter, LeaveToOthers, Acknowledge
    <3>3. ~LeaveToOthers /\ ~Report
      BY <1>3, <3>2, KindsAssumption DEF LeaveToOthers, Report, IInv, JobFits
    <3> QED BY <1>3, <2>2, <3>1, <3>2, <3>3 DEF DeadLetter
  <2> QED BY <2>1, <2>2
<1>4. ASSUME NEW r \in Others
      PROVE  r \notin dead' /\ PostedBy(r)' = {}
  BY <1>0, <1>1, <1>4, KindsAssumption DEF CopiesFit, PostedBy
<1>5. acked' \subseteq Postable \cup Unusable \cup Others
  BY IInvKept DEF IInv, TypeOK, Replies
<1>6. AckedMeansSettled'
  <2> SUFFICES ASSUME NEW r \in acked'
               PROVE  CASE r \in Postable -> PostedBy(r)' # {} \/ r \in dead'
                        [] r \in Unusable -> r \in dead'
                        [] OTHER -> r \notin dead' /\ PostedBy(r)' = {}
    BY DEF AckedMeansSettled
  <2> QED BY <1>2, <1>3, <1>4, <1>5, KindsAssumption
<1> QED BY <1>1, <1>6

\* Through any number of lost acks and answers, crashes and redeliveries, an
\* approval the bus is told to forget was accepted by the homeserver, has its
\* dead-letter copy, or was another component's to send.
THEOREM NothingDisappears == Spec => []AckedMeansSettled
<1> DEFINE All == PostedIsTrue /\ CopiesFit /\ AckedMeansSettled
<1>1. Init => All
  BY DEF Init, PostedIsTrue, CopiesFit, AckedMeansSettled
<1>2. IInv /\ All /\ [Next]_vars => All'
  <2>1. ASSUME UNCHANGED vars, All PROVE All'
    BY <2>1 DEF vars, busVars, PostedIsTrue, Reached, PostedByOwner, PostedBy, CopiesFit,
       AckedMeansSettled
  <2> QED BY <2>1, PostedIsTrueKept, SettledKept
<1> HIDE DEF All
<1>3. All => AckedMeansSettled
  BY DEF All
<1> QED BY <1>1, <1>2, <1>3, Invariantly, PTL DEF Spec

-----------------------------------------------------------------------------
(* Disposal.                                                                 *)

\* An accepted post, its answer heard or not, is a reply leaving.
LEMMA PostIsLeaving ==
  ASSUME IInv, NEW portal \in SeenAsPortal, job # Idle, Post(portal) \/ PostUnanswered(portal),
         NEW r, r = job.reply
  PROVE  r \in Replies /\ Sensors!Leave(r)
<1>1. PICK by : by = Sender
  OBVIOUS
<1>2. r \in Postable /\ posts' = posts \cup {<<r, by>>}
  BY <1>1 DEF IInv, JobFits, Post, PostUnanswered
<1>3. r \in Replies
  BY <1>2 DEF Replies
<1>4. by \in PostedBy(r)'
  <2>1. by \in {0} \cup Devices
    BY <1>1, SenderTyped DEF IInv
  <2> QED BY <1>2, <2>1 DEF PostedBy
<1>5. ASSUME NEW q \in Replies, q # r PROVE PostedBy(q)' = PostedBy(q)
  <2>1. \A d : <<q, d>> \in posts' <=> <<q, d>> \in posts
    BY <1>2, <1>5
  <2> QED BY <2>1 DEF PostedBy
<1>6. PostedReplies' = PostedReplies \cup {r}
  <2>1. \A q \in Replies : PostedBy(q)' # {} <=> PostedBy(q) # {} \/ q = r
    BY <1>4, <1>5
  <2> QED BY <1>3, <2>1 DEF PostedReplies
<1>7. reports' = reports /\ dead' = dead /\ acked' = acked
  BY DEF Post, PostUnanswered, busVars
<1> QED BY <1>2, <1>3, <1>6, <1>7 DEF Sensors!Leave

\* The end of a message in hand is one of the three ways to settle a reply, or
\* a copy that is not known to be stored, after which nothing is settled.
LEMMA EndDisposes ==
  ASSUME IInv, PostedIsTrue, LeaveToOthers \/ Report \/ DeadLetter
  PROVE  \/ Sensors!Pass(job.reply) \/ Sensors!Tell(job.reply) \/ Sensors!Keep(job.reply)
         \/ UNCHANGED Sensors!vars
<1>1. job # Idle /\ job \in Job /\ job.reply \in Replies
  BY DEF LeaveToOthers, Report, DeadLetter, IInv, TypeOK, Job
<1>2. posts' = posts /\ PostedReplies' = PostedReplies
  <2>1. posts' = posts
    BY DEF LeaveToOthers, Report, DeadLetter
  <2> QED BY <2>1 DEF PostedReplies, PostedBy
<1>3. CASE LeaveToOthers
  <2>1. job.reply \in Others /\ acked' \in {acked, acked \cup {job.reply}}
    BY <1>1, <1>3 DEF LeaveToOthers, Acknowledge, IInv, JobFits
  <2> QED BY <1>2, <1>3, <2>1 DEF LeaveToOthers, Sensors!Pass, Sensors!Settle
<1>4. CASE Report
  <2>1. job.stage = "posted" /\ job.reply \in PostedReplies
    BY <1>1, <1>4 DEF Report, PostedIsTrue, Reached, PostedByOwner, PostedReplies
  <2>2. job.reach \in {"contact", "nobody"}
    BY <1>1, <2>1 DEF PostedIsTrue, Reached
  <2>3. reports \in [Replies -> {"none", "contact", "nobody"}]
    BY DEF IInv, TypeOK
  <2>4. \/ reports[job.reply] = "none" /\ reports' = [reports EXCEPT ![job.reply] = job.reach]
        \/ reports' = reports
    BY <1>1, <1>4, <2>3 DEF Report
  <2>5. acked' \in {acked, acked \cup {job.reply}} /\ dead' = dead
    BY <1>4 DEF Report, Acknowledge
  <2> QED BY <1>2, <2>1, <2>2, <2>4, <2>5 DEF Sensors!Tell, Sensors!Settle
<1>5. CASE DeadLetter
  <2>1. job.reply \in Replies \ Others
    BY <1>1, <1>5 DEF DeadLetter, IInv, JobFits
  <2>2. /\ reports' = reports
        /\ \/ dead' = dead \cup {job.reply} /\ acked' \in {acked, acked \cup {job.reply}}
           \/ dead' = dead /\ acked' = acked
    BY <1>5 DEF DeadLetter, Acknowledge
  <2> QED BY <1>2, <2>1, <2>2 DEF Sensors!Keep, Sensors!Settle, Sensors!vars
<1> QED BY <1>3, <1>4, <1>5

\* Every other step settles nothing.
LEMMA StepDisposes ==
  ASSUME IInv, PostedIsTrue, [Next]_vars
  PROVE  [Sensors!Next]_(Sensors!vars)
<1>1. CASE \E portal \in SeenAsPortal : job # Idle /\ (Post(portal) \/ PostUnanswered(portal))
  BY <1>1, PostIsLeaving DEF Sensors!Next
<1>2. CASE LeaveToOthers \/ Report \/ DeadLetter
  <2>1. job.reply \in Replies
    BY <1>2 DEF LeaveToOthers, Report, DeadLetter, IInv, TypeOK, Job
  <2> QED BY <1>2, <2>1, EndDisposes DEF Sensors!Next
<1>3. CASE UNCHANGED <<posts, reports, dead, acked>>
  <2>1. PostedReplies' = PostedReplies
    BY <1>3 DEF PostedReplies, PostedBy
  <2> QED BY <1>3, <2>1 DEF Sensors!vars
<1>4. \/ UNCHANGED <<posts, reports, dead, acked>>
      \/ LeaveToOthers \/ Report \/ DeadLetter
      \/ \E portal \in SeenAsPortal : job # Idle /\ (Post(portal) \/ PostUnanswered(portal))
  BY DEF Next, vars, Attempt, Deliver, Redeliver, TakeHandover, Revoke, Hold, SyncRefused,
     SyncJoins, Take, PostRefused, PostCredentialGone, Rebuild, Crash, busVars
<1> QED BY <1>1, <1>2, <1>3, <1>4

\* DisposesOfReplies: the Sensor implements Disposal, whatever is lost, redelivered,
\* revoked or restarted: what it settles left or was kept, what it reports left,
\* a report stands, and nothing is taken back.
THEOREM SensorDisposes == Spec => DisposesOfReplies
<1>1. Init => PostedIsTrue /\ Sensors!Init
  BY DEF Init, PostedIsTrue, PostedReplies, PostedBy, Sensors!Init
<1>2. IInv /\ PostedIsTrue /\ [Next]_vars => PostedIsTrue'
  <2>1. ASSUME UNCHANGED vars, PostedIsTrue PROVE PostedIsTrue'
    BY <2>1 DEF vars, PostedIsTrue, Reached, PostedByOwner, PostedBy
  <2> QED BY <2>1, PostedIsTrueKept
<1>3. IInv /\ PostedIsTrue /\ [Next]_vars => [Sensors!Next]_(Sensors!vars)
  BY StepDisposes
<1> QED BY <1>1, <1>2, <1>3, Invariantly, PTL DEF Spec, DisposesOfReplies, Sensors!Spec

-----------------------------------------------------------------------------
(* No portal hears the Sensor.                                               *)

\* Once the owner's device is held, no job is worked as if there were none.
DeviceHeld ==
  /\ cell # 0 /\ (job # Idle => job.acting # "notConfigured")
  /\ \A r \in Portals : 0 \notin PostedBy(r)

\* Nothing but a restart gives the device up, and a portal waits for it.
LEMMA DeviceHeldKept ==
  ASSUME stops' = 0, IInv, DeviceHeld, Next
  PROVE  DeviceHeld'
<1>1. ~Crash
  BY DEF Crash, IInv, TypeOK
<1>2. cell' # 0
  BY <1>1 DEF Next, Attempt, Deliver, Redeliver, TakeHandover, Revoke, Hold, SyncRefused,
     SyncJoins, Take, Post, PostUnanswered, PostRefused, PostCredentialGone, LeaveToOthers,
     Report, DeadLetter, Rebuild, deviceVars, DeviceHeld
<1>3. job' # Idle => job'.acting # "notConfigured"
  <2>1. CASE Take
    BY <2>1 DEF Take, Acting, DeviceHeld
  <2>2. CASE job # Idle /\ job' # Idle /\ job'.acting = job.acting
    BY <2>2 DEF DeviceHeld
  <2>3. CASE job' = Idle \/ job' = job
    BY <2>3 DEF DeviceHeld
  <2>4. CASE job # Idle /\ (TryLater \/ \E portal \in SeenAsPortal : Post(portal))
    BY <2>2, <2>3, <2>4 DEF TryLater, Post, IInv, TypeOK, Job
  <2> QED BY <1>1, <2>1, <2>3, <2>4
       DEF Next, Attempt, Deliver, Redeliver, TakeHandover, Revoke, Hold, SyncRefused,
       SyncJoins, PostUnanswered, PostRefused, PostCredentialGone, LeaveToOthers, Report,
       DeadLetter, Rebuild
<1>4. ASSUME NEW r \in Portals, 0 \in PostedBy(r)' PROVE FALSE
  <2>1. <<r, 0>> \in posts' \ posts
    BY <1>4 DEF PostedBy, DeviceHeld
  <2>2. PICK portal \in SeenAsPortal :
          job # Idle /\ ~MustWait(portal) /\ posts' = posts \cup {<<job.reply, Sender>>}
    BY <1>1, <2>1 DEF Next, Attempt, Deliver, Redeliver, TakeHandover, Revoke, Hold,
       SyncRefused, SyncJoins, Take, Post, PostUnanswered, PostRefused, PostCredentialGone,
       LeaveToOthers, Report, DeadLetter, Rebuild, busVars
  <2>3. job.reply = r /\ Sender = 0
    BY <2>1, <2>2
  <2>4. ~AsOwner
    <3>1. AsOwner => job.device \in Devices
      BY DEF AsOwner, IInv, TypeOK
    <3>2. 0 \notin Devices
      BY DevicesAssumption DEF Devices
    <3> QED BY <2>3, <3>1, <3>2 DEF Sender
  <2>5. ~portal
    BY <2>2, <2>4 DEF MustWait, DeviceHeld
  <2> QED BY <2>3, <2>5, KindsAssumption DEF SeenAsPortal
<1> QED BY <1>2, <1>3, <1>4 DEF DeviceHeld

\* A process that holds the owner's device never speaks in a portal as the
\* Sensor, whatever is revoked, replaced, refused or redelivered, until it is
\* started again (a restart that finds the credential refused does).
THEOREM PortalsNeverHearTheSensor == Spec => NeverFallsBack
<1> DEFINE Never == stops = 0 => DeviceHeld
<1>1. Init /\ cell # 0 => Never
  BY DEF Init, DeviceHeld, PostedBy
<1>2. IInv /\ Never /\ [Next]_vars => Never'
  <2>1. ASSUME UNCHANGED vars, Never PROVE Never'
    BY <2>1 DEF vars, deviceVars, budgetVars, DeviceHeld, PostedBy
  <2>2. IInv /\ Next /\ stops' = 0 => stops = 0
    <3>1. Next => UNCHANGED stops \/ stops' = stops + 1
      BY DEF Next, Attempt, Deliver, Redeliver, TakeHandover, Revoke, Hold, SyncRefused,
         SyncJoins, Take, Post, PostUnanswered, PostRefused, PostCredentialGone, LeaveToOthers,
         Report, DeadLetter, Rebuild, Crash, budgetVars, TryLater
    <3> QED BY <3>1 DEF IInv, TypeOK
  <2> QED BY <2>1, <2>2, DeviceHeldKept
<1>3. Never => (stops = 0 => \A r \in Portals : 0 \notin PostedBy(r))
  BY DEF DeviceHeld
<1> HIDE DEF Never
<1> QED BY <1>1, <1>2, <1>3, Invariantly, PTL DEF Spec, NeverFallsBack

-----------------------------------------------------------------------------
(* Whose message it is, and how the rooms grow.                              *)

\* A connection that is found is the account of the room's own
\* (Registry::resolve over what the Gateway registers).
LEMMA TrueConnection ==
  ASSUME NEW w \in Worlds, NEW r \in Rooms, NEW net \in NamesFor(w, r), ConnectionOf(w, r, net) # "none"
  PROVE  ConnectionOf(w, r, net) = w.account[r] /\ ConnectionOf(w, r, net) \in Connections
<1> DEFINE named == {e \in w.registry : BotOf(w, r) # "none" /\ e.bot = BotOf(w, r)}
           only  == {e \in w.registry : e.kind = net /\ Sole(w, BotOf(w, r), e)}
<1>1. CASE named # {}
  <2>1. PICK e \in named : ConnectionOf(w, r, net) = e.id
    BY <1>1 DEF ConnectionOf
  <2> QED BY <2>1, WorldsAssumption
<1>2. CASE named = {} /\ only # {}
  <2>1. PICK e \in only : ConnectionOf(w, r, net) = e.id
    BY <1>2 DEF ConnectionOf
  <2> QED BY <2>1, WorldsAssumption
<1>3. CASE named = {} /\ only = {}
  BY <1>3 DEF ConnectionOf
<1> QED BY <1>1, <1>2, <1>3

LEMMA SaidPairs ==
  ASSUME NEW r, NEW i
  PROVE  <<r, i>> \in Said <=> r \in Rooms /\ i \in SaidIn(r)
BY DEF Said

LEMMA IdsOf ==
  ASSUME NEW events, NEW r, NEW i
  PROVE  <<r, i>> \in Ids(events) <=> \E e \in events : e.idx # 0 /\ e.room = r /\ e.idx = i
BY DEF Ids

\* What was said stays said.
TimelineKept ==
  /\ timeline' \in [Rooms -> Seq(Utterances)]
  /\ \A r \in Rooms : /\ Len(timeline[r]) \in Nat /\ Len(timeline'[r]) \in Nat
                      /\ Len(timeline[r]) <= Len(timeline'[r])
                      /\ \A i \in 1..Len(timeline[r]) : timeline'[r][i] = timeline[r][i]

LEMMA OneMore ==
  ASSUME timeline \in [Rooms -> Seq(Utterances)], NEW q, NEW u \in Utterances,
         timeline' = [timeline EXCEPT ![q] = Append(@, u)]
  PROVE  TimelineKept
<1>1. \A r \in Rooms : timeline[r] \in Seq(Utterances) /\ Len(timeline[r]) \in Nat
  BY LenProperties
<1>2. \A r \in Rooms : r # q => timeline'[r] = timeline[r]
  OBVIOUS
<1>3. q \in Rooms => timeline'[q] = Append(timeline[q], u)
  OBVIOUS
<1>4. ASSUME NEW r \in Rooms
      PROVE  /\ timeline'[r] \in Seq(Utterances) /\ Len(timeline'[r]) \in Nat
             /\ Len(timeline[r]) <= Len(timeline'[r])
             /\ \A i \in 1..Len(timeline[r]) : timeline'[r][i] = timeline[r][i]
  <2>1. CASE r = q
    <3> DEFINE t == timeline[r]
    <3>1. t \in Seq(Utterances) /\ timeline'[r] = Append(t, u) /\ Len(t) \in Nat
      BY <1>1, <1>3, <2>1
    <3> HIDE DEF t
    <3>2. /\ Append(t, u) \in Seq(Utterances) /\ Len(Append(t, u)) = Len(t) + 1
          /\ \A i \in 1..Len(t) : Append(t, u)[i] = t[i]
      BY <3>1, AppendProperties
    <3> QED BY <3>1, <3>2 DEF t
  <2>2. CASE r # q
    BY <1>1, <1>2, <2>2
  <2> QED BY <2>1, <2>2
<1>5. timeline' \in [Rooms -> Seq(Utterances)]
  <2>1. DOMAIN timeline' = Rooms /\ timeline' = [r \in Rooms |-> timeline'[r]]
    OBVIOUS
  <2> QED BY <2>1, <1>4
<1> QED BY <1>1, <1>4, <1>5 DEF TimelineKept

LEMMA TimelineStep ==
  ASSUME InboundTypeOK, [InboundNext]_inboundVars
  PROVE  TimelineKept /\ world' = world
<1> USE DEF hsVars
<1>0. timeline \in [Rooms -> Seq(Utterances)] /\ \A r \in Rooms : Len(timeline[r]) \in Nat
  BY LenProperties DEF InboundTypeOK
<1>1. CASE UNCHANGED <<world, timeline>>
  BY <1>0, <1>1 DEF TimelineKept
<1>2. ASSUME NEW r \in Rooms, NEW v \in Remarks, NEW q \in 0..MaxSaid, Say(r, v, q)
      PROVE  TimelineKept /\ world' = world
  <2>1. [what |-> "message", by |-> v.by, shaped |-> v.shaped, quotes |-> q] \in Utterances
    BY PeopleAssumption DEF Utterances
  <2>2. /\ timeline' = [timeline EXCEPT ![r] = Append(@,
               [what |-> "message", by |-> v.by, shaped |-> v.shaped, quotes |-> q])]
        /\ world' = world
    BY <1>2 DEF Say
  <2> QED BY <1>0, <2>1, <2>2, OneMore
<1>3. ASSUME NEW r \in Rooms, Entomb(r) PROVE TimelineKept /\ world' = world
  <2>1. [what |-> "tombstone", by |-> "bot", shaped |-> FALSE, quotes |-> 0] \in Utterances
    BY BoundsAssumption DEF Utterances
  <2>2. /\ timeline' = [timeline EXCEPT ![Predecessor[r]] = Append(@,
               [what |-> "tombstone", by |-> "bot", shaped |-> FALSE, quotes |-> 0])]
        /\ world' = world
    BY <1>3 DEF Entomb
  <2> QED BY <1>0, <2>1, <2>2, OneMore
<1>4. CASE \/ UNCHANGED inboundVars \/ Start \/ SnapshotArrives \/ SensorWork \/ Shutdown \/ Die
           \/ (\E r \in Rooms : Succeed(r))
           \/ \E c \in Contacts, k \in Connections, label \in Labels : Decide(c, k, label)
  <2>1. UNCHANGED <<world, timeline>>
    BY <1>4 DEF inboundVars, Start, SnapshotArrives, Shutdown, Die, Succeed, Decide, SensorWork, Sync, Sweep,
       HandleInvite, HandleCreate, HandlePresence, Drop, TakeMessage, Quote, Spawn, Land, Fail, Drained
  <2> QED BY <1>1, <2>1
<1> QED BY <1>2, <1>3, <1>4 DEF InboundNext

LEMMA SaidKept ==
  ASSUME TimelineKept, NEW r \in Rooms
  PROVE  SaidIn(r) \subseteq SaidIn(r)' /\ SaidIn(r) \subseteq 1..Len(timeline[r])
BY DEF TimelineKept, SaidIn

LEMMA SaidPairsKept ==
  ASSUME TimelineKept PROVE Said \subseteq Said'
BY SaidKept DEF Said

\* What is in hand.
HandInv ==
  current # Nothing =>
    /\ current.idx \in {0} \cup SaidIn(current.room) /\ current.idx <= seen[current.room]
    /\ current.connection = world.account[current.room]
    /\ InForce \subseteq lived
    /\ current.by \in Contacts => <<current.by, current.connection, current.label>> \in lived
    /\ current.excerpt \in Contacts =>
         current.label # "revoked" /\ <<current.excerpt, current.connection, "granted">> \in lived
    /\ current.stage = "quoting" => current.label # "revoked"
FlightInv == flying = IF current # Nothing /\ current.stage = "awaiting" THEN {Publication} ELSE {}
BatchInv ==
  \A e \in batch :
    /\ e.what = "message" =>
         /\ e.room \in Rooms /\ e.by = "none"
         /\ e.idx \in SaidIn(e.room) /\ e.idx <= seen[e.room]
         /\ current # Nothing /\ current.room = e.room => current.idx < e.idx
    /\ e.what # "message" => e.idx = 0
    /\ e.what = "presence" => e.by \in Contacts
    /\ e.what \in {"create", "invite"} => e.room \in Rooms
LogInv ==
  \A n \in DOMAIN log : log[n].idx # 0 =>
    /\ log[n].idx <= seen[log[n].room]
    /\ \A e \in batch : e.what = "message" /\ e.room = log[n].room => log[n].idx < e.idx
    /\ current # Nothing /\ current.idx # 0 /\ current.room = log[n].room => log[n].idx < current.idx

InboundInv ==
  InboundTypeOK /\ HandInv /\ FlightInv /\ BatchInv /\ LogInv /\ InOrder /\ NothingSlipped

-----------------------------------------------------------------------------
(* Types.                                                                    *)

\* What the loop holds was said.
LEMMA HandWasSaid ==
  ASSUME InboundTypeOK, HandInv, BatchInv
  PROVE  InHand \subseteq Said
<1>1. ASSUME NEW e \in batch, e.idx # 0 PROVE <<e.room, e.idx>> \in Said
  <2>1. e.what = "message"
    BY <1>1 DEF BatchInv
  <2> QED BY <2>1, SaidPairs DEF BatchInv
<1>2. ASSUME current # Nothing, current.idx # 0 PROVE <<current.room, current.idx>> \in Said
  <2>1. current \in Drafts
    BY <1>2 DEF InboundTypeOK
  <2>2. current.room \in Rooms /\ current.idx \in SaidIn(current.room)
    BY <1>2, <2>1 DEF Drafts, HandInv
  <2> QED BY <2>2, SaidPairs
<1> QED BY <1>1, <1>2 DEF InHand, Ids

LEMMA FlightWasSaid ==
  ASSUME InboundTypeOK, HandInv, FlightInv
  PROVE  Ids(flying) \subseteq Said
<1>1. ASSUME NEW p \in flying, p.idx # 0 PROVE <<p.room, p.idx>> \in Said
  <2>1. current # Nothing /\ p = Publication
    BY FlightInv DEF FlightInv
  <2>2. current \in Drafts /\ p.room = current.room /\ p.idx = current.idx
    BY <2>1 DEF InboundTypeOK, Publication
  <2>3. current.room \in Rooms /\ current.idx \in SaidIn(current.room)
    BY <1>1, <2>1, <2>2 DEF Drafts, HandInv
  <2> QED BY <2>2, <2>3, SaidPairs
<1> QED BY <1>1 DEF Ids

\* An event that is begun is a draft, under its room's own account.
LEMMA DraftTyped ==
  ASSUME InboundTypeOK, NEW r \in Rooms, NEW i \in Nat, NEW by \in Contacts \cup {"owner"}, NEW net \in NamesFor(world, r),
         NEW quotes, ConnectionOf(world, r, net) # "none"
  PROVE  LET d == Draft(r, i, by, net, quotes) IN
         /\ d \in Drafts /\ d # Nothing
         /\ d.room = r /\ d.idx = i /\ d.by = by /\ d.excerpt = "none" /\ d.stage \in {"ready", "quoting"}
         /\ d.connection = world.account[r]
         /\ by \in Contacts => <<by, d.connection, d.label>> \in InForce
         /\ d.stage = "quoting" => d.label # "revoked"
<1> DEFINE k == ConnectionOf(world, r, net)
           label == IF by = "owner" THEN "none" ELSE consent[by][k]
           stage == IF quotes = 0 \/ label = "revoked" THEN "ready" ELSE "quoting"
           d == [stage |-> stage, room |-> r, idx |-> i, by |-> by, connection |-> k, label |-> label, excerpt |-> "none"]
<1>1. k \in Connections /\ k = world.account[r]
  BY TrueConnection DEF InboundTypeOK
<1>2. Draft(r, i, by, net, quotes) = d
  BY DEF Draft
<1>3. by \in Contacts => by # "owner"
  BY PeopleAssumption
<1>4. label \in Labels \cup {"none"} /\ (by \in Contacts => label = consent[by][k])
  BY <1>1, <1>3 DEF InboundTypeOK
<1>5. stage \in {"ready", "quoting"} /\ (stage = "quoting" => label # "revoked")
  OBVIOUS
<1>6. by \in Contacts => <<by, k, label>> \in InForce
  BY <1>1, <1>4 DEF InForce
<1> HIDE DEF k, label, stage
<1>7. d \in Drafts /\ d.stage = stage
  BY <1>1, <1>4, <1>5 DEF Drafts
<1>8. d # Nothing
  BY <1>5, <1>7 DEF Nothing
<1> QED BY <1>1, <1>2, <1>5, <1>6, <1>7, <1>8

\* A message somebody is told of has an author and a connection.
LEMMA NewsHasAuthor ==
  ASSUME InboundTypeOK, NEW e, e.room \in Rooms, e.idx \in SaidIn(e.room), ~NobodysNews(e)
  PROVE  /\ Message(e).by \in Contacts \cup {"owner"}
         /\ NetworkOf(world, e.room, Message(e).by) \in NamesFor(world, e.room)
         /\ ConnectionOf(world, e.room, NetworkOf(world, e.room, Message(e).by)) # "none"
<1>1. timeline[e.room] \in Seq(Utterances) /\ e.idx \in 1..Len(timeline[e.room])
  BY DEF InboundTypeOK, SaidIn
<1>2. Message(e) \in Utterances
  BY <1>1, ElementOfSeq DEF Message
<1>3. Message(e).by \in Contacts \cup {"owner"}
  BY <1>2 DEF Utterances, NobodysNews
<1> QED BY <1>3 DEF NamesFor, NobodysNews

\* A presence update has a room of a connection.
LEMMA PresenceHasRoom ==
  ASSUME InboundTypeOK, NEW c \in Contacts, NEW r \in NamedAfter(c)
  PROVE  /\ r \in Rooms /\ SubjectNetwork(c) \in NamesFor(world, r)
         /\ ConnectionOf(world, r, SubjectNetwork(c)) # "none"
<1> DEFINE nets == {NetworkOf(world, q, c) : q \in Shared(c)}
           own == {q \in Shared(c) : NetworkOf(world, q, c) = SubjectNetwork(c)}
<1>1. /\ r \in Shared(c) /\ (own # {} => r \in own)
      /\ SubjectNetwork(c) # "none" /\ ConnectionOf(world, r, SubjectNetwork(c)) # "none"
  BY DEF NamedAfter
<1>2. r \in Rooms /\ r \in SeenIn[c]
  BY <1>1 DEF Shared, Joined
<1>3. CASE Ghost[c] # "none"
  BY <1>1, <1>2, <1>3 DEF SubjectNetwork, NamesFor
<1>4. CASE Ghost[c] = "none"
  <2>1. SubjectNetwork(c) \in nets
    <3>1. CASE "matrix" \in nets
      BY <1>4, <3>1 DEF SubjectNetwork
    <3>2. CASE "matrix" \notin nets
      <4>1. SubjectNetwork(c) = IF Cardinality(nets) = 1 THEN CHOOSE n \in nets : TRUE ELSE "none"
        BY <1>4, <3>2 DEF SubjectNetwork
      <4>2. nets # {}
        BY <1>1
      <4> QED BY <1>1, <4>1, <4>2
    <3> QED BY <3>1, <3>2
  <2>2. r \in own
    BY <1>1, <2>1
  <2> QED BY <1>1, <1>2, <2>2 DEF NamesFor
<1> QED BY <1>3, <1>4

LEMMA TurnTyped ==
  ASSUME InboundTypeOK, NEW n \in Nat, Turn(n)
  PROVE  turns' \in 0..MaxTurns
BY BoundsAssumption DEF InboundTypeOK, Turn

\* The rooms' state.
LEMMA RoomsStep ==
  ASSUME InboundTypeOK, BatchInv, [InboundNext]_inboundVars
  PROVE  /\ member' \in [Rooms -> {"none", "invited", "in", "left"}] /\ unleft' \subseteq Rooms
         /\ seen' \in [Rooms -> Nat]
         /\ \A r \in Rooms : seen[r] <= seen'[r] /\ seen'[r] <= Len(timeline'[r])
         /\ known' \subseteq Rooms /\ offered' \subseteq Rooms /\ turns' \in 0..MaxTurns
         /\ phase' \in {"off", "waiting", "syncing", "draining"} /\ swept' \in {"no", "due", "done"}
<1> USE DEF hsVars, storeVars, procVars, histVars
<1>0. TimelineKept
  BY TimelineStep
<1>1. \A r \in Rooms : seen[r] \in Nat /\ seen[r] <= Len(timeline[r]) /\ seen[r] <= Len(timeline'[r])
  BY <1>0 DEF InboundTypeOK, TimelineKept
<1>2. CASE UNCHANGED <<member, seen, known, offered, phase, swept, unleft, turns>>
  BY <1>1, <1>2 DEF InboundTypeOK
<1>3. CASE \/ \E r \in Rooms, v \in Remarks, q \in 0..MaxSaid : Say(r, v, q)
           \/ \E r \in Rooms : Entomb(r)
           \/ UNCHANGED inboundVars
           \/ \E e \in batch : HandlePresence(e) \/ Drop(e) \/ TakeMessage(e)
           \/ Quote \/ Spawn \/ \E p \in flying : Land(p)
  BY <1>2, <1>3 DEF Say, Entomb, inboundVars, HandlePresence, Drop, TakeMessage, Quote, Spawn, Land, Handles
<1>4. CASE \E r \in Rooms : Succeed(r)
  BY <1>1, <1>4 DEF Succeed, InboundTypeOK
<1>5. CASE \/ \E c \in Contacts, k \in Connections, label \in Labels : Decide(c, k, label)
           \/ Start \/ SnapshotArrives \/ Shutdown \/ Die \/ Drained \/ \E p \in flying : Fail(p)
  <2>1. UNCHANGED turns \/ Turn(1)
    BY <1>5 DEF Decide, Start, SnapshotArrives, Shutdown, Die, Drained, Fail
  <2>2. turns' \in 0..MaxTurns
    BY <2>1, TurnTyped DEF InboundTypeOK
  <2>3. /\ UNCHANGED <<member, seen, known, offered, unleft>>
        /\ phase' \in {phase, "off", "waiting", "syncing", "draining"} /\ swept' \in {swept, "no"}
    BY <1>5 DEF Decide, Start, SnapshotArrives, Shutdown, Die, Drained, Fail
  <2> QED BY <1>1, <2>2, <2>3 DEF InboundTypeOK
<1>6. CASE Sync
  <2>1. PICK shown \in SUBSET Visible : Turn(Cardinality(shown))
    BY <1>6 DEF Sync
  <2>2. Cardinality(shown) \in Nat
    BY PeopleAssumption, FS_Subset, FS_CardinalityType DEF Visible
  <2>3. turns' \in 0..MaxTurns
    BY <2>1, <2>2, TurnTyped
  <2>4. /\ UNCHANGED <<timeline, member, phase, unleft>> /\ known' = known \cup Joined
        /\ offered' = offered \cup Invites /\ swept' \in {swept, "due"}
        /\ seen' = [r \in Rooms |-> IF r \in Joined THEN Len(timeline[r]) ELSE seen[r]]
    BY <1>6 DEF Sync
  <2>5. \A r \in Rooms : Len(timeline[r]) \in Nat
    BY <1>0 DEF TimelineKept
  <2> QED BY <1>1, <2>3, <2>4, <2>5 DEF InboundTypeOK, Joined, Invites
<1>7. ASSUME NEW those \in SUBSET Rooms, Leave(those)
      PROVE  /\ member' \in [Rooms -> {"none", "invited", "in", "left"}] /\ unleft' \subseteq Rooms
             /\ turns' \in 0..MaxTurns
  BY <1>7, TurnTyped DEF Leave, InboundTypeOK
<1>8. CASE Sweep
  <2>1. PICK those \in SUBSET Rooms : Leave(those)
    BY <1>8 DEF Sweep
  <2>2. UNCHANGED <<seen, known, offered, phase>> /\ swept' = "done"
    BY <1>8 DEF Sweep
  <2> QED BY <1>1, <1>7, <2>1, <2>2 DEF InboundTypeOK
<1>9. CASE \E e \in batch : HandleCreate(e)
  <2>1. PICK those \in SUBSET Rooms : Leave(those)
    BY <1>9 DEF HandleCreate
  <2>2. UNCHANGED <<seen, known, offered, phase, swept>>
    BY <1>9 DEF HandleCreate
  <2> QED BY <1>1, <1>7, <2>1, <2>2 DEF InboundTypeOK
<1>10. CASE \E e \in batch : HandleInvite(e)
  <2>1. UNCHANGED turns \/ Turn(1)
    BY <1>10 DEF HandleInvite
  <2>2. turns' \in 0..MaxTurns
    BY <2>1, TurnTyped DEF InboundTypeOK
  <2>3. /\ UNCHANGED <<seen, known, offered, phase, swept, unleft>>
        /\ UNCHANGED member \/ \E r : member' = [member EXCEPT ![r] = "in"]
    BY <1>10 DEF HandleInvite
  <2> QED BY <1>1, <2>2, <2>3 DEF InboundTypeOK
<1> QED BY <1>3, <1>4, <1>5, <1>6, <1>8, <1>9, <1>10 DEF InboundNext, SensorWork

-----------------------------------------------------------------------------
(* What becomes of the loop's work.                                          *)

\* Nothing is read, begun or ended.
Aside ==
  UNCHANGED <<batch, current, flying, log, missed, beyond, stray, seen, consent, lived>>

Decided ==
  /\ UNCHANGED <<batch, current, flying, log, missed, beyond, stray, seen>>
  /\ \E c \in Contacts, k \in Connections, label \in Labels :
       /\ consent' = [consent EXCEPT ![c][k] = label]
       /\ lived' = IF current = Nothing THEN lived ELSE lived \cup {<<c, k, label>>}

\* An event the bus is not told of.
Dismissed(e) ==
  /\ batch' = batch \ {e} /\ current = Nothing
  /\ UNCHANGED <<current, flying, log, missed, beyond, seen, consent, lived>>
  /\ \/ e.what # "message" /\ UNCHANGED stray
     \/ e.what = "message" /\ NobodysNews(e) /\ UNCHANGED stray
     \/ e.what = "message" /\ stray' = stray \cup {<<e.room, e.idx>>}

\* An event that is begun.
Begun(e) ==
  /\ batch' = batch \ {e} /\ current = Nothing /\ current' \in Drafts
  /\ current'.stage \in {"ready", "quoting"} /\ current'.idx = e.idx
  /\ current'.room \in Rooms /\ current'.excerpt = "none"
  /\ current'.connection = world.account[current'.room]
  /\ current'.by \in Contacts => <<current'.by, current'.connection, current'.label>> \in InForce
  /\ current'.stage = "quoting" => current'.label # "revoked"
  /\ lived' = InForce
  /\ UNCHANGED <<flying, log, missed, beyond, stray, seen, consent>>
  /\ \/ e.what = "presence"
     \/ e.what = "message" /\ current'.room = e.room /\ \A f \in batch : ~Earlier(f, e)

LEMMA Moves ==
  ASSUME InboundTypeOK, BatchInv, [InboundNext]_inboundVars
  PROVE  \/ Aside \/ Decided \/ Sync
         \/ \E e \in batch : Dismissed(e) \/ Begun(e)
         \/ Quote \/ Spawn \/ Shutdown \/ Die
         \/ \E p \in flying : Land(p) \/ Fail(p)
<1> USE DEF hsVars, storeVars, procVars, histVars
<1>1. CASE \/ UNCHANGED inboundVars \/ Start \/ SnapshotArrives \/ Sweep \/ Drained
           \/ \E r \in Rooms, v \in Remarks, q \in 0..MaxSaid : Say(r, v, q)
           \/ \E r \in Rooms : Succeed(r) \/ Entomb(r)
  BY <1>1 DEF Aside, inboundVars, Start, SnapshotArrives, Sweep, Drained, Say, Succeed, Entomb
<1>2. ASSUME NEW c \in Contacts, NEW k \in Connections, NEW label \in Labels, Decide(c, k, label) PROVE Decided
  BY <1>2 DEF Decide, Decided
<1>3. ASSUME NEW e \in batch, HandleInvite(e) \/ HandleCreate(e) \/ Drop(e) PROVE Dismissed(e)
  BY <1>3 DEF HandleInvite, HandleCreate, Drop, Handles, Dismissed
<1>4. ASSUME NEW e \in batch, TakeMessage(e) PROVE Begun(e)
  <2> DEFINE m == Message(e)
             net == NetworkOf(world, e.room, m.by)
  <2>1. /\ Handles(e, "message") /\ ~NobodysNews(e)
        /\ current' = Draft(e.room, e.idx, m.by, net, m.quotes) /\ lived' = InForce
        /\ UNCHANGED <<flying, log, missed, beyond, stray, seen, consent>>
    BY <1>4 DEF TakeMessage
  <2>2. e.what = "message" /\ e.room \in Rooms /\ e.idx \in SaidIn(e.room) /\ e.idx \in Nat
    BY <2>1 DEF Handles, BatchInv, InboundTypeOK, Events
  <2>3. m.by \in Contacts \cup {"owner"} /\ net \in NamesFor(world, e.room) /\ ConnectionOf(world, e.room, net) # "none"
    BY <2>1, <2>2, NewsHasAuthor
  <2> HIDE DEF m, net
  <2>4. LET d == Draft(e.room, e.idx, m.by, net, m.quotes) IN
         /\ d \in Drafts /\ d # Nothing
         /\ d.room = e.room /\ d.idx = e.idx /\ d.by = m.by /\ d.excerpt = "none" /\ d.stage \in {"ready", "quoting"}
         /\ d.connection = world.account[e.room]
         /\ m.by \in Contacts => <<m.by, d.connection, d.label>> \in InForce
         /\ d.stage = "quoting" => d.label # "revoked"
    BY <2>2, <2>3, DraftTyped
  <2> QED BY <2>1, <2>2, <2>4 DEF Begun, Handles
<1>5. ASSUME NEW e \in batch, HandlePresence(e) PROVE Dismissed(e) \/ Begun(e)
  <2>1. e.what = "presence" /\ e.by \in Contacts /\ e.idx = 0
    BY <1>5 DEF HandlePresence, Handles, BatchInv
  <2>2. CASE NamedAfter(e.by) = {}
    BY <1>5, <2>1, <2>2 DEF HandlePresence, Handles, Dismissed
  <2>3. CASE NamedAfter(e.by) # {}
    <3>1. PICK r \in NamedAfter(e.by) :
            current' = Draft(r, 0, e.by, SubjectNetwork(e.by), 0) /\ lived' = InForce
      BY <1>5, <2>3 DEF HandlePresence
    <3>2. /\ batch' = batch \ {e} /\ current = Nothing
          /\ UNCHANGED <<flying, log, missed, beyond, stray, seen, consent>>
      BY <1>5 DEF HandlePresence, Handles
    <3>3. /\ r \in Rooms /\ SubjectNetwork(e.by) \in NamesFor(world, r)
          /\ ConnectionOf(world, r, SubjectNetwork(e.by)) # "none"
      BY <2>1, PresenceHasRoom
    <3>4. LET d == Draft(r, 0, e.by, SubjectNetwork(e.by), 0) IN
           /\ d \in Drafts /\ d # Nothing
           /\ d.room = r /\ d.idx = 0 /\ d.by = e.by /\ d.excerpt = "none" /\ d.stage \in {"ready", "quoting"}
           /\ d.connection = world.account[r]
           /\ e.by \in Contacts => <<e.by, d.connection, d.label>> \in InForce
           /\ d.stage = "quoting" => d.label # "revoked"
      BY <2>1, <3>3, DraftTyped
    <3> QED BY <2>1, <3>1, <3>2, <3>3, <3>4 DEF Begun
  <2> QED BY <2>2, <2>3
<1> QED BY <1>1, <1>2, <1>3, <1>4, <1>5 DEF InboundNext, SensorWork

\* The publication in flight is the one the loop waits for.
LEMMA InFlight ==
  ASSUME InboundTypeOK, FlightInv, NEW p \in flying
  PROVE  /\ current \in Drafts /\ current.stage = "awaiting" /\ flying = {p}
         /\ p = Publication /\ p \in Publications
         /\ p.room = current.room /\ p.idx = current.idx /\ p.by = current.by /\ p.excerpt = current.excerpt
         /\ p.connection = current.connection /\ p.label = current.label
<1>1. current # Nothing /\ current.stage = "awaiting" /\ flying = {Publication}
  BY DEF FlightInv
<1>2. current \in Drafts /\ p = Publication
  BY <1>1 DEF InboundTypeOK
<1> QED BY <1>1, <1>2 DEF InboundTypeOK, Publication

LEMMA StowTyped ==
  ASSUME log \in Seq(Publications), NEW p \in Publications, Stow(p)
  PROVE  /\ log' \in Seq(Publications) /\ Len(log) \in Nat
         /\ \/ log' = log /\ Stored(p)
            \/ /\ ~Stored(p) /\ Len(log') = Len(log) + 1 /\ log'[Len(log) + 1] = p
               /\ \A n \in 1..Len(log) : log'[n] = log[n]
BY DEF Stow

LEMMA LoopTyped ==
  ASSUME InboundTypeOK, HandInv, FlightInv, BatchInv, [InboundNext]_inboundVars
  PROVE  /\ batch' \subseteq Events /\ current' \in {Nothing} \cup Drafts /\ flying' \subseteq Publications
         /\ log' \in Seq(Publications) /\ consent' \in [Contacts -> [Connections -> Labels]]
         /\ lived' \subseteq Contacts \X Connections \X Labels
         /\ missed' \cup beyond' \cup stray' \subseteq Said'
<1>0. Said \subseteq Said' /\ InHand \subseteq Said /\ Ids(flying) \subseteq Said
  BY TimelineStep, SaidPairsKept, HandWasSaid, FlightWasSaid
<1>1. InForce \subseteq Contacts \X Connections \X Labels
  BY DEF InForce, InboundTypeOK
<1>2. CASE Aside
  BY <1>0, <1>2 DEF Aside, InboundTypeOK
<1>3. CASE Decided
  <2>1. PICK c \in Contacts, k \in Connections, label \in Labels :
          /\ consent' = [consent EXCEPT ![c][k] = label]
          /\ lived' = IF current = Nothing THEN lived ELSE lived \cup {<<c, k, label>>}
    BY <1>3 DEF Decided
  <2>2. consent' \in [Contacts -> [Connections -> Labels]]
    BY <2>1 DEF InboundTypeOK
  <2>3. lived' \subseteq Contacts \X Connections \X Labels
    BY <2>1 DEF InboundTypeOK
  <2> QED BY <1>0, <1>3, <2>2, <2>3 DEF Decided, InboundTypeOK
<1>4. CASE Sync
  <2>1. PICK shown \in SUBSET Visible :
          batch' = {Event("invite", r, 0, "none") : r \in Invites}
                   \cup {Event("presence", "none", 0, c) : c \in shown}
                   \cup UNION {Part(r) : r \in Joined}
    BY <1>4 DEF Sync
  <2>2. ASSUME NEW r \in Rooms PROVE Part(r) \subseteq Events
    <3>1. SaidIn(r) \subseteq Nat
      BY DEF SaidIn, InboundTypeOK
    <3> QED BY <3>1 DEF Part, Event, Events
  <2>3. batch' \subseteq Events
    <3>1. UNION {Part(r) : r \in Joined} \subseteq Events
      BY <2>2 DEF Joined
    <3>2. {Event("invite", r, 0, "none") : r \in Invites} \subseteq Events
      BY DEF Invites, Event, Events
    <3>3. {Event("presence", "none", 0, c) : c \in shown} \subseteq Events
      BY DEF Visible, Event, Events
    <3> DEFINE parts == UNION {Part(r) : r \in Joined}
               invites == {Event("invite", r, 0, "none") : r \in Invites}
               presence == {Event("presence", "none", 0, c) : c \in shown}
    <3>4. batch' = invites \cup presence \cup parts
      BY <2>1
    <3>5. parts \subseteq Events /\ invites \subseteq Events /\ presence \subseteq Events
      BY <3>1, <3>2, <3>3, Zenon
    <3> HIDE DEF parts, invites, presence
    <3> QED BY <3>4, <3>5
  <2>4. beyond' \subseteq Said
    <3>1. beyond' = beyond \cup UNION {{r} \X {i \in SaidIn(r) : seen[r] < i /\ i < First(r)} : r \in Joined}
      BY <1>4 DEF Sync
    <3> QED BY <3>1 DEF Joined, Said, InboundTypeOK
  <2>5. UNCHANGED <<current, flying, log, consent, lived, missed, stray>>
    BY <1>4 DEF Sync
  <2> QED BY <1>0, <2>3, <2>4, <2>5 DEF InboundTypeOK
<1>5. ASSUME NEW e \in batch, Dismissed(e)
      PROVE  /\ batch' \subseteq Events /\ current' \in {Nothing} \cup Drafts /\ flying' \subseteq Publications
             /\ log' \in Seq(Publications) /\ consent' \in [Contacts -> [Connections -> Labels]]
             /\ lived' \subseteq Contacts \X Connections \X Labels
             /\ missed' \cup beyond' \cup stray' \subseteq Said'
  <2>1. e.what = "message" => <<e.room, e.idx>> \in Said
    BY SaidPairs DEF BatchInv
  <2>2. stray' \subseteq Said'
    BY <1>0, <1>5, <2>1 DEF Dismissed, InboundTypeOK
  <2>3. batch' \subseteq batch /\ UNCHANGED <<current, flying, log, missed, beyond, consent, lived>>
    BY <1>5 DEF Dismissed
  <2> QED BY <1>0, <2>2, <2>3 DEF InboundTypeOK
<1>6. ASSUME NEW e \in batch, Begun(e)
      PROVE  /\ batch' \subseteq Events /\ current' \in {Nothing} \cup Drafts /\ flying' \subseteq Publications
             /\ log' \in Seq(Publications) /\ consent' \in [Contacts -> [Connections -> Labels]]
             /\ lived' \subseteq Contacts \X Connections \X Labels
             /\ missed' \cup beyond' \cup stray' \subseteq Said'
  <2>1. batch' \subseteq batch /\ current' \in Drafts /\ lived' = InForce
    BY <1>6 DEF Begun
  <2>2. UNCHANGED <<flying, log, missed, beyond, stray, consent>>
    BY <1>6 DEF Begun
  <2> QED BY <1>0, <1>1, <2>1, <2>2 DEF InboundTypeOK
<1>7. CASE Quote \/ Spawn
  <2>1. UNCHANGED <<batch, log, consent, lived, missed, beyond, stray>>
    BY <1>7 DEF Quote, Spawn, hsVars, storeVars, histVars
  <2>2. current \in Drafts
    BY <1>7 DEF Quote, Spawn, InboundTypeOK
  <2>3. CASE Quote
    <3>1. PICK x \in Contacts \cup {"none", "owner", "self"} :
            \/ current' = [current EXCEPT !.stage = "ready"]
            \/ current' = [current EXCEPT !.stage = "ready", !.excerpt = x]
      <4> DEFINE a == timeline[current.room][Message(current).quotes].by
                 x == IF Quotable(a) THEN a ELSE "none"
      <4>1. x \in Contacts \cup {"none", "owner", "self"}
        BY DEF Quotable
      <4>2. \/ current' = [current EXCEPT !.stage = "ready"]
            \/ current' = [current EXCEPT !.stage = "ready", !.excerpt = x]
        BY <2>3 DEF Quote
      <4> QED BY <4>1, <4>2
    <3>2. current' \in Drafts
      BY <2>2, <3>1 DEF Drafts
    <3>3. flying' = flying
      BY <2>3 DEF Quote
    <3> QED BY <1>0, <2>1, <3>2, <3>3 DEF InboundTypeOK
  <2>4. CASE Spawn
    <3>1. current' = [current EXCEPT !.stage = "awaiting"] /\ flying' = flying \cup {Publication}
      BY <2>4 DEF Spawn
    <3>2. current' \in Drafts
      BY <2>2, <3>1 DEF Drafts
    <3>3. Publication \in Publications
      BY <2>2 DEF Drafts, Publication, Publications
    <3> QED BY <1>0, <2>1, <3>1, <3>2, <3>3 DEF InboundTypeOK
  <2> QED BY <1>7, <2>3, <2>4
<1>8. CASE Shutdown
  BY <1>0, <1>8 DEF Shutdown, InboundTypeOK, storeVars, hsVars
<1>9. ASSUME NEW p \in flying, Land(p) \/ Fail(p)
      PROVE  /\ batch' \subseteq Events /\ current' \in {Nothing} \cup Drafts /\ flying' \subseteq Publications
             /\ log' \in Seq(Publications) /\ consent' \in [Contacts -> [Connections -> Labels]]
             /\ lived' \subseteq Contacts \X Connections \X Labels
             /\ missed' \cup beyond' \cup stray' \subseteq Said'
  <2>1. p \in Publications /\ flying = {p} /\ log \in Seq(Publications)
    BY InFlight DEF InboundTypeOK
  <2>2. log' \in Seq(Publications)
    BY <1>9, <2>1, StowTyped DEF Land, Fail
  <2>3. /\ UNCHANGED <<batch, consent, beyond, stray>> /\ Ended(p)
        /\ missed' = missed \/ missed' = missed \cup Ids(flying)
    BY <1>9, <2>1 DEF Land, Fail
  <2> QED BY <1>0, <2>1, <2>2, <2>3 DEF Ended, InboundTypeOK
<1>10. CASE Die
  <2>1. log' = log \/ \E p \in flying : Stow(p)
    BY <1>10 DEF Die
  <2>2. log' \in Seq(Publications)
    BY <2>1, StowTyped, InFlight DEF InboundTypeOK
  <2>3. /\ UNCHANGED <<consent, beyond, stray>>
        /\ missed' = missed \cup InHand \/ missed' = missed \cup InHand \cup Ids(flying)
        /\ batch' = {} /\ current' = Nothing /\ flying' = {} /\ lived' = {}
    BY <1>10 DEF Die
  <2> QED BY <1>0, <2>2, <2>3 DEF InboundTypeOK
<1> QED BY Moves, <1>2, <1>3, <1>4, <1>5, <1>6, <1>7, <1>8, <1>9, <1>10

LEMMA InboundTyped ==
  ASSUME InboundTypeOK, HandInv, FlightInv, BatchInv, [InboundNext]_inboundVars
  PROVE  InboundTypeOK'
<1>1. TimelineKept /\ world' = world
  BY TimelineStep
<1> QED BY <1>1, RoomsStep, LoopTyped DEF TimelineKept, InboundTypeOK

-----------------------------------------------------------------------------
(* What is in hand, and what is in flight.                                   *)

\* The draft stays in hand, or goes on to its next stage.
LEMMA HandGoesOn ==
  ASSUME InboundTypeOK, HandInv, BatchInv, [InboundNext]_inboundVars,
         current # Nothing => /\ current' \in Drafts /\ current'.room = current.room /\ current'.idx = current.idx
                              /\ current'.by = current.by /\ current'.connection = current.connection
                              /\ current'.label = current.label
                              /\ current'.stage = "quoting" => current.stage = "quoting"
                              /\ current'.excerpt \in Contacts /\ current'.excerpt # current.excerpt =>
                                   /\ current.stage = "quoting"
                                   /\ <<current'.excerpt, current.connection, "granted">> \in InForce
                              /\ lived \subseteq lived' /\ InForce' \subseteq lived',
         current = Nothing => current' = Nothing
  PROVE  HandInv'
<1> SUFFICES ASSUME current # Nothing PROVE HandInv'
  BY DEF HandInv
<1>0. PICK r \in Rooms : r = current.room
  BY DEF InboundTypeOK, Drafts
<1>1. current \in Drafts /\ current.room = r /\ world' = world
  BY <1>0, TimelineStep DEF InboundTypeOK
<1>2. SaidIn(r) \subseteq SaidIn(r)' /\ seen[r] <= seen'[r]
  BY TimelineStep, SaidKept, RoomsStep
<1>3. seen[r] \in Nat /\ seen'[r] \in Nat /\ current.idx \in Nat
  BY <1>1, RoomsStep DEF InboundTypeOK, Drafts
<1>4. current'.room = r /\ current'.idx = current.idx
  BY <1>0
<1>5. current.idx \in {0} \cup SaidIn(r) /\ current.idx <= seen[r]
  BY <1>0 DEF HandInv, SaidIn
<1>6. current'.idx \in {0} \cup SaidIn(r)' /\ current'.idx <= seen'[r]
  BY <1>2, <1>3, <1>4, <1>5
<1>7. /\ current'.connection = world'.account[current'.room]
      /\ InForce' \subseteq lived'
      /\ current'.by \in Contacts => <<current'.by, current'.connection, current'.label>> \in lived'
      /\ current'.stage = "quoting" => current'.label # "revoked"
  BY <1>1 DEF HandInv
<1>8. current'.excerpt \in Contacts =>
         current'.label # "revoked" /\ <<current'.excerpt, current'.connection, "granted">> \in lived'
  BY DEF HandInv
<1> QED BY <1>4, <1>6, <1>7, <1>8 DEF HandInv, SaidIn

LEMMA HandStep ==
  ASSUME InboundTypeOK, HandInv, FlightInv, BatchInv, [InboundNext]_inboundVars
  PROVE  HandInv' /\ FlightInv'
<1>1. CASE Aside
  <2>1. InForce' = InForce
    BY <1>1 DEF Aside, InForce
  <2>2. HandInv'
    BY <1>1, <2>1, HandGoesOn DEF Aside, HandInv, InboundTypeOK
  <2>3. FlightInv'
    BY <1>1 DEF Aside, FlightInv, Publication
  <2> QED BY <2>2, <2>3
<1>2. CASE Decided
  <2>1. PICK c \in Contacts, k \in Connections, label \in Labels :
          /\ consent' = [consent EXCEPT ![c][k] = label]
          /\ lived' = IF current = Nothing THEN lived ELSE lived \cup {<<c, k, label>>}
    BY <1>2 DEF Decided
  <2>2. ASSUME NEW d \in Contacts, NEW j \in Connections
        PROVE  consent'[d][j] = consent[d][j] \/ (d = c /\ j = k /\ consent'[d][j] = label)
    BY <2>1 DEF InboundTypeOK
  <2>3. InForce' \subseteq InForce \cup {<<c, k, label>>}
    BY <2>2 DEF InForce
  <2>4. UNCHANGED <<current, flying>>
    BY <1>2 DEF Decided
  <2>5. current # Nothing => lived \subseteq lived' /\ InForce' \subseteq lived'
    BY <2>1, <2>3 DEF HandInv
  <2>6. HandInv'
    BY <2>4, <2>5, HandGoesOn DEF InboundTypeOK
  <2>7. FlightInv'
    BY <2>4 DEF FlightInv, Publication
  <2> QED BY <2>6, <2>7
<1>3. CASE Sync \/ \E e \in batch : Dismissed(e)
  <2>1. current = Nothing /\ UNCHANGED <<current, flying>>
    BY <1>3 DEF Sync, Dismissed
  <2> QED BY <2>1 DEF HandInv, FlightInv, Publication
<1>4. ASSUME NEW e \in batch, Begun(e) PROVE HandInv' /\ FlightInv'
  <2>1. /\ current = Nothing /\ current' \in Drafts /\ flying' = flying /\ lived' = InForce
        /\ current'.stage \in {"ready", "quoting"} /\ current'.idx = e.idx
        /\ current'.room \in Rooms /\ current'.excerpt = "none"
        /\ current'.connection = world.account[current'.room]
        /\ current'.by \in Contacts => <<current'.by, current'.connection, current'.label>> \in InForce
        /\ current'.stage = "quoting" => current'.label # "revoked"
        /\ consent' = consent /\ seen' = seen
        /\ e.what = "presence" \/ (e.what = "message" /\ current'.room = e.room)
    BY <1>4 DEF Begun
  <2>2. FlightInv'
    BY <2>1 DEF FlightInv
  <2>3. InForce' = InForce /\ world' = world /\ TimelineKept
    BY <2>1, TimelineStep DEF InForce
  <2>4. PICK r \in Rooms : r = current'.room
    BY <2>1
  <2>5. current'.idx \in {0} \cup SaidIn(r)' /\ current'.idx <= seen[r]
    <3>1. CASE e.what = "presence"
      BY <2>1, <2>4, <3>1 DEF BatchInv, InboundTypeOK
    <3>2. CASE e.what = "message" /\ current'.room = e.room
      <4>1. e.idx \in SaidIn(r) /\ e.idx <= seen[r]
        BY <2>4, <3>2 DEF BatchInv, SaidIn
      <4> QED BY <2>1, <2>3, <4>1, SaidKept
    <3> QED BY <2>1, <3>1, <3>2
  <2>6. "none" \notin Contacts
    BY PeopleAssumption
  <2> QED BY <2>1, <2>2, <2>3, <2>4, <2>5, <2>6 DEF HandInv, SaidIn
<1>5. CASE Quote
  <2> DEFINE a == timeline[current.room][Message(current).quotes].by
             x == IF Quotable(a) THEN a ELSE "none"
  <2>1. /\ current # Nothing /\ current.stage = "quoting"
        /\ \/ current' = [current EXCEPT !.stage = "ready"]
           \/ current' = [current EXCEPT !.stage = "ready", !.excerpt = x]
        /\ UNCHANGED <<flying, lived, consent>>
    BY <1>5 DEF Quote, histVars
  <2>2. current \in Drafts /\ current.connection \in Connections
    BY <2>1 DEF InboundTypeOK, Drafts
  <2>3. ASSUME x \in Contacts
        PROVE  <<x, current.connection, "granted">> \in InForce
    <3>1. x = a /\ Quotable(a) /\ a \in Contacts \ {"self", "owner"}
      BY <2>3, PeopleAssumption
    <3>2. consent[a][current.connection] = "granted"
      BY <3>1 DEF Quotable
    <3> HIDE DEF a
    <3> QED BY <2>2, <3>1, <3>2 DEF InForce
  <2>4. x \in Contacts \cup {"none", "owner", "self"}
    BY DEF Quotable
  <2> HIDE DEF x
  <2>5. /\ current' \in Drafts /\ current'.stage = "ready" /\ current'.excerpt \in {current.excerpt, x}
        /\ current'.room = current.room /\ current'.idx = current.idx /\ current'.by = current.by
        /\ current'.connection = current.connection /\ current'.label = current.label
    BY <2>1, <2>2, <2>4 DEF Drafts
  <2>6. InForce' = InForce
    BY <2>1 DEF InForce
  <2>7. HandInv'
    BY <2>1, <2>3, <2>5, <2>6, HandGoesOn DEF HandInv
  <2>8. FlightInv'
    BY <2>1, <2>5 DEF FlightInv
  <2> QED BY <2>7, <2>8
<1>6. CASE Spawn
  <2>1. /\ current # Nothing /\ current.stage = "ready"
        /\ current' = [current EXCEPT !.stage = "awaiting"] /\ flying' = flying \cup {Publication}
        /\ UNCHANGED <<lived, consent>>
    BY <1>6 DEF Spawn, histVars
  <2>2. current \in Drafts
    BY <2>1 DEF InboundTypeOK
  <2>3. /\ current' \in Drafts /\ current'.stage = "awaiting" /\ current'.excerpt = current.excerpt
        /\ current'.room = current.room /\ current'.idx = current.idx /\ current'.by = current.by
        /\ current'.connection = current.connection /\ current'.label = current.label
    BY <2>1, <2>2 DEF Drafts
  <2>4. InForce' = InForce
    BY <2>1 DEF InForce
  <2>5. HandInv'
    BY <2>1, <2>3, <2>4, HandGoesOn DEF HandInv
  <2>6. current' # Nothing
    BY <2>3 DEF Nothing
  <2>7. Publication' = Publication /\ flying = {}
    BY <2>1, <2>3 DEF Publication, FlightInv
  <2>8. FlightInv'
    BY <2>1, <2>3, <2>6, <2>7 DEF FlightInv
  <2> QED BY <2>5, <2>8
<1>7. CASE Shutdown
  <2>1. current' = IF flying = {} THEN Nothing ELSE current
    BY <1>7 DEF Shutdown
  <2>2. UNCHANGED <<flying, lived, consent>>
    BY <1>7 DEF Shutdown
  <2>3. InForce' = InForce
    BY <2>2 DEF InForce
  <2>4. CASE flying = {}
    BY <2>1, <2>2, <2>4 DEF HandInv, FlightInv
  <2>5. CASE flying # {}
    <3>1. HandInv'
      BY <2>1, <2>2, <2>3, <2>5, HandGoesOn DEF HandInv, InboundTypeOK
    <3>2. FlightInv'
      BY <2>1, <2>2, <2>5 DEF FlightInv, Publication
    <3> QED BY <3>1, <3>2
  <2> QED BY <2>4, <2>5
<1>8. ASSUME NEW p \in flying, Land(p) \/ Fail(p) PROVE HandInv' /\ FlightInv'
  <2>1. current' = Nothing /\ flying' = flying \ {p} /\ flying = {p}
    BY <1>8, InFlight DEF Land, Fail, Ended
  <2> QED BY <2>1 DEF HandInv, FlightInv
<1>9. CASE Die
  BY <1>9 DEF Die, HandInv, FlightInv
<1> QED BY Moves, <1>1, <1>2, <1>3, <1>4, <1>5, <1>6, <1>7, <1>8, <1>9

-----------------------------------------------------------------------------
(* The order of a room.                                                      *)

BatchEvent(e) ==
  /\ e.what = "message" =>
       /\ e.room \in Rooms /\ e.by = "none"
       /\ e.idx \in SaidIn(e.room) /\ e.idx <= seen[e.room]
       /\ current # Nothing /\ current.room = e.room => current.idx < e.idx
  /\ e.what # "message" => e.idx = 0
  /\ e.what = "presence" => e.by \in Contacts
  /\ e.what \in {"create", "invite"} => e.room \in Rooms

LEMMA BatchEvents == BatchInv <=> \A e \in batch : BatchEvent(e)
BY DEF BatchInv, BatchEvent

\* An event still to come stays one, if what is in hand of its room is before it.
LEMMA StillToCome ==
  ASSUME InboundTypeOK, BatchInv, [InboundNext]_inboundVars, NEW e \in batch,
         e.what = "message" /\ current' # Nothing /\ current'.room = e.room => current'.idx < e.idx
  PROVE  BatchEvent(e)'
<1>0. BatchEvent(e)
  BY BatchEvents
<1>1. CASE e.what = "message"
  <2>1. PICK r \in Rooms : r = e.room
    BY <1>0, <1>1 DEF BatchEvent
  <2>2. SaidIn(r) \subseteq SaidIn(r)' /\ seen[r] <= seen'[r] /\ seen[r] \in Nat /\ seen'[r] \in Nat
    BY TimelineStep, SaidKept, RoomsStep DEF InboundTypeOK
  <2>3. e.idx \in SaidIn(r) /\ e.idx <= seen[r] /\ e.by = "none"
    BY <1>0, <1>1, <2>1 DEF BatchEvent, SaidIn
  <2>4. e.idx \in Nat
    BY DEF InboundTypeOK, Events
  <2>5. e.idx \in SaidIn(r)' /\ e.idx <= seen'[r]
    BY <2>2, <2>3, <2>4
  <2> QED BY <1>1, <2>1, <2>3, <2>5 DEF BatchEvent, SaidIn
<1>2. CASE e.what # "message"
  BY <1>0, <1>2 DEF BatchEvent
<1> QED BY <1>1, <1>2

\* What a response brings of a room is past what the token was past.
LEMMA ResponseIsNew ==
  ASSUME InboundTypeOK, Sync, NEW e \in batch'
  PROVE  /\ e.what = "message" =>
              /\ e.room \in Joined /\ e.by = "none" /\ e.idx \in SaidIn(e.room) /\ First(e.room) <= e.idx
              /\ seen[e.room] < e.idx /\ e.idx <= seen'[e.room]
         /\ e.what # "message" => e.idx = 0
         /\ e.what = "presence" => e.by \in Contacts
         /\ e.what \in {"create", "invite"} => e.room \in Rooms
<1>1. PICK shown \in SUBSET Visible :
          batch' = {Event("invite", r, 0, "none") : r \in Invites}
                   \cup {Event("presence", "none", 0, c) : c \in shown}
                   \cup UNION {Part(r) : r \in Joined}
  BY DEF Sync
<1>2. CASE \E r \in Invites : e = Event("invite", r, 0, "none")
  BY <1>2 DEF Event, Invites
<1>3. CASE \E c \in shown : e = Event("presence", "none", 0, c)
  BY <1>3 DEF Event, Visible
<1>4. ASSUME NEW r \in Joined, e \in Part(r)
      PROVE  /\ e.what = "message" =>
              /\ e.room \in Joined /\ e.by = "none" /\ e.idx \in SaidIn(e.room) /\ First(e.room) <= e.idx
              /\ seen[e.room] < e.idx /\ e.idx <= seen'[e.room]
             /\ e.what # "message" => e.idx = 0
             /\ e.what = "presence" => e.by \in Contacts
             /\ e.what \in {"create", "invite"} => e.room \in Rooms
  <2>1. CASE \E q \in {r} \ known : e = Event("create", q, 0, "none")
    BY <2>1 DEF Event, Joined
  <2>2. ASSUME NEW i \in SaidIn(r), First(r) <= i, e = Event("message", r, i, "none")
        PROVE  /\ e.what = "message" /\ e.room = r /\ e.by = "none" /\ e.idx = i
               /\ seen[r] < i /\ i <= seen'[r]
    <3>1. seen[r] \in Nat /\ Len(timeline[r]) \in Nat /\ Limit \in Nat /\ i \in 1..Len(timeline[r])
      BY BoundsAssumption, LenProperties DEF InboundTypeOK, Joined, SaidIn
    <3>2. seen'[r] = Len(timeline[r])
      BY DEF Sync, Joined
    <3> QED BY <2>2, <3>1, <3>2 DEF First, Event
  <2>3. (\E q \in {r} \ known : e = Event("create", q, 0, "none"))
          \/ \E i \in SaidIn(r) : First(r) <= i /\ e = Event("message", r, i, "none")
    BY <1>4 DEF Part
  <2> QED BY <2>1, <2>2, <2>3
<1> QED BY <1>1, <1>2, <1>3, <1>4

\* The events of one room are taken in their order.
LEMMA TakenInOrder ==
  ASSUME InboundTypeOK, BatchInv, NEW e \in batch, Begun(e),
         NEW f \in batch, f # e, f.what = "message", f.room = current'.room
  PROVE  current'.idx < f.idx
<1>0. e \in Events /\ f \in Events /\ f.idx \in Nat /\ e.idx \in Nat /\ f.idx # 0 /\ f.by = "none"
  BY DEF InboundTypeOK, Events, BatchInv, SaidIn
<1>1. current'.idx = e.idx
  BY DEF Begun
<1>2. CASE e.what = "presence"
  BY <1>0, <1>1, <1>2 DEF BatchInv
<1>3. CASE e.what = "message" /\ current'.room = e.room /\ ~Earlier(f, e)
  <2>1. f.room = e.room /\ ~(f.idx < e.idx)
    BY <1>3 DEF Earlier
  <2>2. e.by = "none"
    BY <1>3 DEF BatchInv
  <2>3. f.idx # e.idx
    BY <1>0, <1>3, <2>1, <2>2 DEF Events
  <2> QED BY <1>0, <1>1, <2>1, <2>3
<1> QED BY <1>2, <1>3 DEF Begun

LEMMA BatchStep ==
  ASSUME InboundTypeOK, HandInv, FlightInv, BatchInv, [InboundNext]_inboundVars
  PROVE  BatchInv'
<1>0. SUFFICES ASSUME NEW e \in batch' PROVE BatchEvent(e)'
  BY DEF BatchInv, BatchEvent
<1>1. CASE Sync
  <2>1. current' = Nothing
    BY <1>1 DEF Sync
  <2>2. /\ e.what = "message" =>
             /\ e.room \in Joined /\ e.by = "none" /\ e.idx \in SaidIn(e.room) /\ First(e.room) <= e.idx
             /\ seen[e.room] < e.idx /\ e.idx <= seen'[e.room]
        /\ e.what # "message" => e.idx = 0
        /\ e.what = "presence" => e.by \in Contacts
        /\ e.what \in {"create", "invite"} => e.room \in Rooms
    BY <1>1, ResponseIsNew
  <2>3. timeline' = timeline /\ Joined \subseteq Rooms
    BY <1>1 DEF Sync, Joined
  <2> QED BY <2>1, <2>2, <2>3 DEF BatchEvent, SaidIn
<1>2. ASSUME NEW f \in batch, Begun(f) PROVE BatchEvent(e)'
  <2>1. e \in batch /\ e # f
    BY <1>2 DEF Begun
  <2>2. e.what = "message" /\ current' # Nothing /\ current'.room = e.room => current'.idx < e.idx
    BY <1>2, <2>1, TakenInOrder
  <2> QED BY <2>1, <2>2, StillToCome
<1>3. ASSUME batch' \subseteq batch,
             current' = Nothing \/ (current # Nothing /\ current'.room = current.room /\ current'.idx = current.idx)
      PROVE  BatchEvent(e)'
  <2>1. e \in batch
    BY <1>3
  <2>2. e.what = "message" /\ current' # Nothing /\ current'.room = e.room => current'.idx < e.idx
    BY <1>3, <2>1 DEF BatchInv
  <2> QED BY <2>1, <2>2, StillToCome
<1>4. CASE Quote \/ Spawn
  <2>1. batch' = batch /\ current # Nothing /\ current \in Drafts
    BY <1>4 DEF Quote, Spawn, InboundTypeOK
  <2>2. \E x : current' \in {[current EXCEPT !.stage = "ready"], [current EXCEPT !.stage = "awaiting"],
                             [current EXCEPT !.stage = "ready", !.excerpt = x]}
    BY <1>4 DEF Quote, Spawn
  <2>3. current'.room = current.room /\ current'.idx = current.idx
    BY <2>1, <2>2 DEF Drafts
  <2> QED BY <1>3, <2>1, <2>3
<1>5. CASE Aside \/ Decided \/ (\E f \in batch : Dismissed(f))
  <2>1. batch' \subseteq batch /\ current' = current
    BY <1>5 DEF Aside, Decided, Dismissed
  <2> QED BY <1>3, <2>1
<1>6. CASE Shutdown \/ Die
  BY <1>0, <1>6 DEF Shutdown, Die
<1>7. CASE \E p \in flying : Land(p) \/ Fail(p)
  <2>1. batch' = batch /\ current' = Nothing
    BY <1>7 DEF Land, Fail, Ended
  <2> QED BY <1>3, <2>1
<1> QED BY Moves, <1>1, <1>2, <1>4, <1>5, <1>6, <1>7

Before(n) ==
  /\ log[n].idx <= seen[log[n].room]
  /\ \A e \in batch : e.what = "message" /\ e.room = log[n].room => log[n].idx < e.idx
  /\ current # Nothing /\ current.idx # 0 /\ current.room = log[n].room => log[n].idx < current.idx

LEMMA LogBefore == LogInv <=> \A n \in DOMAIN log : log[n].idx # 0 => Before(n)
BY DEF LogInv, Before

LEMMA LogRows ==
  ASSUME InboundTypeOK, NEW n \in DOMAIN log
  PROVE  /\ log[n] \in Publications /\ log[n].room \in Rooms /\ log[n].idx \in Nat
         /\ n \in 1..Len(log) /\ Len(log) \in Nat
<1>1. log[n] \in Publications /\ n \in 1..Len(log) /\ Len(log) \in Nat
  BY ElementOfSeq, LenProperties DEF InboundTypeOK
<1> QED BY <1>1 DEF Publications

\* What was published before stays before what is left, when nothing is added.
LEMMA StaysBefore ==
  ASSUME InboundTypeOK, BatchInv, [InboundNext]_inboundVars,
         NEW n \in DOMAIN log, log[n].idx # 0, Before(n), log'[n] = log[n],
         \A e \in batch' : e.what = "message" /\ e.room = log[n].room => log[n].idx < e.idx,
         current' # Nothing /\ current'.idx # 0 /\ current'.room = log[n].room => log[n].idx < current'.idx
  PROVE  Before(n)'
<1>1. PICK r \in Rooms : r = log[n].room
  BY LogRows
<1>2. log[n].idx \in Nat /\ seen[r] \in Nat /\ seen'[r] \in Nat /\ seen[r] <= seen'[r]
  BY LogRows, RoomsStep DEF InboundTypeOK
<1>3. log[n].idx <= seen'[r]
  BY <1>1, <1>2 DEF Before
<1> QED BY <1>1, <1>3 DEF Before

LEMMA LogStep ==
  ASSUME InboundTypeOK, HandInv, FlightInv, BatchInv, LogInv, InOrder, [InboundNext]_inboundVars
  PROVE  LogInv' /\ InOrder'
<1>0. \A n \in DOMAIN log : log[n].idx # 0 => Before(n)
  BY LogBefore
<1>1. ASSUME log' = log,
             \A n \in DOMAIN log : log[n].idx # 0 => Before(n)'
      PROVE  LogInv' /\ InOrder'
  BY <1>1 DEF LogInv, Before, InOrder
<1>2. CASE Sync
  <2>1. log' = log /\ current' = Nothing
    BY <1>2 DEF Sync
  <2>2. ASSUME NEW n \in DOMAIN log, log[n].idx # 0 PROVE Before(n)'
    <3>1. ASSUME NEW e \in batch', e.what = "message", e.room = log[n].room PROVE log[n].idx < e.idx
      <4>1. e.idx \in SaidIn(e.room) /\ seen[e.room] < e.idx /\ e.room \in Rooms
        BY <1>2, <3>1, ResponseIsNew DEF Joined
      <4>2. e.idx \in Nat /\ seen[e.room] \in Nat /\ log[n].idx \in Nat
        BY <4>1, LogRows DEF SaidIn, InboundTypeOK
      <4>3. log[n].idx <= seen[e.room]
        BY <1>0, <2>2, <3>1 DEF Before
      <4> QED BY <4>1, <4>2, <4>3
    <3> QED BY <1>0, <2>1, <2>2, <3>1, StaysBefore
  <2> QED BY <1>1, <2>1, <2>2
<1>3. ASSUME NEW f \in batch, Begun(f) PROVE LogInv' /\ InOrder'
  <2>1. log' = log /\ batch' \subseteq batch /\ current'.idx = f.idx
    BY <1>3 DEF Begun
  <2>2. ASSUME NEW n \in DOMAIN log, log[n].idx # 0 PROVE Before(n)'
    <3>1. current'.idx # 0 /\ current'.room = log[n].room => log[n].idx < current'.idx
      <4>1. f.what = "presence" => f.idx = 0
        BY DEF BatchInv
      <4> QED BY <1>0, <1>3, <2>1, <2>2, <4>1 DEF Before, Begun
    <3> QED BY <1>0, <2>1, <2>2, <3>1, StaysBefore DEF Before
  <2> QED BY <1>1, <2>1, <2>2
<1>4. ASSUME log' = log, batch' \subseteq batch,
             current' = Nothing \/ (current # Nothing /\ current'.room = current.room /\ current'.idx = current.idx)
      PROVE  LogInv' /\ InOrder'
  <2>1. ASSUME NEW n \in DOMAIN log, log[n].idx # 0 PROVE Before(n)'
    BY <1>0, <1>4, <2>1, StaysBefore DEF Before
  <2> QED BY <1>1, <1>4, <2>1
<1>5. ASSUME NEW p \in flying, Stow(p), batch' \subseteq batch, current' = Nothing
      PROVE  LogInv' /\ InOrder'
  <2>1. /\ current # Nothing /\ p \in Publications /\ p.idx = current.idx /\ p.room = current.room
        /\ p.room \in Rooms /\ p.idx \in Nat
    BY InFlight DEF Nothing, Publications, Drafts
  <2>2. \/ log' = log
        \/ /\ Len(log') = Len(log) + 1 /\ log'[Len(log) + 1] = p /\ Len(log) \in Nat
           /\ \A n \in 1..Len(log) : log'[n] = log[n]
           /\ log' \in Seq(Publications)
    BY <1>5, <2>1, StowTyped DEF InboundTypeOK
  <2>3. CASE log' = log
    BY <1>4, <1>5, <2>3
  <2>4. CASE /\ Len(log') = Len(log) + 1 /\ log'[Len(log) + 1] = p /\ Len(log) \in Nat
             /\ \A n \in 1..Len(log) : log'[n] = log[n]
             /\ log' \in Seq(Publications)
    <3>0. DOMAIN log = 1..Len(log) /\ DOMAIN log' = 1..Len(log) + 1
      BY <2>4 DEF InboundTypeOK
    <3>1. ASSUME NEW n \in 1..Len(log), log[n].idx # 0 PROVE Before(n)'
      BY <1>0, <1>5, <2>4, <3>0, <3>1, StaysBefore DEF Before
    <3>2. ASSUME NEW k, k = Len(log) + 1, p.idx # 0 PROVE Before(k)'
      <4>1. PICK r \in Rooms : r = p.room
        BY <2>1
      <4>2. p.idx <= seen[r] /\ seen[r] \in Nat /\ seen'[r] \in Nat /\ seen[r] <= seen'[r]
        BY <2>1, <4>1, RoomsStep DEF HandInv, InboundTypeOK
      <4>4. log'[k] = p
        BY <2>4, <3>2
      <4>5. \A e \in batch' : e.what = "message" /\ e.room = p.room => p.idx < e.idx
        BY <1>5, <2>1 DEF BatchInv
      <4>6. p.idx <= seen'[p.room]
        BY <2>1, <4>1, <4>2
      <4> QED BY <1>5, <4>4, <4>5, <4>6 DEF Before
    <3>3. LogInv'
      <4>1. ASSUME NEW n \in DOMAIN log', log'[n].idx # 0 PROVE Before(n)'
        <5>1. CASE n \in 1..Len(log)
          BY <2>4, <3>1, <4>1, <5>1
        <5>2. CASE n = Len(log) + 1
          BY <2>4, <3>2, <4>1, <5>2
        <5> QED BY <2>4, <3>0, <5>1, <5>2
      <4> QED BY <4>1 DEF LogInv, Before
    <3>4. InOrder'
      <4>1. ASSUME NEW m \in 1..Len(log), NEW n \in 1..Len(log) + 1, m < n,
                   log'[m].room = log'[n].room, log'[m].idx # 0, log'[n].idx # 0
            PROVE  log'[m].idx < log'[n].idx
        <5>1. CASE n \in 1..Len(log)
          BY <2>4, <3>0, <4>1, <5>1 DEF InOrder
        <5>2. CASE n = Len(log) + 1
          BY <1>0, <2>1, <2>4, <3>0, <4>1, <5>2 DEF Before
        <5> QED BY <2>4, <5>1, <5>2
      <4>2. \A m, n \in DOMAIN log' : m < n => m \in 1..Len(log) /\ n \in 1..Len(log) + 1
        BY <2>4, <3>0
      <4> QED BY <4>1, <4>2 DEF InOrder
    <3> QED BY <3>3, <3>4
  <2> QED BY <2>2, <2>3, <2>4
<1>6. CASE Quote \/ Spawn
  <2>1. log' = log /\ batch' = batch /\ current # Nothing /\ current \in Drafts
    BY <1>6 DEF Quote, Spawn, InboundTypeOK
  <2>2. \E x : current' \in {[current EXCEPT !.stage = "ready"], [current EXCEPT !.stage = "awaiting"],
                             [current EXCEPT !.stage = "ready", !.excerpt = x]}
    BY <1>6 DEF Quote, Spawn
  <2>3. current'.room = current.room /\ current'.idx = current.idx
    BY <2>1, <2>2 DEF Drafts
  <2> QED BY <1>4, <2>1, <2>3
<1>7. CASE Aside \/ Decided \/ (\E f \in batch : Dismissed(f))
  <2>1. log' = log /\ batch' \subseteq batch /\ current' = current
    BY <1>7 DEF Aside, Decided, Dismissed
  <2> QED BY <1>4, <2>1
<1>8. CASE Shutdown
  <2>1. log' = log /\ batch' = {} /\ (current' = Nothing \/ current' = current)
    BY <1>8 DEF Shutdown
  <2> QED BY <1>4, <2>1
<1>9. ASSUME NEW p \in flying, Land(p) \/ Fail(p) PROVE LogInv' /\ InOrder'
  <2>1. batch' = batch /\ current' = Nothing /\ (log' = log \/ Stow(p))
    BY <1>9 DEF Land, Fail, Ended
  <2> QED BY <1>4, <1>5, <2>1
<1>10. CASE Die
  <2>1. batch' = {} /\ current' = Nothing /\ (log' = log \/ \E p \in flying : Stow(p))
    BY <1>10 DEF Die
  <2> QED BY <1>4, <1>5, <2>1
<1> QED BY Moves, <1>2, <1>3, <1>6, <1>7, <1>8, <1>9, <1>10

-----------------------------------------------------------------------------
(* Nothing slips.                                                            *)

Of(e, r, i) == e.idx # 0 /\ e.room = r /\ e.idx = i

Holds(events, c, r, i) ==
  (\E e \in events : Of(e, r, i)) \/ (c # Nothing /\ c.stage # "awaiting" /\ Of(c, r, i))

Kept(r, i) == \E n \in DOMAIN log : log[n].room = r /\ log[n].idx = i

Accounted(r, i) ==
  \/ Kept(r, i) \/ <<r, i>> \in missed \cup beyond \cup stray
  \/ Holds(batch, current, r, i) \/ \E p \in flying : Of(p, r, i)

LEMMA HeldPairs ==
  ASSUME NEW events, NEW c, NEW r, NEW i
  PROVE  <<r, i>> \in Ids(events \cup (IF c = Nothing \/ c.stage = "awaiting" THEN {} ELSE {c}))
           <=> Holds(events, c, r, i)
BY IdsOf DEF Holds, Of

LEMMA FlyingPairs ==
  ASSUME NEW events, NEW r, NEW i
  PROVE  <<r, i>> \in Ids(events) <=> \E p \in events : Of(p, r, i)
BY IdsOf DEF Of

LEMMA AccountedNow ==
  ASSUME InboundTypeOK, NothingSlipped, NEW r \in Rooms, NEW i \in 1..seen[r], Publishable(r, i)
  PROVE  Accounted(r, i)
<1>1. \/ Stored([room |-> r, idx |-> i])
      \/ <<r, i>> \in missed \cup beyond \cup stray \cup InHand \cup Ids(flying)
  BY DEF NothingSlipped
<1>2. CASE Stored([room |-> r, idx |-> i])
  BY <1>2 DEF Stored, Accounted, Kept
<1>3. CASE <<r, i>> \in InHand
  BY <1>3, HeldPairs DEF InHand, Accounted
<1>4. CASE <<r, i>> \in Ids(flying)
  BY <1>4, FlyingPairs DEF Accounted
<1> QED BY <1>1, <1>2, <1>3, <1>4 DEF Accounted

LEMMA AccountedNext ==
  ASSUME \A r \in Rooms : \A i \in 1..seen'[r] : Publishable(r, i)' => Accounted(r, i)',
         seen' \in [Rooms -> Nat]
  PROVE  NothingSlipped'
<1> SUFFICES ASSUME NEW r \in Rooms, NEW i \in 1..seen'[r], Publishable(r, i)'
             PROVE  \/ Stored([room |-> r, idx |-> i])'
                    \/ <<r, i>> \in missed' \cup beyond' \cup stray' \cup InHand' \cup Ids(flying')
  BY DEF NothingSlipped
<1>1. i # 0
  OBVIOUS
<1>2. Accounted(r, i)'
  OBVIOUS
<1>3. CASE Kept(r, i)'
  BY <1>1, <1>3 DEF Kept, Stored
<1>4. CASE Holds(batch', current', r, i)
  BY <1>4, HeldPairs DEF InHand
<1>5. CASE \E p \in flying' : Of(p, r, i)
  BY <1>5, FlyingPairs
<1> QED BY <1>2, <1>3, <1>4, <1>5 DEF Accounted

\* What is publishable was before, where it was read.
LEMMA PublishableBefore ==
  ASSUME InboundTypeOK, TimelineKept, world' = world,
         NEW r \in Rooms, NEW i \in 1..Len(timeline[r]), Publishable(r, i)'
  PROVE  Publishable(r, i) /\ i \in SaidIn(r)
<1>1. timeline'[r][i] = timeline[r][i]
  BY DEF TimelineKept
<1> QED BY <1>1 DEF Publishable, NobodysNews, Message, Event, SaidIn

LEMMA KeptStays ==
  ASSUME log \in Seq(Publications), NEW p \in Publications, Stow(p)
  PROVE  /\ \A r, i : Kept(r, i) => Kept(r, i)'
         /\ p.idx # 0 => Kept(p.room, p.idx)'
<1> DEFINE q == p.room
           j == p.idx
<1>1. \/ log' = log /\ Stored(p)
      \/ /\ Len(log') = Len(log) + 1 /\ log'[Len(log) + 1] = p
         /\ \A n \in 1..Len(log) : log'[n] = log[n]
  BY StowTyped
<1>2. log' \in Seq(Publications) /\ Len(log) \in Nat /\ DOMAIN log = 1..Len(log) /\ DOMAIN log' = 1..Len(log')
  BY StowTyped
<1>3. ASSUME NEW r, NEW i, Kept(r, i) PROVE Kept(r, i)'
  <2>1. PICK n \in DOMAIN log : log[n].room = r /\ log[n].idx = i
    BY <1>3 DEF Kept
  <2>2. n \in DOMAIN log' /\ log'[n] = log[n]
    <3>1. CASE log' = log
      BY <2>1, <3>1
    <3>2. CASE Len(log') = Len(log) + 1 /\ \A m \in 1..Len(log) : log'[m] = log[m]
      <4>1. n \in 1..Len(log)
        BY <1>2, <2>1
      <4>2. n \in 1..Len(log')
        BY <1>2, <3>2, <4>1
      <4> QED BY <1>2, <3>2, <4>1, <4>2
    <3> QED BY <1>1, <3>1, <3>2
  <2> QED BY <2>1, <2>2 DEF Kept
<1>4. ASSUME NEW r, NEW i, r = p.room, i = p.idx, i # 0 PROVE Kept(r, i)'
  <2>1. CASE log' = log /\ Stored(p)
    BY <1>4, <2>1 DEF Kept, Stored
  <2>2. CASE Len(log') = Len(log) + 1 /\ log'[Len(log) + 1] = p
    BY <1>2, <1>4, <2>2 DEF Kept
  <2> QED BY <1>1, <2>1, <2>2
<1> QED BY <1>3, <1>4

LEMMA SlipStep ==
  ASSUME InboundTypeOK, HandInv, FlightInv, BatchInv, NothingSlipped, [InboundNext]_inboundVars
  PROVE  NothingSlipped'
<1>0. TimelineKept /\ world' = world /\ seen' \in [Rooms -> Nat]
  BY TimelineStep, RoomsStep
<1>1. SUFFICES ASSUME NEW r \in Rooms, NEW i \in 1..seen'[r], Publishable(r, i)' PROVE Accounted(r, i)'
  BY <1>0, AccountedNext
<1>2. seen[r] \in Nat /\ Len(timeline[r]) \in Nat /\ seen[r] <= Len(timeline[r]) /\ seen'[r] \in Nat
  BY <1>0 DEF InboundTypeOK, TimelineKept
<1>3. i \in 1..seen[r] => Publishable(r, i) /\ Accounted(r, i)
  BY <1>0, <1>1, <1>2, PublishableBefore, AccountedNow
<1>4. i # 0
  OBVIOUS
<1>5. CASE Sync
  <2>1. batch = {} /\ current = Nothing /\ flying = {} /\ UNCHANGED <<log, missed, stray, timeline>>
    BY <1>5 DEF Sync, FlightInv
  <2>2. beyond' = beyond \cup UNION {{q} \X {k \in SaidIn(q) : seen[q] < k /\ k < First(q)} : q \in Joined}
    BY <1>5 DEF Sync
  <2>3. CASE i \in 1..seen[r]
    <3>1. Kept(r, i) \/ <<r, i>> \in missed \cup beyond \cup stray
      BY <1>3, <2>1, <2>3 DEF Accounted, Holds
    <3>2. Kept(r, i)' <=> Kept(r, i)
      BY <2>1 DEF Kept
    <3> QED BY <2>1, <2>2, <3>1, <3>2 DEF Accounted
  <2>4. CASE i \notin 1..seen[r]
    <3>1. r \in Joined /\ seen'[r] = Len(timeline[r])
      BY <1>2, <1>5, <2>4 DEF Sync
    <3>2. i \in SaidIn(r) /\ seen[r] < i
      BY <1>0, <1>1, <1>2, <2>4, <3>1, PublishableBefore
    <3>3. CASE i < First(r)
      <4>1. <<r, i>> \in {r} \X {k \in SaidIn(r) : seen[r] < k /\ k < First(r)}
        BY <3>2, <3>3
      <4>2. <<r, i>> \in beyond'
        BY <2>2, <3>1, <4>1
      <4> QED BY <4>2 DEF Accounted
    <3>4. CASE ~(i < First(r))
      <4>1. First(r) \in Nat
        BY <1>2, BoundsAssumption DEF First
      <4>2. First(r) <= i
        BY <1>2, <3>4, <4>1
      <4> DEFINE e == Event("message", r, i, "none")
      <4>3. e \in Part(r)
        BY <3>2, <4>2 DEF Part
      <4>4. e \in batch'
        BY <1>5, <3>1, <4>3 DEF Sync
      <4>5. Of(e, r, i)
        BY <1>4 DEF Event, Of
      <4> HIDE DEF e
      <4> QED BY <4>4, <4>5 DEF Accounted, Holds
    <3> QED BY <3>3, <3>4
  <2> QED BY <2>3, <2>4
<1>6. CASE seen' = seen
  <2>0. Publishable(r, i) /\ Accounted(r, i)
    BY <1>3, <1>6
  <2>1. CASE Aside \/ Decided
    <3>1. UNCHANGED <<batch, current, flying, log, missed, beyond, stray>>
      BY <2>1 DEF Aside, Decided
    <3> QED BY <2>0, <3>1 DEF Accounted, Kept
  <2>2. ASSUME NEW e \in batch, Dismissed(e) PROVE Accounted(r, i)'
    <3>1. batch' = batch \ {e} /\ UNCHANGED <<current, flying, log, missed, beyond>> /\ stray \subseteq stray'
      BY <2>2 DEF Dismissed
    <3>2. CASE Of(e, r, i)
      <4>1. e.what = "message" /\ e.room = r /\ e.idx = i
        BY <3>2 DEF BatchInv, Of
      <4>2. ~NobodysNews(e)
        BY <2>0, <4>1 DEF Publishable, NobodysNews, Message, Event
      <4>3. <<r, i>> \in stray'
        BY <2>2, <4>1, <4>2 DEF Dismissed
      <4> QED BY <4>3 DEF Accounted
    <3>3. CASE ~Of(e, r, i)
      BY <2>0, <3>1, <3>3 DEF Accounted, Holds, Kept
    <3> QED BY <3>2, <3>3
  <2>3. ASSUME NEW e \in batch, Begun(e) PROVE Accounted(r, i)'
    <3>1. /\ batch' = batch \ {e} /\ UNCHANGED <<flying, log, missed, beyond, stray>>
          /\ current = Nothing /\ current' \in Drafts /\ current'.stage \in {"ready", "quoting"} /\ current'.idx = e.idx
      BY <2>3 DEF Begun
    <3>2. CASE Of(e, r, i)
      <4>1. e.what = "message"
        BY <3>2 DEF BatchInv, Of
      <4>2. current'.room = e.room
        BY <2>3, <4>1 DEF Begun
      <4>3. current' # Nothing /\ current'.stage # "awaiting" /\ Of(current', r, i)
        BY <3>1, <3>2, <4>2 DEF Nothing, Of
      <4> QED BY <4>3 DEF Accounted, Holds
    <3>3. CASE ~Of(e, r, i)
      BY <2>0, <3>1, <3>3 DEF Accounted, Holds, Kept
    <3> QED BY <3>2, <3>3
  <2>4. CASE Quote
    <3>1. UNCHANGED <<batch, flying, log, missed, beyond, stray>> /\ current \in Drafts
      BY <2>4 DEF Quote, histVars, InboundTypeOK
    <3>2. \E x : current' \in {[current EXCEPT !.stage = "ready"], [current EXCEPT !.stage = "ready", !.excerpt = x]}
      BY <2>4 DEF Quote
    <3>3. current'.room = current.room /\ current'.idx = current.idx /\ current'.stage = "ready"
      BY <3>1, <3>2 DEF Drafts
    <3>4. current' # Nothing
      BY <3>3 DEF Nothing
    <3> QED BY <2>0, <3>1, <3>3, <3>4 DEF Accounted, Holds, Of, Kept
  <2>5. CASE Spawn
    <3>1. UNCHANGED <<batch, log, missed, beyond, stray>> /\ flying' = flying \cup {Publication}
      BY <2>5 DEF Spawn, histVars
    <3>2. Of(current, r, i) => Of(Publication, r, i)
      BY DEF Of, Publication
    <3> QED BY <2>0, <3>1, <3>2 DEF Accounted, Holds, Kept
  <2>6. CASE Shutdown
    <3>1. /\ missed' = missed \cup InHand /\ UNCHANGED <<flying, log, beyond, stray>>
      BY <2>6 DEF Shutdown
    <3>2. Holds(batch, current, r, i) => <<r, i>> \in InHand
      BY HeldPairs DEF InHand
    <3> QED BY <2>0, <3>1, <3>2 DEF Accounted, Kept
  <2>7. ASSUME NEW p \in flying, Land(p) \/ Fail(p) PROVE Accounted(r, i)'
    <3>1. /\ current.stage = "awaiting" /\ flying = {p} /\ p \in Publications /\ log \in Seq(Publications)
      BY InFlight DEF InboundTypeOK
    <3>2. UNCHANGED <<batch, beyond, stray>> /\ missed \subseteq missed'
      BY <2>7 DEF Land, Fail
    <3>3. CASE Land(p)
      <4>1. Stow(p)
        BY <3>3 DEF Land
      <4>2. (\A q, k : Kept(q, k) => Kept(q, k)') /\ (p.idx # 0 => Kept(p.room, p.idx)')
        BY <3>1, <4>1, KeptStays
      <4>3. Of(p, r, i) => Kept(r, i)'
        BY <4>2 DEF Of, Kept
      <4> QED BY <2>0, <3>1, <3>2, <4>2, <4>3 DEF Accounted, Holds
    <3>4. CASE Fail(p)
      <4>1. missed' = missed \cup Ids({p}) /\ log' = log
        BY <3>4 DEF Fail
      <4>2. Of(p, r, i) => <<r, i>> \in missed'
        BY <4>1, FlyingPairs
      <4> QED BY <2>0, <3>1, <3>2, <4>1, <4>2 DEF Accounted, Holds, Kept
    <3> QED BY <2>7, <3>3, <3>4
  <2>8. CASE Die
    <3>1. UNCHANGED <<beyond, stray>> /\ missed \cup InHand \subseteq missed'
      BY <2>8 DEF Die
    <3>2. Holds(batch, current, r, i) => <<r, i>> \in InHand
      BY HeldPairs DEF InHand
    <3>3. CASE log' = log /\ missed' = missed \cup InHand \cup Ids(flying)
      <4>1. (\E p \in flying : Of(p, r, i)) => <<r, i>> \in missed'
        BY <3>3, FlyingPairs
      <4> QED BY <2>0, <3>1, <3>2, <3>3, <4>1 DEF Accounted, Kept
    <3>4. ASSUME NEW p \in flying, Stow(p) PROVE Accounted(r, i)'
      <4>1. flying = {p} /\ p \in Publications /\ log \in Seq(Publications)
        BY InFlight DEF InboundTypeOK
      <4>2. (\A q, k : Kept(q, k) => Kept(q, k)') /\ (p.idx # 0 => Kept(p.room, p.idx)')
        BY <3>4, <4>1, KeptStays
      <4>3. Of(p, r, i) => Kept(r, i)'
        BY <4>2 DEF Of, Kept
      <4> QED BY <2>0, <3>1, <3>2, <4>1, <4>2, <4>3 DEF Accounted
    <3> QED BY <2>8, <3>3, <3>4 DEF Die
  <2> QED BY Moves, <1>5, <2>1, <2>2, <2>3, <2>4, <2>5, <2>6, <2>7, <2>8
<1>7. Sync \/ seen' = seen
  BY Moves DEF Aside, Decided, Dismissed, Begun, Quote, Spawn, Shutdown, Die, Land, Fail, storeVars
<1> QED BY <1>5, <1>6, <1>7

-----------------------------------------------------------------------------
(* What reaches the bus from the rooms.                                      *)

LEMMA InboundStarts == InboundInit => InboundInv
<1> SUFFICES ASSUME InboundInit PROVE InboundInv
  OBVIOUS
<1>1. timeline \in [Rooms -> Seq(Utterances)] /\ \A r \in Rooms : timeline[r] = <<>> /\ Len(timeline[r]) = 0
  BY DEF InboundInit
<1>2. InboundTypeOK
  BY <1>1, BoundsAssumption DEF InboundInit, InboundTypeOK, Labels
<1>3. HandInv /\ FlightInv /\ BatchInv
  BY DEF InboundInit, HandInv, FlightInv, BatchInv
<1>4. DOMAIN log = {}
  BY DEF InboundInit
<1>5. LogInv /\ InOrder
  BY <1>4 DEF LogInv, InOrder
<1>6. NothingSlipped
  BY DEF InboundInit, NothingSlipped
<1> QED BY <1>2, <1>3, <1>5, <1>6 DEF InboundInv

LEMMA InboundSteps == InboundInv /\ [InboundNext]_inboundVars => InboundInv'
<1> SUFFICES ASSUME InboundInv, [InboundNext]_inboundVars PROVE InboundInv'
  OBVIOUS
<1>1. InboundTypeOK /\ HandInv /\ FlightInv /\ BatchInv /\ LogInv /\ InOrder /\ NothingSlipped
  BY DEF InboundInv
<1>2. InboundTypeOK'
  BY <1>1, InboundTyped
<1>3. HandInv' /\ FlightInv'
  BY <1>1, HandStep
<1>4. BatchInv'
  BY <1>1, BatchStep
<1>5. LogInv' /\ InOrder'
  BY <1>1, LogStep
<1>6. NothingSlipped'
  BY <1>1, SlipStep
<1> QED BY <1>2, <1>3, <1>4, <1>5, <1>6 DEF InboundInv

LEMMA InboundAlways == InboundSpec => []InboundInv
BY InboundStarts, InboundSteps, PTL DEF InboundSpec

\* What a step adds to the bus is what was in hand.
LEMMA AddedWasInHand ==
  ASSUME InboundInv, [InboundNext]_inboundVars, NEW n \in DOMAIN log' \ DOMAIN log
  PROVE  /\ current \in Drafts /\ log'[n].room = current.room /\ log'[n].by = current.by
         /\ log'[n].connection = current.connection /\ log'[n].label = current.label
         /\ log'[n].excerpt = current.excerpt
<1>1. log \in Seq(Publications) /\ InboundTypeOK /\ BatchInv /\ FlightInv
  BY DEF InboundInv, InboundTypeOK
<1>2. log' # log
  OBVIOUS
<1>3. PICK p \in flying : Stow(p)
  BY <1>1, <1>2, Moves DEF Aside, Decided, Sync, Dismissed, Begun, Quote, Spawn, Shutdown, Die, Land, Fail
<1>4. /\ current \in Drafts /\ p \in Publications /\ p.room = current.room /\ p.by = current.by
      /\ p.excerpt = current.excerpt /\ p.connection = current.connection /\ p.label = current.label
  BY <1>1, InFlight
<1>5. Len(log') = Len(log) + 1 /\ log'[Len(log) + 1] = p /\ log' \in Seq(Publications) /\ Len(log) \in Nat
  BY <1>1, <1>2, <1>3, <1>4, StowTyped
<1>6. n = Len(log) + 1
  BY <1>1, <1>5
<1> QED BY <1>4, <1>5, <1>6

\* Every reachable state of the Sensor's way in is well typed.
THEOREM InboundTypeCorrect == InboundSpec => []InboundTypeOK
<1>1. InboundInv => InboundTypeOK
  BY DEF InboundInv
<1> QED BY <1>1, InboundAlways, PTL

\* InOrder: a room's events are on the bus in the room's order and each once,
\* through restarts, shutdowns and crashes (PublishTracker::publish).
THEOREM RoomsKeepTheirOrder == InboundSpec => []InOrder
<1>1. InboundInv => InOrder
  BY DEF InboundInv
<1> QED BY <1>1, InboundAlways, PTL

\* NothingSlipped: what the token is past is on the bus, on its way, or
\* accounted for (the drain of PublishTracker).
THEOREM WhatIsPastIsAccountedFor == InboundSpec => []NothingSlipped
<1>1. InboundInv => NothingSlipped
  BY DEF InboundInv
<1> QED BY <1>1, InboundAlways, PTL

\* TruthfullyLabelled: an event carries its room's own connection, a decision
\* about its sender in force while it was handled, and nobody's words but
\* those it may (connection_of, quoted_message, QuotedExcerpt::publishable).
THEOREM EventsAreTruthfullyLabelled == InboundSpec => TruthfullyLabelled
<1>1. ASSUME InboundInv, [InboundNext]_inboundVars
      PROVE  [\A n \in DOMAIN log' \ DOMAIN log :
                LET e == log'[n] IN
                  /\ e.connection = world.account[e.room]
                  /\ e.by \in Contacts => <<e.by, e.connection, e.label>> \in lived
                  /\ e.excerpt \in Contacts =>
                       /\ e.label # "revoked"
                       /\ <<e.excerpt, e.connection, "granted">> \in lived]_inboundVars
  <2>1. ASSUME NEW n \in DOMAIN log' \ DOMAIN log
        PROVE  LET e == log'[n] IN
                 /\ e.connection = world.account[e.room]
                 /\ e.by \in Contacts => <<e.by, e.connection, e.label>> \in lived
                 /\ e.excerpt \in Contacts =>
                      /\ e.label # "revoked"
                      /\ <<e.excerpt, e.connection, "granted">> \in lived
    <3>1. /\ current \in Drafts /\ log'[n].room = current.room /\ log'[n].by = current.by
          /\ log'[n].connection = current.connection /\ log'[n].label = current.label
          /\ log'[n].excerpt = current.excerpt
      BY <1>1, AddedWasInHand
    <3>2. current # Nothing
      BY <3>1 DEF Drafts, Nothing
    <3>3. HandInv
      BY <1>1 DEF InboundInv
    <3> QED BY <3>1, <3>2, <3>3 DEF HandInv
  <2> QED BY <2>1
<1> QED BY <1>1, InboundAlways, PTL DEF InboundSpec, TruthfullyLabelled
=============================================================================
