---------------------------- MODULE ReplyProofs ----------------------------
(* Proofs about the owner's decision on a suggestion.  Approval: for any     *)
(* number of concurrent requests, any texts and any number of changes,       *)
(* failures and early expiries.  The Clerk, which carries the decision made  *)
(* on the relay: for any finite set of suggestions, and any number of        *)
(* gestures and mishaps.                                                     *)
EXTENDS Approval, Clerk, TLAPS, SequenceTheorems

-----------------------------------------------------------------------------
(* What the helpers do.                                                      *)

\* The bus's answer to one publication (Store) keeps what it held and, of what
\* it holds after, only the published reply can be new.
LEMMA StoreKeeps ==
  ASSUME TypeOK, NEW reply \in Reply, Store(reply)
  PROVE  /\ log' \in Seq(Reply) /\ window' \subseteq {Suggestion}
         /\ Len(log') >= Len(log)
         /\ \A i \in 1..Len(log) : log'[i] = log[i]
         /\ \A i \in 1..Len(log') : i \in 1..Len(log) \/ log'[i] = reply
         /\ reply.id \in window'
         /\ (window # {} => log # <<>>) => Len(log') >= 1
<1>0. log \in Seq(Reply) /\ window \subseteq {Suggestion} /\ reply.id = Suggestion
  BY DEF TypeOK, Reply
<1>1. CASE reply.id \in window
  BY <1>0, <1>1 DEF Store
<1>2. CASE reply.id \notin window
  BY <1>0, <1>2 DEF Store
<1> QED BY <1>1, <1>2

\* A request's envelope is a reply the bus can hold.
LEMMA EnvelopeType ==
  ASSUME TypeOK, NEW r \in Requests
  PROVE  /\ Envelope(r) \in Reply
         /\ Envelope(r).since = since[r] /\ Envelope(r).until = Len(settings)
         /\ Envelope(r).text = ask[r].text /\ Envelope(r).writtenBy = WrittenBy(r)
         /\ Envelope(r).disclosed = disclosed[r]
<1>1. ask[r].text \in Texts /\ WrittenBy(r) \in Authors /\ disclosed[r] \in BOOLEAN
  BY DEF TypeOK, WrittenBy, Authors
<1>2. Len(settings) \in Nat /\ Len(settings) = changes + 1 /\ changes \in 0..MaxChanges
  BY DEF TypeOK
<1>3. since[r] \in 1..(MaxChanges + 1) /\ Len(settings) \in 1..(MaxChanges + 1)
  BY <1>2, BudgetAssumption DEF TypeOK
<1> QED BY <1>1, <1>3 DEF Envelope, EventId, Reply

\* What the row is once it is written.
LEMMA OneOfOne == ASSUME NEW x PROVE (CHOOSE y \in {x} : TRUE) = x
OBVIOUS

\* The store's one row, while there is one.
LEMMA RowIsOne ==
  ASSUME TypeOK, row # {}
  PROVE  TheRow \in Row /\ row = {TheRow}
<1>1. PICK x \in row : TRUE
  OBVIOUS
<1>2. TheRow \in row
  BY <1>1 DEF TheRow
<1> QED BY <1>2 DEF TypeOK

\* The draft is what every request asks before it asks anything.
LEMMA InitTyped == Init => TypeOK
<1> SUFFICES ASSUME Init PROVE TypeOK
  OBVIOUS
<1>1. PICK s \in Settings : settings = <<s>>
  BY DEF Init
<1>2. settings \in Seq(Settings) /\ Len(settings) = 1
  BY <1>1
<1>3. ask \in [Requests -> [text : Texts, claim : Authors]]
  BY DraftAssumption DEF Init, Authors
<1>4. stage \in [Requests -> {"idle"} \cup Served \cup Answers]
  BY DEF Init
<1>5. log \in Seq(Reply)
  BY DEF Init
<1> QED BY <1>2, <1>3, <1>4, <1>5, BudgetAssumption DEF Init, TypeOK

-----------------------------------------------------------------------------
(* Every state is well typed.                                                *)

\* Whoever published, or is about to, has recorded: the strengthening that
\* TypeOK needs for the row that is marked, and NoSilentReply for the rest.
RowBehindReply ==
  /\ \A r \in Requests :
       stage[r] \in {"recorded", "sent", "created", "unrecorded", "unreachable"} => row # {}
  /\ late # {} => row # {}
  /\ log # <<>> => row # {}

\* A request that only moves to another stage.
LEMMA StageTyped ==
  ASSUME TypeOK, NEW r \in Requests, NEW a \in {"idle"} \cup Served \cup Answers,
         Answer(r, a)
  PROVE  stage' \in [Requests -> {"idle"} \cup Served \cup Answers]
BY DEF TypeOK, Answer

\* The owner's own moves keep every variable in its type.
LEMMA OwnerTyped ==
  ASSUME TypeOK, (\E new \in Settings : Change(new)) \/ Expire
  PROVE  TypeOK'
<1>1. CASE \E new \in Settings : Change(new)
  <2>1. PICK new \in Settings : Change(new)
    BY <1>1
  <2>2. settings' \in Seq(Settings) /\ Len(settings') = changes' + 1 /\ changes' \in 0..MaxChanges
    BY <2>1, BudgetAssumption DEF Change, TypeOK
  <2>3. since' \in [Requests -> 1..Len(settings')]
    BY <2>1, BudgetAssumption DEF Change, TypeOK, requestVars
  <2> QED BY <2>1, <2>2, <2>3 DEF Change, TypeOK, requestVars
<1>2. CASE Expire
  BY <1>2 DEF Expire, TypeOK, requestVars, budgetVars
<1> QED BY <1>1, <1>2

\* The steps of a request that only read: it asks, and is refused or goes on.
LEMMA ReadingTyped ==
  ASSUME TypeOK, NEW r \in Requests,
         \/ \E text \in Texts, claim \in Authors : Ask(r, text, claim)
         \/ CheckConsent(r) \/ ReadSwitch(r) \/ LookUp(r) \/ CannotSend(r) \/ StoreFails(r)
  PROVE  TypeOK'
<1> USE DEF requestVars, budgetVars
<1>1. ASSUME NEW text \in Texts, NEW claim \in Authors, Ask(r, text, claim)
      PROVE  TypeOK'
  <2>1. ask' \in [Requests -> [text : Texts, claim : Authors]]
    BY <1>1 DEF Ask, TypeOK
  <2>2. since' \in [Requests -> 1..Len(settings')] /\ afterMark' \in [Requests -> BOOLEAN]
    BY <1>1, BudgetAssumption DEF Ask, TypeOK, Marked
  <2>3. stage' \in [Requests -> {"idle"} \cup Served \cup Answers]
    BY <1>1, StageTyped DEF Ask, Served, Answers
  <2> QED BY <1>1, <2>1, <2>2, <2>3 DEF Ask, TypeOK
<1>2. CASE CheckConsent(r)
  <2>1. stage' \in [Requests -> {"idle"} \cup Served \cup Answers]
    BY <1>2, StageTyped DEF CheckConsent, Served, Answers
  <2> QED BY <1>2, <2>1 DEF CheckConsent, TypeOK
<1>3. CASE ReadSwitch(r)
  <2>1. stage' \in [Requests -> {"idle"} \cup Served \cup Answers]
    BY <1>3, StageTyped DEF ReadSwitch, Served, Answers
  <2>2. disclosed' \in [Requests -> BOOLEAN]
    BY <1>3 DEF ReadSwitch, TypeOK
  <2> QED BY <1>3, <2>1, <2>2 DEF ReadSwitch, TypeOK
<1>4. CASE LookUp(r)
  <2>1. stage' \in [Requests -> {"idle"} \cup Served \cup Answers]
    BY <1>4, StageTyped DEF LookUp, Served, Answers
  <2> QED BY <1>4, <2>1 DEF LookUp, TypeOK
<1>5. CASE CannotSend(r)
  <2>1. stage' \in [Requests -> {"idle"} \cup Served \cup Answers]
    BY <1>5, StageTyped DEF CannotSend, Served, Answers
  <2> QED BY <1>5, <2>1 DEF CannotSend, TypeOK
<1>6. CASE StoreFails(r)
  <2>1. stage' \in [Requests -> {"idle"} \cup Served \cup Answers]
    BY <1>6, StageTyped DEF StoreFails, Served, Answers
  <2> QED BY <1>6, <2>1, BudgetAssumption DEF StoreFails, TypeOK
<1> QED BY <1>1, <1>2, <1>3, <1>4, <1>5, <1>6

\* The steps that write the row: record_approval and mark_approval_published.
LEMMA WritingTyped ==
  ASSUME TypeOK, RowBehindReply, NEW r \in Requests, Record(r) \/ Mark(r) \/ MarkFails(r)
  PROVE  TypeOK'
<1> USE DEF requestVars, budgetVars
<1>1. CASE Record(r)
  <2>1. stage' \in [Requests -> {"idle"} \cup Served \cup Answers]
    BY <1>1, StageTyped DEF Record, Served, Answers
  <2>2. [edited |-> Edited(r), writtenBy |-> WrittenBy(r), position |-> 0] \in Row
    BY DEF Edited, WrittenBy, Authors, Row
  <2>3. row' \subseteq Row /\ \A x, y \in row' : x = y
    BY <1>1, <2>2 DEF Record, TypeOK
  <2> QED BY <1>1, <2>1, <2>3 DEF Record, TypeOK
<1>2. CASE Mark(r)
  <2>1. stage' \in [Requests -> {"idle"} \cup Served \cup Answers]
    BY <1>2, StageTyped DEF Mark, Served, Answers
  <2>2. row # {}
    BY <1>2 DEF Mark, RowBehindReply
  <2>3. TheRow \in Row /\ landed[r] \in Nat
    BY <2>2, RowIsOne DEF TypeOK
  <2>4. [TheRow EXCEPT !.position = landed[r]] \in Row
    BY <2>3 DEF Row
  <2>5. row' \subseteq Row /\ \A x, y \in row' : x = y
    BY <1>2, <2>4 DEF Mark, TypeOK
  <2> QED BY <1>2, <2>1, <2>5 DEF Mark, TypeOK
<1>3. CASE MarkFails(r)
  <2>1. stage' \in [Requests -> {"idle"} \cup Served \cup Answers]
    BY <1>3, StageTyped DEF MarkFails, Served, Answers
  <2> QED BY <1>3, <2>1, BudgetAssumption DEF MarkFails, TypeOK
<1> QED BY <1>1, <1>2, <1>3

\* The steps at the bus and what ends a request from outside.
LEMMA BusTyped ==
  ASSUME TypeOK,
         \/ \E r \in Requests : Publish(r) \/ PublishUnanswered(r) \/ CallerLeaves(r)
         \/ \E reply \in late : Arrive(reply)
         \/ Crash \/ WindowExpires
  PROVE  TypeOK'
<1> USE DEF requestVars, budgetVars
<1>1. ASSUME NEW r \in Requests, Publish(r) PROVE TypeOK'
  <2>1. stage' \in [Requests -> {"idle"} \cup Served \cup Answers]
    BY <1>1, StageTyped DEF Publish, Served, Answers
  <2>2. log' \in Seq(Reply) /\ window' \subseteq {Suggestion}
    BY <1>1, StoreKeeps, EnvelopeType DEF Publish
  <2>3. landed' \in [Requests -> Nat]
    BY <1>1, <2>2 DEF Publish, TypeOK
  <2> QED BY <1>1, <2>1, <2>2, <2>3 DEF Publish, TypeOK
<1>2. ASSUME NEW r \in Requests, PublishUnanswered(r) PROVE TypeOK'
  <2>1. stage' \in [Requests -> {"idle"} \cup Served \cup Answers]
    BY <1>2, StageTyped DEF PublishUnanswered, Served, Answers
  <2>2. log' \in Seq(Reply) /\ window' \subseteq {Suggestion} /\ late' \subseteq Reply
    <3>1. CASE Store(Envelope(r)) /\ UNCHANGED late
      BY <3>1, StoreKeeps, EnvelopeType DEF TypeOK
    <3>2. CASE late' = late \cup {Envelope(r)} /\ UNCHANGED <<log, window>>
      BY <3>2, EnvelopeType DEF TypeOK
    <3>3. CASE UNCHANGED <<log, window, late>>
      BY <3>3 DEF TypeOK
    <3> QED BY <1>2, <3>1, <3>2, <3>3 DEF PublishUnanswered
  <2> QED BY <1>2, <2>1, <2>2, BudgetAssumption DEF PublishUnanswered, TypeOK
<1>3. ASSUME NEW r \in Requests, CallerLeaves(r) PROVE TypeOK'
  <2>1. stage' \in [Requests -> {"idle"} \cup Served \cup Answers]
    BY <1>3, StageTyped DEF CallerLeaves, Served, Answers
  <2>2. log' \in Seq(Reply) /\ window' \subseteq {Suggestion}
    BY <1>3, StoreKeeps, EnvelopeType DEF CallerLeaves, TypeOK
  <2> QED BY <1>3, <2>1, <2>2, BudgetAssumption DEF CallerLeaves, TypeOK
<1>4. ASSUME NEW reply \in late, Arrive(reply) PROVE TypeOK'
  <2>1. log' \in Seq(Reply) /\ window' \subseteq {Suggestion}
    BY <1>4, StoreKeeps DEF Arrive, TypeOK
  <2> QED BY <1>4, <2>1 DEF Arrive, TypeOK
<1>5. CASE Crash
  <2>1. stage' \in [Requests -> {"idle"} \cup Served \cup Answers]
    BY <1>5 DEF Crash, TypeOK, Answers
  <2> QED BY <1>5, <2>1, BudgetAssumption DEF Crash, TypeOK
<1>6. CASE WindowExpires
  BY <1>6, BudgetAssumption DEF WindowExpires, TypeOK
<1> QED BY <1>1, <1>2, <1>3, <1>4, <1>5, <1>6

-----------------------------------------------------------------------------
(* No reply without its row.                                                 *)

\* Only the row's own writes change it, and they never take it away.
LEMMA RowStays ==
  ASSUME Next, row # {}
  PROVE  row' # {}
BY DEF Next, Change, Expire, Ask, CheckConsent, ReadSwitch, LookUp, Record, CannotSend,
       StoreFails, Publish, PublishUnanswered, Mark, MarkFails, CallerLeaves, Arrive, Crash,
       WindowExpires

\* How a request comes to have recorded, and to have been answered by the bus.
LEMMA StageSteps ==
  ASSUME TypeOK, Next, NEW q \in Requests
  PROVE  /\ stage'[q] \in {"recorded", "sent", "created", "unrecorded", "unreachable"} =>
              \/ stage[q] \in {"recorded", "sent", "created", "unrecorded", "unreachable"}
              \/ row' # {}
         /\ stage'[q] \in {"sent", "created"} =>
              stage[q] \in {"sent", "created"} \/ Publish(q)
<1>0. \A r \in Requests : \A a :
        Answer(r, a) => stage'[r] = a /\ (q # r => stage'[q] = stage[q])
  BY DEF Answer, TypeOK
<1>1. CASE UNCHANGED stage
  BY <1>1
<1>2. CASE Crash
  BY <1>2 DEF Crash
<1>3. ASSUME NEW r \in Requests, NEW text \in Texts, NEW claim \in Authors, Ask(r, text, claim)
      PROVE  stage'[q] = stage[q] \/ stage'[q] \in {"asked", "refused"}
  BY <1>0, <1>3 DEF Ask
<1>4. ASSUME NEW r \in Requests,
             \/ CheckConsent(r) \/ ReadSwitch(r) \/ LookUp(r) \/ CannotSend(r)
             \/ StoreFails(r) \/ CallerLeaves(r)
      PROVE  \/ stage'[q] = stage[q]
             \/ stage'[q] \in {"granted", "refused", "worded", "already", "clear", "gone"}
  BY <1>0, <1>4 DEF CheckConsent, ReadSwitch, LookUp, CannotSend, StoreFails, CallerLeaves
<1>5. ASSUME NEW r \in Requests, Record(r)
      PROVE  row' # {} /\ (stage'[q] = stage[q] \/ stage'[q] = "recorded")
  BY <1>0, <1>5 DEF Record
<1>6. ASSUME NEW r \in Requests, Publish(r)
      PROVE  stage'[q] = stage[q] \/ (Publish(q) /\ stage[q] = "recorded")
  BY <1>0, <1>6 DEF Publish
<1>7. ASSUME NEW r \in Requests, PublishUnanswered(r)
      PROVE  stage'[q] = stage[q] \/ (stage[q] = "recorded" /\ stage'[q] = "unreachable")
  BY <1>0, <1>7 DEF PublishUnanswered
<1>8. ASSUME NEW r \in Requests, Mark(r) \/ MarkFails(r)
      PROVE  \/ stage'[q] = stage[q]
             \/ stage[q] = "sent" /\ stage'[q] \in {"created", "unrecorded"}
  BY <1>0, <1>8 DEF Mark, MarkFails
<1>9. \/ UNCHANGED stage \/ Crash
      \/ \E r \in Requests : \/ \E text \in Texts, claim \in Authors : Ask(r, text, claim)
                             \/ CheckConsent(r) \/ ReadSwitch(r) \/ LookUp(r)
                             \/ CannotSend(r) \/ StoreFails(r) \/ CallerLeaves(r)
                             \/ Record(r) \/ Publish(r) \/ PublishUnanswered(r)
                             \/ Mark(r) \/ MarkFails(r)
  BY DEF Next, Change, Expire, Arrive, WindowExpires
<1> QED BY <1>1, <1>2, <1>3, <1>4, <1>5, <1>6, <1>7, <1>8, <1>9

\* What a step may do at the bus: nothing, one publication, or forget the ids.
LEMMA BusSteps ==
  ASSUME TypeOK, Next
  PROVE  \/ UNCHANGED <<log, window>>
         \/ \E reply \in Reply : Store(reply)
         \/ log' = log /\ window' = {}
<1>1. ASSUME NEW r \in Requests, Publish(r) \/ PublishUnanswered(r) \/ CallerLeaves(r)
      PROVE  UNCHANGED <<log, window>> \/ Store(Envelope(r))
  BY <1>1 DEF Publish, PublishUnanswered, CallerLeaves
<1>2. ASSUME NEW reply \in late, Arrive(reply)
      PROVE  reply \in Reply /\ Store(reply)
  BY <1>2 DEF Arrive, TypeOK
<1>3. \/ UNCHANGED <<log, window>>
      \/ \E r \in Requests : Publish(r) \/ PublishUnanswered(r) \/ CallerLeaves(r)
      \/ \E reply \in late : Arrive(reply)
      \/ log' = log /\ window' = {}
  BY DEF Next, Change, Expire, Ask, CheckConsent, ReadSwitch, LookUp, Record, CannotSend,
     StoreFails, Mark, MarkFails, Crash, WindowExpires
<1> QED BY <1>1, <1>2, <1>3, EnvelopeType

\* A reply, its publication and its answers come after the row.
LEMMA RowBehindReplyKept ==
  ASSUME TypeOK, RowBehindReply, Next
  PROVE  RowBehindReply'
<1>1. CASE row # {}
  BY <1>1, RowStays DEF RowBehindReply
<1>2. CASE row = {} /\ row' # {}
  BY <1>2 DEF RowBehindReply
<1>3. CASE row = {} /\ row' = {}
  <2>1. /\ \A r \in Requests :
             stage[r] \notin {"recorded", "sent", "created", "unrecorded", "unreachable"}
        /\ late = {} /\ log = <<>>
    BY <1>3 DEF RowBehindReply
  <2>2. late' = {} /\ log' = <<>>
    BY <1>3, <2>1 DEF Next, Change, Expire, Ask, CheckConsent, ReadSwitch, LookUp, Record,
       CannotSend, StoreFails, Publish, PublishUnanswered, Mark, MarkFails, CallerLeaves,
       Arrive, Crash, WindowExpires
  <2>3. \A r \in Requests :
          stage'[r] \notin {"recorded", "sent", "created", "unrecorded", "unreachable"}
    BY <1>3, <2>1, StageSteps
  <2> QED BY <1>3, <2>2, <2>3 DEF RowBehindReply
<1> QED BY <1>1, <1>2, <1>3

IInv == TypeOK /\ RowBehindReply

\* Types and the row together are inductive.
LEMMA IInvKept ==
  ASSUME IInv, [Next]_vars
  PROVE  IInv'
<1>1. CASE Next
  <2>1. TypeOK'
    BY <1>1, OwnerTyped, ReadingTyped, WritingTyped, BusTyped DEF IInv, Next
  <2>2. RowBehindReply'
    BY <1>1, RowBehindReplyKept DEF IInv
  <2> QED BY <2>1, <2>2 DEF IInv
<1>2. CASE UNCHANGED vars
  BY <1>2 DEF IInv, TypeOK, RowBehindReply, vars, requestVars, budgetVars
<1> QED BY <1>1, <1>2

\* Every state Approval reaches is well typed, with any number of requests.
THEOREM TypeCorrect == Spec => []TypeOK
<1>1. Init => IInv
  BY InitTyped DEF Init, IInv, RowBehindReply
<1>2. IInv /\ [Next]_vars => IInv'
  BY IInvKept
<1>3. IInv => TypeOK
  BY DEF IInv
<1> QED BY <1>1, <1>2, <1>3, PTL DEF Spec

\* Types and the row, as a fact about every behaviour, for the theorems below.
LEMMA Invariantly == Spec => []IInv
<1>1. Init => IInv
  BY InitTyped DEF Init, IInv, RowBehindReply
<1>2. IInv /\ [Next]_vars => IInv'
  BY IInvKept
<1> QED BY <1>1, <1>2, PTL DEF Spec

\* Positions answered or written down are positions of replies the bus holds.
PositionsHeld ==
  /\ window # {} => log # <<>>
  /\ Marked => TheRow.position \in DOMAIN log
  /\ \A r \in Requests : stage[r] \in {"sent", "created"} => landed[r] \in DOMAIN log

\* The bus forgets no reply.
LEMMA LogGrows ==
  ASSUME TypeOK, Next
  PROVE  log' \in Seq(Reply) /\ DOMAIN log \subseteq DOMAIN log'
<1>1. CASE log' = log
  BY <1>1 DEF TypeOK
<1>2. CASE \E reply \in Reply : Store(reply)
  BY <1>2, StoreKeeps DEF TypeOK
<1> QED BY <1>1, <1>2, BusSteps

\* Publication and marking point at what the bus holds; everything else leaves
\* the positions and the replies they name.
LEMMA PositionsHeldKept ==
  ASSUME IInv, PositionsHeld, [Next]_vars
  PROVE  PositionsHeld'
<1>1. CASE Next
  <2>0. TypeOK /\ TypeOK' /\ log' \in Seq(Reply) /\ DOMAIN log \subseteq DOMAIN log'
    BY <1>1, IInvKept, LogGrows DEF IInv
  <2>1. window' # {} => log' # <<>>
    <3>1. CASE UNCHANGED <<log, window>>
      BY <3>1 DEF PositionsHeld
    <3>2. CASE \E reply \in Reply : Store(reply)
      BY <2>0, <3>2, StoreKeeps DEF PositionsHeld
    <3>3. CASE window' = {}
      BY <3>3
    <3> QED BY <1>1, <2>0, <3>1, <3>2, <3>3, BusSteps
  <2>2. \A r \in Requests : stage'[r] \in {"sent", "created"} => landed'[r] \in DOMAIN log'
    <3>1. CASE \E q \in Requests : Publish(q)
      <4>1. PICK q \in Requests : Publish(q)
        BY <3>1
      <4>2. Len(log') >= 1
        BY <2>0, <4>1, StoreKeeps, EnvelopeType DEF Publish, PositionsHeld
      <4>3. landed'[q] \in DOMAIN log'
        BY <2>0, <4>1, <4>2 DEF Publish, TypeOK
      <4>4. \A r \in Requests \ {q} : stage'[r] = stage[r] /\ landed'[r] = landed[r]
        BY <2>0, <4>1 DEF Publish, Answer, TypeOK
      <4> QED BY <2>0, <4>3, <4>4 DEF PositionsHeld
    <3>2. CASE ~ \E q \in Requests : Publish(q)
      <4>1. landed' = landed
        BY <1>1, <3>2 DEF Next, Change, Expire, Ask, CheckConsent, ReadSwitch, LookUp,
           Record, CannotSend, StoreFails, PublishUnanswered, Mark, MarkFails, CallerLeaves,
           Arrive, Crash, WindowExpires, requestVars
      <4>2. \A r \in Requests :
              stage'[r] \in {"sent", "created"} => stage[r] \in {"sent", "created"}
        BY <1>1, <2>0, <3>2, StageSteps
      <4> QED BY <2>0, <4>1, <4>2 DEF PositionsHeld
    <3> QED BY <3>1, <3>2
  <2>3. Marked' => TheRow'.position \in DOMAIN log'
    <3>1. CASE row' = row
      BY <2>0, <3>1 DEF PositionsHeld, Marked, TheRow
    <3>2. CASE \E r \in Requests : Record(r)
      <4>1. PICK r \in Requests : Record(r)
        BY <3>2
      <4> DEFINE new == [edited |-> Edited(r), writtenBy |-> WrittenBy(r), position |-> 0]
      <4>2. row' = row \/ row' = {new}
        BY <4>1 DEF Record
      <4>3. row' = row \/ TheRow' = new
        <5> HIDE DEF new
        <5> QED BY <4>2, OneOfOne DEF TheRow
      <4> QED BY <3>1, <4>3 DEF Marked
    <3>3. CASE \E r \in Requests : Mark(r)
      <4>1. PICK r \in Requests : Mark(r)
        BY <3>3
      <4>2. row # {} /\ landed[r] \in DOMAIN log
        BY <4>1 DEF Mark, IInv, RowBehindReply, PositionsHeld
      <4>3. TheRow \in Row
        BY <2>0, <4>2, RowIsOne
      <4>4. row' = row \/ row' = {[TheRow EXCEPT !.position = landed[r]]}
        BY <4>1 DEF Mark
      <4>5. row' = row \/ TheRow' = [TheRow EXCEPT !.position = landed[r]]
        BY <4>4, OneOfOne DEF TheRow
      <4>6. row' = row \/ TheRow'.position = landed[r]
        BY <4>3, <4>5 DEF Row
      <4> QED BY <2>0, <3>1, <4>2, <4>6
    <3>4. row' = row \/ (\E r \in Requests : Record(r)) \/ (\E r \in Requests : Mark(r))
      BY <1>1 DEF Next, Change, Expire, Ask, CheckConsent, ReadSwitch, LookUp, CannotSend,
         StoreFails, Publish, PublishUnanswered, MarkFails, CallerLeaves, Arrive, Crash,
         WindowExpires
    <3> QED BY <3>1, <3>2, <3>3, <3>4
  <2> QED BY <2>1, <2>2, <2>3 DEF PositionsHeld
<1>2. CASE UNCHANGED vars
  BY <1>2 DEF PositionsHeld, Marked, TheRow, vars, requestVars, budgetVars
<1> QED BY <1>1, <1>2

\* NoSilentReply, for any number of requests and faults: a crash, a lost ack or
\* a late publication leaves a row behind every reply on the bus, and a marked
\* row or a 201 names a reply the bus holds (approval.rs, "No outbox").
THEOREM EveryReplyHasItsRow == Spec => []NoSilentReply
<1>1. Init => PositionsHeld
  BY DEF Init, PositionsHeld, Marked
<1>2. IInv /\ PositionsHeld /\ [Next]_vars => PositionsHeld'
  BY PositionsHeldKept
<1>3. IInv /\ PositionsHeld => NoSilentReply
  BY DEF IInv, RowBehindReply, PositionsHeld, NoSilentReply
<1> QED BY <1>1, <1>2, <1>3, Invariantly, PTL DEF Spec

-----------------------------------------------------------------------------
(* Consent and disclosure, at some moment of the request's own life.         *)

\* The settings are only ever appended to.
LEMMA SettingsGrow ==
  ASSUME TypeOK, Next
  PROVE  /\ Len(settings) \in Nat \ {0} /\ Len(settings') \in Nat
         /\ Len(settings') >= Len(settings)
         /\ \A k \in 1..Len(settings) : settings'[k] = settings[k]
<1>0. settings \in Seq(Settings) /\ Len(settings) \in Nat \ {0}
  BY BudgetAssumption DEF TypeOK
<1>1. CASE UNCHANGED settings
  BY <1>0, <1>1
<1>2. ASSUME NEW new \in Settings, Change(new)
      PROVE  settings' = Append(settings, new)
  BY <1>2 DEF Change
<1>3. UNCHANGED settings \/ \E new \in Settings : Change(new)
  BY DEF Next, Expire, Ask, CheckConsent, ReadSwitch, LookUp, Record, CannotSend, StoreFails,
     Publish, PublishUnanswered, Mark, MarkFails, CallerLeaves, Arrive, Crash, WindowExpires
<1> QED BY <1>0, <1>1, <1>2, <1>3

\* A reply was sent in its time: the moment of its consent and of its disclosure
\* lie between its request's first step and its publication.
SentInTime(reply) ==
  /\ reply.until <= Len(settings)
  /\ \E k \in reply.since .. reply.until : settings[k].consent = "granted"
  /\ IF reply.disclosed
     THEN /\ reply.writtenBy = "persona"
          /\ \E k \in reply.since .. reply.until : settings[k].disclose
     ELSE \/ reply.writtenBy = "owner" /\ reply.text # Draft
          \/ \E k \in reply.since .. reply.until : ~settings[k].disclose

\* The same of a request that is on its way to publishing one.
AskedInTime(r) ==
  /\ stage[r] \in {"granted", "worded", "clear", "recorded"} =>
       \E k \in since[r] .. Len(settings) : settings[k].consent = "granted"
  /\ stage[r] \in {"worded", "clear", "recorded"} =>
       IF disclosed[r]
       THEN /\ WrittenBy(r) = "persona"
            /\ \E k \in since[r] .. Len(settings) : settings[k].disclose
       ELSE \/ WrittenBy(r) = "owner"
            \/ \E k \in since[r] .. Len(settings) : ~settings[k].disclose

InTime ==
  /\ \A reply \in Sent \cup late : SentInTime(reply)
  /\ \A r \in Requests : AskedInTime(r)

\* What was in its time stays so.
LEMMA SentInTimeStays ==
  ASSUME TypeOK, Next, NEW reply \in Reply, SentInTime(reply)
  PROVE  SentInTime(reply)'
<1>1. reply.since \in 1..(MaxChanges + 1) /\ reply.until \in 1..(MaxChanges + 1)
  BY DEF Reply
<1>2. reply.since .. reply.until \subseteq 1..Len(settings)
  BY <1>1, SettingsGrow, BudgetAssumption DEF SentInTime
<1>3. \A k \in reply.since .. reply.until : settings'[k] = settings[k]
  BY <1>2, SettingsGrow
<1>4. reply.until <= Len(settings')
  BY <1>1, SettingsGrow, BudgetAssumption DEF SentInTime
<1> QED BY <1>3, <1>4 DEF SentInTime

\* What a request in its time publishes is a reply in its time.
LEMMA EnvelopeInTime ==
  ASSUME TypeOK, NEW r \in Requests, AskedInTime(r), stage[r] = "recorded"
  PROVE  SentInTime(Envelope(r))
<1>1. Len(settings) <= Len(settings)
  BY BudgetAssumption DEF TypeOK
<1>2. WrittenBy(r) = "owner" => ask[r].text # Draft
  BY DEF WrittenBy
<1> QED BY <1>1, <1>2, EnvelopeType DEF SentInTime, AskedInTime

\* Where the replies of a step come from.
LEMMA ReplySteps ==
  ASSUME TypeOK, Next, NEW reply \in Sent' \cup late'
  PROVE  \/ reply \in Sent \cup late
         \/ \E r \in Requests : stage[r] = "recorded" /\ reply = Envelope(r)
<1>0. log \in Seq(Reply)
  BY DEF TypeOK
<1>1. ASSUME NEW new \in Reply, Store(new), reply \in Sent'
      PROVE  reply \in Sent \/ reply = new
  BY <1>0, <1>1, StoreKeeps DEF Sent
<1>2. ASSUME log' = log, reply \in Sent'
      PROVE  reply \in Sent
  BY <1>2 DEF Sent
<1>3. ASSUME NEW r \in Requests, Publish(r) \/ PublishUnanswered(r) \/ CallerLeaves(r)
      PROVE  \/ late' = late /\ log' = log
             \/ stage[r] = "recorded" /\ late' = late /\ Store(Envelope(r))
             \/ stage[r] = "recorded" /\ late' = late \cup {Envelope(r)} /\ log' = log
  BY <1>3 DEF Publish, PublishUnanswered, CallerLeaves
<1>4. ASSUME NEW new \in late, Arrive(new)
      PROVE  new \in Reply /\ Store(new) /\ late' \subseteq late
  BY <1>4 DEF Arrive, TypeOK
<1>5. \/ late' = late /\ log' = log
      \/ \E r \in Requests : Publish(r) \/ PublishUnanswered(r) \/ CallerLeaves(r)
      \/ \E new \in late : Arrive(new)
  BY DEF Next, Change, Expire, Ask, CheckConsent, ReadSwitch, LookUp, Record, CannotSend,
     StoreFails, Mark, MarkFails, Crash, WindowExpires
<1> QED BY <1>1, <1>2, <1>3, <1>4, <1>5, EnvelopeType

\* How a request comes closer to publishing.
LEMMA RequestSteps ==
  ASSUME TypeOK, Next, NEW q \in Requests
  PROVE  \/ stage'[q] \notin {"granted", "worded", "clear", "recorded"}
         \/ /\ ask'[q] = ask[q] /\ since'[q] = since[q] /\ disclosed'[q] = disclosed[q]
            /\ \/ stage'[q] = stage[q]
               \/ stage[q] \in {"worded", "clear"} /\ stage'[q] \in {"clear", "recorded"}
         \/ CheckConsent(q) /\ Now.consent = "granted" /\ stage'[q] = "granted"
         \/ ReadSwitch(q) /\ stage'[q] = "worded"
<1> USE DEF requestVars
<1>0. \A r \in Requests : \A a :
        Answer(r, a) => stage'[r] = a /\ (q # r => stage'[q] = stage[q])
  BY DEF Answer, TypeOK
<1>1. CASE UNCHANGED <<stage, requestVars>>
  BY <1>1
<1>2. CASE Crash
  BY <1>2 DEF Crash
<1>3. ASSUME NEW r \in Requests, NEW text \in Texts, NEW claim \in Authors, Ask(r, text, claim)
      PROVE  \/ stage'[q] \in {"asked", "refused"}
             \/ stage'[q] = stage[q] /\ ask'[q] = ask[q] /\ since'[q] = since[q]
                /\ disclosed'[q] = disclosed[q]
  BY <1>0, <1>3 DEF Ask, TypeOK
<1>4. ASSUME NEW r \in Requests, CheckConsent(r)
      PROVE  \/ stage'[q] \in {"refused"}
             \/ CheckConsent(q) /\ Now.consent = "granted" /\ stage'[q] = "granted"
             \/ UNCHANGED requestVars /\ stage'[q] = stage[q]
  BY <1>0, <1>4 DEF CheckConsent
<1>5. ASSUME NEW r \in Requests, ReadSwitch(r)
      PROVE  \/ ReadSwitch(q) /\ stage'[q] = "worded"
             \/ stage'[q] = stage[q] /\ ask'[q] = ask[q] /\ since'[q] = since[q]
                /\ disclosed'[q] = disclosed[q]
  BY <1>0, <1>5 DEF ReadSwitch, TypeOK
<1>6. ASSUME NEW r \in Requests, LookUp(r) \/ Record(r)
      PROVE  /\ UNCHANGED requestVars
             /\ \/ stage'[q] \in {stage[q], "already"}
                \/ stage[q] \in {"worded", "clear"} /\ stage'[q] \in {"clear", "recorded"}
  BY <1>0, <1>6 DEF LookUp, Record
<1>7. ASSUME NEW r \in Requests,
             \/ CannotSend(r) \/ StoreFails(r) \/ PublishUnanswered(r) \/ Mark(r)
             \/ MarkFails(r) \/ CallerLeaves(r)
      PROVE  /\ UNCHANGED requestVars
             /\ stage'[q] \in {stage[q], "refused", "unreachable", "created", "unrecorded", "gone"}
  BY <1>0, <1>7 DEF CannotSend, StoreFails, PublishUnanswered, Mark, MarkFails, CallerLeaves
<1>8. ASSUME NEW r \in Requests, Publish(r)
      PROVE  /\ UNCHANGED <<ask, since, disclosed>>
             /\ stage'[q] \in {stage[q], "sent"}
  BY <1>0, <1>8 DEF Publish
<1>9. \/ UNCHANGED <<stage, requestVars>> \/ Crash
      \/ \E r \in Requests : \/ \E text \in Texts, claim \in Authors : Ask(r, text, claim)
                             \/ CheckConsent(r) \/ ReadSwitch(r) \/ LookUp(r)
                             \/ CannotSend(r) \/ StoreFails(r) \/ CallerLeaves(r)
                             \/ Record(r) \/ Publish(r) \/ PublishUnanswered(r)
                             \/ Mark(r) \/ MarkFails(r)
  BY DEF Next, Change, Expire, Arrive, WindowExpires
<1> QED BY <1>1, <1>2, <1>3, <1>4, <1>5, <1>6, <1>7, <1>8, <1>9

\* A request sees consent, then the switch, at its own moments.
LEMMA AskedInTimeKept ==
  ASSUME TypeOK, Next, NEW r \in Requests, AskedInTime(r)
  PROVE  AskedInTime(r)'
<1>0. /\ Len(settings) \in Nat \ {0} /\ Len(settings') \in Nat
      /\ Len(settings') >= Len(settings)
      /\ \A k \in 1..Len(settings) : settings'[k] = settings[k]
      /\ since[r] \in 1..Len(settings)
  BY SettingsGrow DEF TypeOK
<1>1. \A k \in since[r] .. Len(settings) :
         k \in since[r] .. Len(settings') /\ settings'[k] = settings[k]
  BY <1>0
<1>2. CASE stage'[r] \notin {"granted", "worded", "clear", "recorded"}
  BY <1>2 DEF AskedInTime
<1>3. CASE /\ ask'[r] = ask[r] /\ since'[r] = since[r] /\ disclosed'[r] = disclosed[r]
           /\ \/ stage'[r] = stage[r]
              \/ stage[r] \in {"worded", "clear"} /\ stage'[r] \in {"clear", "recorded"}
  <2>1. WrittenBy(r)' = WrittenBy(r)
    BY <1>3 DEF WrittenBy
  <2>2. stage'[r] \in {"granted", "worded", "clear", "recorded"} =>
          \E k \in since'[r] .. Len(settings') : settings'[k].consent = "granted"
    BY <1>1, <1>3 DEF AskedInTime
  <2>3. stage'[r] \in {"worded", "clear", "recorded"} =>
          IF disclosed'[r]
          THEN /\ WrittenBy(r)' = "persona"
               /\ \E k \in since'[r] .. Len(settings') : settings'[k].disclose
          ELSE \/ WrittenBy(r)' = "owner"
               \/ \E k \in since'[r] .. Len(settings') : ~settings'[k].disclose
    BY <1>1, <1>3, <2>1 DEF AskedInTime
  <2> QED BY <2>2, <2>3 DEF AskedInTime
<1>4. CASE CheckConsent(r) /\ Now.consent = "granted" /\ stage'[r] = "granted"
  <2>1. settings' = settings /\ since' = since
    BY <1>4 DEF CheckConsent, requestVars
  <2>2. settings[Len(settings)].consent = "granted" /\ Len(settings) \in since[r] .. Len(settings)
    BY <1>0, <1>4 DEF Now
  <2> QED BY <1>4, <2>1, <2>2 DEF AskedInTime
<1>5. CASE ReadSwitch(r) /\ stage'[r] = "worded"
  <2>1. /\ settings' = settings /\ since' = since /\ ask' = ask /\ stage[r] = "granted"
        /\ disclosed'[r] = (Now.disclose /\ WrittenBy(r) = "persona")
    BY <1>5 DEF ReadSwitch, TypeOK
  <2>2. WrittenBy(r)' = WrittenBy(r) /\ WrittenBy(r) \in {"owner", "persona"}
    BY <2>1 DEF WrittenBy
  <2>3. Len(settings) \in since[r] .. Len(settings)
    BY <1>0
  <2>4. \E k \in since'[r] .. Len(settings') : settings'[k].consent = "granted"
    BY <1>5, <2>1 DEF AskedInTime
  <2>5. disclosed'[r] =>
          WrittenBy(r)' = "persona" /\ \E k \in since'[r] .. Len(settings') : settings'[k].disclose
    BY <2>1, <2>2, <2>3 DEF Now
  <2>6. ~disclosed'[r] =>
          WrittenBy(r)' = "owner" \/ \E k \in since'[r] .. Len(settings') : ~settings'[k].disclose
    BY <2>1, <2>2, <2>3 DEF Now
  <2> QED BY <1>5, <2>4, <2>5, <2>6 DEF AskedInTime
<1> QED BY <1>2, <1>3, <1>4, <1>5, RequestSteps

\* Every step keeps replies and requests in their time.
LEMMA InTimeKept ==
  ASSUME TypeOK, InTime, [Next]_vars
  PROVE  InTime'
<1>1. CASE Next
  <2>1. ASSUME NEW reply \in Sent' \cup late'
        PROVE  SentInTime(reply)'
    <3>1. CASE reply \in Sent \cup late
      <4>1. reply \in Reply
        BY <3>1 DEF TypeOK, Sent
      <4> QED BY <1>1, <3>1, <4>1, SentInTimeStays DEF InTime
    <3>2. CASE \E r \in Requests : stage[r] = "recorded" /\ reply = Envelope(r)
      <4>1. PICK r \in Requests : stage[r] = "recorded" /\ reply = Envelope(r)
        BY <3>2
      <4>2. reply \in Reply /\ SentInTime(reply)
        BY <4>1, EnvelopeType, EnvelopeInTime DEF InTime
      <4> QED BY <1>1, <4>2, SentInTimeStays
    <3> QED BY <1>1, <3>1, <3>2, ReplySteps
  <2>2. ASSUME NEW r \in Requests
        PROVE  AskedInTime(r)'
    BY <1>1, <2>2, AskedInTimeKept DEF InTime
  <2> QED BY <2>1, <2>2 DEF InTime
<1>2. CASE UNCHANGED vars
  BY <1>2 DEF InTime, SentInTime, AskedInTime, WrittenBy, Sent, vars, requestVars, budgetVars
<1> QED BY <1>1, <1>2

\* Nothing is sent or asked for yet.
LEMMA InTimeAtFirst == Init => InTime
BY DEF Init, InTime, AskedInTime, Sent

\* GrantedInItsTime, for any number of requests: no reply rides on a consent that
\* another request saw, or that the suggestion was born with.
THEOREM ConsentIsTheRequestsOwn == Spec => []GrantedInItsTime
<1>1. TypeOK /\ InTime /\ [Next]_vars => InTime'
  BY InTimeKept
<1>2. InTime => GrantedInItsTime
  BY DEF InTime, SentInTime, GrantedInItsTime, LivedThrough
<1> QED BY <1>1, <1>2, InTimeAtFirst, TypeCorrect, PTL DEF Spec

\* DisclosedInItsTime, for any number of requests, edits and claims of authorship.
THEOREM DisclosureIsNeverDodged == Spec => []DisclosedInItsTime
<1>1. TypeOK /\ InTime /\ [Next]_vars => InTime'
  BY InTimeKept
<1>2. InTime => DisclosedInItsTime
  BY DEF InTime, SentInTime, DisclosedInItsTime, LivedThrough
<1> QED BY <1>1, <1>2, InTimeAtFirst, TypeCorrect, PTL DEF Spec

-----------------------------------------------------------------------------
(* One suggestion, one reply, while the duplicate window holds.              *)

\* The bus holds the reply's id for as long as it holds the reply.
OneReply == log = <<>> \/ (Len(log) = 1 /\ window = {Suggestion})

\* The window, once it has expired, has.
LEMMA ExpiredStays ==
  ASSUME TypeOK, [Next]_vars, expiries' = 0
  PROVE  expiries = 0 /\ ~ WindowExpires
<1>0. ASSUME NEW r \in Requests,
             \/ \E text \in Texts, claim \in Authors : Ask(r, text, claim)
             \/ CheckConsent(r) \/ ReadSwitch(r) \/ LookUp(r) \/ Record(r) \/ CannotSend(r)
             \/ StoreFails(r) \/ Publish(r) \/ PublishUnanswered(r) \/ Mark(r)
             \/ MarkFails(r) \/ CallerLeaves(r)
      PROVE  UNCHANGED expiries
  BY <1>0 DEF Ask, CheckConsent, ReadSwitch, LookUp, Record, CannotSend, StoreFails,
     Publish, PublishUnanswered, Mark, MarkFails, CallerLeaves, budgetVars
<1>1. UNCHANGED expiries \/ WindowExpires
  BY <1>0 DEF Next, Change, Expire, Arrive, Crash, vars, budgetVars
<1>2. ~ WindowExpires
  BY BudgetAssumption DEF WindowExpires, TypeOK
<1> QED BY <1>1, <1>2

\* Without an expiry so far a publication finds its id, or is the first.
LEMMA OneReplyKept ==
  ASSUME expiries' = 0, TypeOK, OneReply, [Next]_vars
  PROVE  /\ OneReply'
         /\ log' = log \/ (log = <<>> /\ UNCHANGED row /\ \E reply \in Reply : log' = <<reply>>)
<1>0. log \in Seq(Reply) /\ window \subseteq {Suggestion}
  BY DEF TypeOK
<1>1. ASSUME NEW reply \in Reply, Store(reply)
      PROVE  OneReply' /\ (log' = log \/ (log = <<>> /\ log' = <<reply>>))
  <2>1. reply.id = Suggestion
    BY DEF Reply
  <2>2. CASE Suggestion \in window
    BY <1>0, <1>1, <2>1, <2>2 DEF Store, OneReply
  <2>3. CASE Suggestion \notin window
    BY <1>0, <1>1, <2>1, <2>3 DEF Store, OneReply
  <2> QED BY <2>2, <2>3
<1>2. CASE UNCHANGED <<log, window>>
  BY <1>2 DEF OneReply
<1>3. ~ WindowExpires
  BY ExpiredStays
<1>4. CASE Next
  <2>1. CASE \E r \in Requests : Publish(r) \/ PublishUnanswered(r) \/ CallerLeaves(r)
    <3>1. PICK r \in Requests : Publish(r) \/ PublishUnanswered(r) \/ CallerLeaves(r)
      BY <2>1
    <3>2. UNCHANGED row /\ (UNCHANGED <<log, window>> \/ Store(Envelope(r)))
      BY <3>1 DEF Publish, PublishUnanswered, CallerLeaves
    <3> QED BY <1>1, <1>2, <3>2, EnvelopeType
  <2>2. CASE \E reply \in late : Arrive(reply)
    <3>1. PICK reply \in late : Arrive(reply)
      BY <2>2
    <3>2. reply \in Reply /\ Store(reply) /\ UNCHANGED row
      BY <3>1 DEF Arrive, TypeOK
    <3> QED BY <1>1, <3>2
  <2>3. \/ UNCHANGED <<log, window>>
        \/ \E r \in Requests : Publish(r) \/ PublishUnanswered(r) \/ CallerLeaves(r)
        \/ \E reply \in late : Arrive(reply)
    BY <1>3, <1>4 DEF Next, Change, Expire, Ask, CheckConsent, ReadSwitch, LookUp, Record,
       CannotSend, StoreFails, Mark, MarkFails, Crash
  <2> QED BY <1>2, <2>1, <2>2, <2>3
<1> QED BY <1>2, <1>4 DEF vars

\* The row is marked once, after the reply is on the bus.
LEMMA MarkedOnce ==
  ASSUME IInv, PositionsHeld, [Next]_vars
  PROVE  Marked' = Marked \/ (~Marked /\ Marked' /\ log # <<>> /\ log' = log)
<1>1. CASE UNCHANGED row
  BY <1>1 DEF Marked, TheRow
<1>2. ASSUME NEW r \in Requests, Record(r)
      PROVE  Marked' = Marked
  <2> DEFINE new == [edited |-> Edited(r), writtenBy |-> WrittenBy(r), position |-> 0]
  <2>1. row' = row \/ (row = {} /\ row' = {new})
    BY <1>2 DEF Record
  <2>2. row' = row \/ (row = {} /\ TheRow' = new)
    <3> HIDE DEF new
    <3> QED BY <2>1, OneOfOne DEF TheRow
  <2>3. row' = row \/ (row = {} /\ TheRow'.position = 0)
    BY <2>2
  <2>4. row' = row \/ (~Marked /\ ~Marked')
    <3> HIDE DEF new
    <3> QED BY <2>3 DEF Marked
  <2> QED BY <1>1, <2>4 DEF Marked, TheRow
<1>3. ASSUME NEW r \in Requests, Mark(r)
      PROVE  Marked' = Marked \/ (~Marked /\ Marked' /\ log # <<>> /\ log' = log)
  <2>1. row # {} /\ landed[r] \in DOMAIN log /\ log \in Seq(Reply) /\ log' = log
    BY <1>3 DEF Mark, IInv, TypeOK, RowBehindReply, PositionsHeld
  <2>2. TheRow \in Row
    BY <2>1, RowIsOne DEF IInv
  <2>3. row' = row \/ (~Marked /\ row' = {[TheRow EXCEPT !.position = landed[r]]})
    BY <1>3 DEF Mark
  <2>4. row' = row \/ (~Marked /\ row' # {} /\ TheRow' = [TheRow EXCEPT !.position = landed[r]])
    BY <2>3, OneOfOne DEF TheRow
  <2>5. row' = row \/ (~Marked /\ row' # {} /\ TheRow'.position = landed[r])
    BY <2>2, <2>4 DEF Row
  <2>6. row' = row \/ (~Marked /\ Marked')
    BY <2>1, <2>5 DEF Marked
  <2> QED BY <1>1, <2>1, <2>6
<1>4. UNCHANGED row \/ (\E r \in Requests : Record(r)) \/ (\E r \in Requests : Mark(r))
  BY DEF Next, Change, Expire, Ask, CheckConsent, ReadSwitch, LookUp, CannotSend,
     StoreFails, Publish, PublishUnanswered, MarkFails, CallerLeaves, Arrive, Crash,
     WindowExpires, vars
<1> QED BY <1>1, <1>2, <1>3, <1>4

\* SendsOnce: for as long as the duplicate window outlasts the retries, any
\* number of concurrent requests, crashes, lost answers and late publications
\* implement the promise of one reply, sent once, unchanging and recorded once.
THEOREM OneReplyIsSent == Spec => SendsOnce
<1> DEFINE OneSoFar == expiries = 0 => OneReply
<1>1. Init => PositionsHeld /\ OneSoFar /\ Promise!Init
  BY DEF Init, PositionsHeld, OneReply, Marked, Promise!Init
<1>2. IInv /\ PositionsHeld /\ [Next]_vars => PositionsHeld'
  BY PositionsHeldKept
<1>3. IInv /\ OneSoFar /\ [Next]_vars => OneSoFar'
  BY OneReplyKept, ExpiredStays DEF IInv
<1>4. IInv /\ PositionsHeld /\ OneSoFar /\ [Next]_vars
      => [expiries' = 0 => [Promise!Next]_(Promise!vars)]_vars
  <2> SUFFICES ASSUME IInv, PositionsHeld, OneSoFar, [Next]_vars, expiries' = 0
               PROVE  [Promise!Next]_(Promise!vars)
    OBVIOUS
  <2>0. OneReply
    BY ExpiredStays DEF IInv
  <2>1. CASE log' = log
    <3>1. Marked' = Marked \/ Promise!Note
      BY <2>1, MarkedOnce DEF Promise!Note
    <3> QED BY <2>1, <3>1 DEF Promise!Next, Promise!vars
  <2>2. CASE log' # log
    <3>1. log = <<>> /\ UNCHANGED row /\ \E reply \in Reply : log' = <<reply>>
      BY <2>0, <2>2, OneReplyKept DEF IInv
    <3>2. Marked' = Marked
      BY <3>1 DEF Marked, TheRow
    <3>3. \E reply \in Reply : Promise!Send(reply)
      BY <3>1, <3>2 DEF Promise!Send
    <3> QED BY <3>3 DEF Promise!Next
  <2> QED BY <2>1, <2>2
<1> QED
  <2> HIDE DEF OneSoFar
  <2> QED BY <1>1, <1>2, <1>3, <1>4, Invariantly, PTL DEF Spec, SendsOnce

-----------------------------------------------------------------------------
(* A second click.                                                           *)

Past == {"clear", "recorded", "sent", "created", "unrecorded", "unreachable"}

\* A request that began after the mark never gets past the look at the row.
StoppedAtTheRow == \A r \in Requests : afterMark[r] => Marked /\ stage[r] \notin Past

\* How a request gets past the look at the row, and when it may be late for it.
LEMMA PastSteps ==
  ASSUME TypeOK, Next, NEW q \in Requests
  PROVE  /\ stage'[q] \in Past => stage[q] \in Past \/ ~Marked
         /\ afterMark'[q] = afterMark[q] \/ (afterMark'[q] = Marked /\ stage'[q] \notin Past)
<1> USE DEF requestVars, Past
<1>0. \A r \in Requests : \A a :
        Answer(r, a) => stage'[r] = a /\ (q # r => stage'[q] = stage[q])
  BY DEF Answer, TypeOK
<1>1. CASE UNCHANGED <<stage, requestVars>>
  BY <1>1
<1>2. CASE Crash
  BY <1>2 DEF Crash
<1>3. ASSUME NEW r \in Requests, NEW text \in Texts, NEW claim \in Authors, Ask(r, text, claim)
      PROVE  \/ stage'[q] \in {"asked", "refused"} /\ afterMark'[q] = Marked
             \/ stage'[q] = stage[q] /\ afterMark'[q] = afterMark[q]
  BY <1>0, <1>3 DEF Ask, TypeOK
<1>4. ASSUME NEW r \in Requests, LookUp(r)
      PROVE  afterMark' = afterMark /\ (stage'[q] \in {stage[q], "already"} \/ ~Marked)
  BY <1>0, <1>4 DEF LookUp
<1>5. ASSUME NEW r \in Requests,
             \/ CheckConsent(r) \/ ReadSwitch(r) \/ CannotSend(r) \/ StoreFails(r)
             \/ CallerLeaves(r)
      PROVE  /\ afterMark' = afterMark
             /\ stage'[q] \in {stage[q], "granted", "refused", "worded", "gone"}
  BY <1>0, <1>5 DEF CheckConsent, ReadSwitch, CannotSend, StoreFails, CallerLeaves
<1>6. ASSUME NEW r \in Requests,
             Record(r) \/ Publish(r) \/ PublishUnanswered(r) \/ Mark(r) \/ MarkFails(r)
      PROVE  afterMark' = afterMark /\ (stage'[q] = stage[q] \/ stage[q] \in Past)
  BY <1>0, <1>6 DEF Record, Publish, PublishUnanswered, Mark, MarkFails
<1>7. \/ UNCHANGED <<stage, requestVars>> \/ Crash
      \/ \E r \in Requests : \/ \E text \in Texts, claim \in Authors : Ask(r, text, claim)
                             \/ CheckConsent(r) \/ ReadSwitch(r) \/ LookUp(r)
                             \/ CannotSend(r) \/ StoreFails(r) \/ CallerLeaves(r)
                             \/ Record(r) \/ Publish(r) \/ PublishUnanswered(r)
                             \/ Mark(r) \/ MarkFails(r)
  BY DEF Next, Change, Expire, Arrive, WindowExpires
<1> QED BY <1>1, <1>2, <1>3, <1>4, <1>5, <1>6, <1>7

\* SecondClickIsTold, for any number of requests, also after the window: whoever
\* asks once the row is marked is told where the reply went.
THEOREM SecondClickNeverSends == Spec => []SecondClickIsTold
<1>1. Init => PositionsHeld /\ StoppedAtTheRow
  BY DEF Init, PositionsHeld, StoppedAtTheRow, Marked
<1>2. IInv /\ PositionsHeld /\ [Next]_vars => PositionsHeld'
  BY PositionsHeldKept
<1>3. IInv /\ PositionsHeld /\ StoppedAtTheRow /\ [Next]_vars => StoppedAtTheRow'
  <2> SUFFICES ASSUME IInv, PositionsHeld, StoppedAtTheRow, [Next]_vars,
                      NEW r \in Requests, afterMark'[r]
               PROVE  Marked' /\ stage'[r] \notin Past
    BY DEF StoppedAtTheRow
  <2>1. Marked => Marked'
    BY MarkedOnce
  <2>2. CASE Next
    BY <2>1, <2>2, PastSteps DEF IInv, StoppedAtTheRow
  <2>3. CASE UNCHANGED vars
    BY <2>1, <2>3 DEF StoppedAtTheRow, vars, requestVars
  <2> QED BY <2>2, <2>3
<1>4. StoppedAtTheRow => SecondClickIsTold
  BY DEF StoppedAtTheRow, SecondClickIsTold, Past
<1> QED BY <1>1, <1>2, <1>3, <1>4, Invariantly, PTL DEF Spec

-----------------------------------------------------------------------------
(* The clerk's posts and gestures only grow.                                 *)

Rows == [of : Suggestions, live : BOOLEAN]

Deciding == {"asking", "answered", "deleting", "refusing"}

\* A gesture of the owner's on a post, before which the owner made none there
\* that is not answered.
ActedOn(g, p) ==
  /\ g \in Gestures /\ gestures[g].on = p /\ gestures[g].sort # "stranger"
  /\ \A h \in 1 .. g - 1 :
       gestures[h].on = p /\ gestures[h].sort # "stranger" => gestures[h].spent = 1

\* What the loop carries is such a gesture, and not answered yet.
TickInv ==
  tick.at \in Deciding =>
    tick.post \in Posts /\ ActedOn(tick.act, tick.post) /\ gestures[tick.act].spent = 0

GesturesKept ==
  /\ gestures' \in Seq(GestureRows)
  /\ Len(gestures) <= Len(gestures') /\ Len(gestures') <= MaxGestures
  /\ \A g \in Gestures : /\ gestures'[g].on = gestures[g].on /\ gestures'[g].sort = gestures[g].sort
                         /\ gestures[g].spent = 1 => gestures'[g].spent = 1
  /\ \A g \in 1 .. Len(gestures') : gestures'[g].on \in Posts

PostsKept ==
  /\ posts' \in Seq(Rows) /\ Len(posts) <= Len(posts')
  /\ \A p \in Posts : posts'[p].of = posts[p].of /\ (posts'[p].live => posts[p].live)

LEMMA SizesFit ==
  ASSUME ClerkTypeOK
  PROVE  /\ posts \in Seq(Rows) /\ Len(posts) \in Nat /\ Posts = 1 .. Len(posts)
         /\ gestures \in Seq(GestureRows) /\ Len(gestures) \in Nat /\ Gestures = 1 .. Len(gestures)
         /\ MaxGestures \in Nat /\ MaxMishaps \in Nat /\ Len(gestures) < Screen
         /\ \A g \in Gestures : gestures[g] \in GestureRows /\ gestures[g].spent \in 0 .. 1
<1>1. posts \in Seq(Rows) /\ gestures \in Seq(GestureRows) /\ Len(gestures) <= MaxGestures
  BY DEF ClerkTypeOK, RelayOK, Rows
<1>2. MaxGestures \in Nat /\ MaxMishaps \in Nat
  BY ClerkAssumption
<1>3. Len(posts) \in Nat /\ Len(gestures) \in Nat
  BY <1>1
<1>4. \A g \in Gestures : gestures[g] \in GestureRows
  BY <1>1 DEF Gestures
<1>5. \A g \in Gestures : gestures[g].spent \in 0 .. 1
  BY <1>4 DEF GestureRows
<1> QED BY <1>1, <1>2, <1>3, <1>4, <1>5 DEF Posts, Gestures, Screen

Ticks ==
  [at : {"idle", "acting"} \cup Deciding,
   todo : SUBSET Posts, late : SUBSET Posts, seen : 0 .. Len(gestures),
   post : {0} \cup Posts, act : {0} \cup Gestures,
   answer : {"", "approved", "already", "refused", "silence", "401"}]

LEMMA TickFields ==
  ASSUME ClerkTypeOK
  PROVE  /\ tick \in Ticks
         /\ tick.todo \subseteq Posts /\ tick.late \subseteq Posts /\ tick.seen \in 0 .. Len(gestures)
         /\ tick.post \in {0} \cup Posts /\ tick.act \in {0} \cup Gestures
<1>1. {"idle", "acting"} \cup Deciding = {"idle", "acting", "asking", "answered", "deleting", "refusing"}
  BY DEF Deciding
<1>2. tick \in Ticks
  BY <1>1 DEF ClerkTypeOK, ProcessOK, Ticks
<1> QED BY <1>2 DEF Ticks

LEMMA WorkerFields ==
  ASSUME ClerkTypeOK
  PROVE  /\ worker \in {Resting} \cup [at : {"look", "read", "post"}, of : Suggestions]
         /\ worker.at # "idle" => worker.of \in Suggestions
<1>1. worker \in {Resting} \cup [at : {"look", "read", "post"}, of : Suggestions]
  BY DEF ClerkTypeOK, ProcessOK
<1>2. CASE worker = Resting
  BY <1>1, <1>2 DEF Resting
<1>3. CASE worker \in [at : {"look", "read", "post"}, of : Suggestions]
  BY <1>1, <1>3
<1> QED BY <1>1, <1>2, <1>3

\* Answering gestures in their threads.
LEMMA SpendRows ==
  ASSUME RelayOK, NEW answered, \A g \in answered : g \in Gestures /\ gestures[g].spent = 0,
         Spend(answered)
  PROVE  /\ gestures' \in Seq(GestureRows) /\ Len(gestures') = Len(gestures)
         /\ \A g \in Gestures :
              /\ gestures'[g].on = gestures[g].on /\ gestures'[g].sort = gestures[g].sort
              /\ gestures'[g].spent = IF g \in answered THEN 1 ELSE gestures[g].spent
<1>1. gestures \in Seq(GestureRows) /\ Len(gestures) \in Nat /\ Gestures = 1 .. Len(gestures)
  BY DEF RelayOK, Gestures
<1>2. ASSUME NEW g \in Gestures
      PROVE  /\ gestures'[g] \in GestureRows
             /\ gestures'[g].on = gestures[g].on /\ gestures'[g].sort = gestures[g].sort
             /\ gestures'[g].spent = IF g \in answered THEN 1 ELSE gestures[g].spent
  <2>1. gestures[g] \in GestureRows
    BY <1>1
  <2>2. gestures'[g] = IF g \in answered THEN [gestures[g] EXCEPT !.spent = @ + 1] ELSE gestures[g]
    BY DEF Spend
  <2>3. CASE g \in answered
    BY <2>1, <2>2, <2>3 DEF GestureRows
  <2>4. CASE g \notin answered
    BY <2>1, <2>2, <2>4 DEF GestureRows
  <2> QED BY <2>3, <2>4
<1>3. gestures' = [g \in 1 .. Len(gestures) |-> gestures'[g]]
  BY <1>1 DEF Spend
<1>4. gestures' \in [1 .. Len(gestures) -> GestureRows]
  BY <1>1, <1>2, <1>3
<1>5. gestures' \in Seq(GestureRows) /\ Len(gestures') = Len(gestures)
  BY <1>1, <1>4, LenProperties, SeqDef
<1> QED BY <1>2, <1>5

LEMMA TellRow ==
  ASSUME RelayOK, NEW a \in Gestures, gestures[a].told = 0, Tell(a)
  PROVE  /\ gestures' \in Seq(GestureRows) /\ Len(gestures') = Len(gestures)
         /\ \A g \in Gestures :
              /\ gestures'[g].on = gestures[g].on /\ gestures'[g].sort = gestures[g].sort
              /\ gestures'[g].spent = gestures[g].spent
<1>1. gestures \in Seq(GestureRows) /\ Len(gestures) \in Nat /\ Gestures = 1 .. Len(gestures)
  BY DEF RelayOK, Gestures
<1>2. ASSUME NEW g \in Gestures
      PROVE  /\ gestures'[g] \in GestureRows
             /\ gestures'[g].on = gestures[g].on /\ gestures'[g].sort = gestures[g].sort
             /\ gestures'[g].spent = gestures[g].spent
  <2>1. gestures[g] \in GestureRows
    BY <1>1
  <2>2. gestures'[g] = IF g = a THEN [gestures[g] EXCEPT !.told = @ + 1] ELSE gestures[g]
    BY <1>1 DEF Tell
  <2> QED BY <2>1, <2>2 DEF GestureRows
<1>3. gestures' = [g \in 1 .. Len(gestures) |-> gestures'[g]]
  <2>1. gestures \in [1 .. Len(gestures) -> GestureRows]
    BY <1>1
  <2> QED BY <2>1 DEF Tell
<1>4. gestures' \in [1 .. Len(gestures) -> GestureRows]
  BY <1>1, <1>2, <1>3
<1>5. gestures' \in Seq(GestureRows) /\ Len(gestures') = Len(gestures)
  BY <1>1, <1>4, LenProperties, SeqDef
<1> QED BY <1>2, <1>5

\* What triage takes up is the owner's first gesture there without an answer.
LEMMA OldestActs ==
  ASSUME ClerkTypeOK, NEW p \in Posts, NEW act \in Oldest(p), act # 0
  PROVE  ActedOn(act, p) /\ gestures[act].spent = 0
<1> DEFINE owners == Unspent(p) \ Strangers(p)
<1>1. act \in owners /\ \A h \in owners : act <= h
  BY DEF Oldest
<1>2. tick.seen \in 0 .. Len(gestures)
  BY DEF ClerkTypeOK, ProcessOK
<1>3. act \in Gestures /\ act \in 1 .. tick.seen /\ gestures[act].on = p /\ gestures[act].spent = 0
      /\ gestures[act].sort # "stranger"
  BY <1>1, <1>2, SizesFit DEF Unspent, Strangers
<1>4. ASSUME NEW h \in 1 .. act - 1, gestures[h].on = p, gestures[h].sort # "stranger"
      PROVE  gestures[h].spent = 1
  <2>1. h \in Gestures /\ h \in 1 .. tick.seen /\ h < act
    BY <1>2, <1>3, SizesFit
  <2>2. h \notin owners
    BY <1>1, <1>3, <2>1, SizesFit
  <2>3. gestures[h].spent # 0
    BY <1>4, <2>1, <2>2 DEF Unspent, Strangers
  <2> QED BY <2>1, <2>3, SizesFit
<1> QED BY <1>3, <1>4 DEF ActedOn

LEMMA StrangersUnspent ==
  ASSUME ClerkTypeOK, NEW p
  PROVE  \A g \in Strangers(p) : g \in Gestures /\ gestures[g].spent = 0
                                 /\ gestures[g].sort = "stranger" /\ gestures[g].on = p
<1>1. tick.seen \in 0 .. Len(gestures)
  BY DEF ClerkTypeOK, ProcessOK
<1> QED BY <1>1, SizesFit DEF Strangers, Unspent

\* What TakePost does to gestures and to the tick.
LEMMA TakePostParts ==
  ASSUME ClerkTypeOK, NEW p \in Posts, TakePost(p)
  PROVE  /\ tick.at = "acting" /\ p \in tick.todo /\ UNCHANGED <<world, posts, lines, reports, up, session, worker, sweeper, unseen>>
         /\ mishaps' \in 0 .. MaxMishaps
         /\ \E act \in Oldest(p) :
              \/ PostDone(p) /\ UNCHANGED gestures
              \/ (PostDone(p) \/ UNCHANGED tick) /\ Spend(Strangers(p))
              \/ PostDone(p) /\ act # 0 /\ Spend(Strangers(p) \cup {act})
              \/ PostDone(p) /\ act # 0 /\ gestures[act].told = 0 /\ Tell(act)
              \/ /\ act # 0 /\ Spend(Strangers(p))
                 /\ \E to \in {"asking", "refusing"} : tick' = [tick EXCEPT !.post = p, !.act = act, !.at = to]
<1>1. tick.at = "acting" /\ p \in tick.todo /\ UNCHANGED <<world, posts, lines, reports, up, session, worker, sweeper, unseen>>
  BY DEF TakePost
<1>2. mishaps' \in 0 .. MaxMishaps
  BY ClerkAssumption DEF TakePost, Mishap, NoMishap, ClerkTypeOK
<1> QED BY <1>1, <1>2 DEF TakePost

LEMMA RowsStep == ClerkTypeOK /\ TickInv /\ [ClerkNext]_clerkVars => GesturesKept
<1> SUFFICES ASSUME ClerkTypeOK, TickInv, [ClerkNext]_clerkVars PROVE GesturesKept
  OBVIOUS
<1> USE DEF world, approvals, relay, process, ActedOn
<1>0. RelayOK /\ \A g \in Gestures : gestures[g].on \in Posts
  BY DEF ClerkTypeOK, RelayOK
<1>1. ASSUME /\ gestures' \in Seq(GestureRows) /\ Len(gestures') = Len(gestures)
             /\ \A g \in Gestures :
                  /\ gestures'[g].on = gestures[g].on /\ gestures'[g].sort = gestures[g].sort
                  /\ gestures[g].spent = 1 => gestures'[g].spent = 1
      PROVE  GesturesKept
  <2>1. Len(gestures) \in Nat /\ Gestures = 1 .. Len(gestures)
    BY SizesFit
  <2>2. Len(gestures') <= MaxGestures
    BY <1>0, <1>1 DEF RelayOK
  <2> QED BY <1>0, <1>1, <2>1, <2>2 DEF GesturesKept
<1>2. CASE UNCHANGED gestures
  BY <1>1, <1>2, SizesFit
<1>3. ASSUME NEW answered, \A g \in answered : g \in Gestures /\ gestures[g].spent = 0, Spend(answered)
      PROVE  GesturesKept
  BY <1>0, <1>1, <1>3, SpendRows
<1>4. ASSUME NEW a \in Gestures, gestures[a].told = 0, Tell(a)
      PROVE  GesturesKept
  BY <1>0, <1>1, <1>4, TellRow
<1>5. CASE \/ UNCHANGED clerkVars \/ Start \/ Killed \/ RefreshSession \/ WorkerStep \/ JournalStep \/ SweepStep
           \/ TickReads \/ GatewayDecides \/ DeleteDecided
           \/ DeviceRevoked \/ Provision
           \/ \E s \in Suggestions : Propose(s) \/ ScreenApproves(s) \/ LateReply(s) \/ Report(s) \/ Age(s)
  BY <1>2, <1>5 DEF clerkVars, Start, Killed, RefreshSession, WorkerStep, Deliver, Look, ReadBeforePost,
       PostSuggestion, JournalStep, JournalLine, SweepStep, SweepReads, SweepDeletes, TickReads,
       GatewayDecides, DeleteDecided, DeviceRevoked, Provision, Propose, ScreenApproves, LateReply, Report, Age
<1>6. ASSUME NEW p \in Posts, NEW sort \in {"approve", "refuse", "stranger"}, Gesture(p, sort)
      PROVE  GesturesKept
  <2> DEFINE made == [on |-> p, sort |-> sort, inTime |-> ~Expired(posts[p].of), spent |-> 0, told |-> 0]
  <2>1. made \in GestureRows
    BY SizesFit DEF GestureRows
  <2>2. gestures' = Append(gestures, made) /\ Len(gestures) < MaxGestures
    BY <1>6 DEF Gesture
  <2>3. made.on = p
    OBVIOUS
  <2> HIDE DEF made
  <2>4. /\ gestures' \in Seq(GestureRows) /\ Len(gestures') = Len(gestures) + 1
        /\ gestures'[Len(gestures) + 1] = made
        /\ \A g \in 1 .. Len(gestures) : gestures'[g] = gestures[g]
    BY <2>1, <2>2, SizesFit
  <2> QED BY <1>0, <2>2, <2>3, <2>4, SizesFit DEF GesturesKept
<1>7. ASSUME NEW p \in Posts, TakePost(p)
      PROVE  GesturesKept
  <2>1. PICK act \in Oldest(p) :
              \/ UNCHANGED gestures
              \/ Spend(Strangers(p))
              \/ act # 0 /\ Spend(Strangers(p) \cup {act})
              \/ act # 0 /\ gestures[act].told = 0 /\ Tell(act)
    BY <1>7, TakePostParts
  <2>2. act # 0 => act \in Gestures /\ gestures[act].spent = 0
    BY OldestActs
  <2> QED BY <1>2, <1>3, <1>4, <2>1, <2>2, StrangersUnspent
<1>8. CASE Carry
  <2>1. tick.act \in Gestures /\ gestures[tick.act].spent = 0
    BY <1>8 DEF Carry, TickInv, Deciding
  <2>2. \A g \in {tick.act} : g \in Gestures /\ gestures[g].spent = 0
    BY <2>1
  <2>3. \/ UNCHANGED gestures \/ Spend({tick.act})
        \/ gestures[tick.act].told = 0 /\ Tell(tick.act)
    BY <1>8 DEF Carry, Deferred
  <2> QED BY <1>2, <1>3, <1>4, <2>1, <2>2, <2>3
<1> QED BY <1>5, <1>6, <1>7, <1>8 DEF ClerkNext, TickStep, World

\* Only PostSuggestion posts; what is deleted stays deleted.
Posted(s) == posts' = Append(posts, [of |-> s, live |-> TRUE])

LEMMA DeleteRow ==
  ASSUME posts \in Seq(Rows), NEW p, Delete(p)
  PROVE  PostsKept /\ Len(posts') = Len(posts)
<1>1. posts \in [1 .. Len(posts) -> Rows] /\ Len(posts) \in Nat
  OBVIOUS
<1>2. ASSUME NEW q \in 1 .. Len(posts)
      PROVE  posts'[q] \in Rows /\ posts'[q].of = posts[q].of /\ (posts'[q].live => posts[q].live)
  <2>1. posts[q] \in Rows
    BY <1>1
  <2>2. posts'[q] = IF q = p THEN [posts[q] EXCEPT !.live = FALSE] ELSE posts[q]
    BY <1>1 DEF Delete
  <2> QED BY <2>1, <2>2 DEF Rows
<1>3. posts' = [q \in 1 .. Len(posts) |-> posts'[q]]
  BY <1>1 DEF Delete
<1>4. posts' \in [1 .. Len(posts) -> Rows]
  BY <1>1, <1>2, <1>3
<1>5. posts' \in Seq(Rows) /\ Len(posts') = Len(posts)
  BY <1>1, <1>4, LenProperties, SeqDef
<1> QED BY <1>1, <1>2, <1>5 DEF PostsKept, Posts

LEMMA PostedRow ==
  ASSUME posts \in Seq(Rows), NEW s \in Suggestions, Posted(s)
  PROVE  /\ posts' \in Seq(Rows) /\ Len(posts') = Len(posts) + 1
         /\ posts'[Len(posts) + 1] = [of |-> s, live |-> TRUE]
         /\ \A q \in 1 .. Len(posts) : posts'[q] = posts[q]
         /\ PostsKept
<1>1. [of |-> s, live |-> TRUE] \in Rows
  BY DEF Rows
<1>2. PICK put : put = [of |-> s, live |-> TRUE]
  OBVIOUS
<1>3. /\ posts' \in Seq(Rows) /\ Len(posts') = Len(posts) + 1 /\ posts'[Len(posts) + 1] = put
      /\ \A q \in 1 .. Len(posts) : posts'[q] = posts[q]
  BY <1>1, <1>2 DEF Posted
<1> QED BY <1>2, <1>3 DEF PostsKept, Posts

\* Posts are as they were, fewer alive, or one more.
LEMMA PostsStep ==
  ASSUME ClerkTypeOK, [ClerkNext]_clerkVars
  PROVE  /\ PostsKept
         /\ \/ Len(posts') = Len(posts)
            \/ PostSuggestion /\ Posted(worker.of) /\ worker.of \in Suggestions
<1> USE DEF world, approvals, relay, process
<1>0. posts \in Seq(Rows)
  BY SizesFit
<1>1. CASE UNCHANGED posts
  BY <1>0, <1>1, SizesFit DEF PostsKept
<1>2. CASE \E p \in Posts : Delete(p)
  BY <1>0, <1>2, DeleteRow
<1>3. CASE PostSuggestion
  <2>1. worker.of \in Suggestions
    <3>1. worker.at = "post"
      BY <1>3 DEF PostSuggestion
    <3> QED BY <3>1, WorkerFields
  <2>2. UNCHANGED posts \/ Posted(worker.of)
    BY <1>3 DEF PostSuggestion, Posted
  <2> QED BY <1>0, <1>1, <1>3, <2>1, <2>2, PostedRow
<1>4. CASE DeleteDecided
  <2>1. UNCHANGED posts \/ Delete(tick.post)
    BY <1>4 DEF DeleteDecided
  <2>2. Delete(tick.post) => UNCHANGED posts \/ tick.post \in Posts
    <3>1. tick.post \in {0} \cup Posts /\ posts \in [1 .. Len(posts) -> Rows]
      BY <1>0, TickFields
    <3>2. ASSUME tick.post = 0, Delete(0) PROVE UNCHANGED posts
      BY <3>1, <3>2 DEF Delete
    <3> QED BY <3>1, <3>2
  <2> QED BY <1>1, <1>2, <2>1, <2>2
<1>5. CASE SweepStep
  <2>1. UNCHANGED posts \/ \E p \in Posts : Delete(p)
    BY <1>5 DEF SweepStep, SweepReads, SweepDeletes
  <2> QED BY <1>1, <1>2, <2>1
<1>6. CASE \/ UNCHANGED clerkVars \/ Start \/ Killed \/ RefreshSession \/ JournalStep
           \/ (\E s \in Suggestions : Deliver(s)) \/ Look \/ ReadBeforePost
           \/ TickReads \/ (\E p \in Posts : TakePost(p)) \/ GatewayDecides \/ Carry \/ World
  <2>1. UNCHANGED posts
    BY <1>6 DEF clerkVars, Start, Killed, RefreshSession, Deliver, Look, ReadBeforePost,
         JournalStep, JournalLine, TickReads, TakePost, Carry,
         GatewayDecides, World, DeviceRevoked, Provision, Propose, ScreenApproves, LateReply, Report, Age, Gesture
  <2> QED BY <1>1, <2>1
<1> QED BY <1>3, <1>4, <1>5, <1>6 DEF ClerkNext, TickStep, WorkerStep

\* A post or gesture there is one still.
LEMMA Grown ==
  ASSUME ClerkTypeOK, GesturesKept, PostsKept
  PROVE  /\ Gestures \subseteq Gestures' /\ Posts \subseteq Posts'
         /\ 0 .. Len(gestures) \subseteq 0 .. Len(gestures')
         /\ Ticks \subseteq Ticks'
<1>1. Len(posts) \in Nat /\ Len(gestures) \in Nat /\ Len(posts') \in Nat /\ Len(gestures') \in Nat
  BY SizesFit DEF GesturesKept, PostsKept
<1>2. /\ Gestures \subseteq Gestures' /\ Posts \subseteq Posts'
      /\ 0 .. Len(gestures) \subseteq 0 .. Len(gestures')
  BY <1>1 DEF GesturesKept, PostsKept, Gestures, Posts
<1> QED BY <1>2 DEF Ticks

LEMMA Budgeted ==
  ASSUME ClerkTypeOK
  PROVE  Mishap \/ NoMishap => mishaps' \in 0 .. MaxMishaps
BY SizesFit DEF Mishap, NoMishap, ClerkTypeOK

\* Where the bus puts a message the clerk is done with.
LEMMA ClerkBusTyped ==
  ASSUME ClerkTypeOK, NEW s,
         \/ Acked(s) \/ Naked(s) \/ bus' = [bus EXCEPT ![s] = "settled"]
         \/ bus' = [bus EXCEPT ![s] = "taken"] \/ bus' = [bus EXCEPT ![s] = "waiting"]
         \/ UNCHANGED bus
  PROVE  bus' \in [Suggestions -> {"none", "waiting", "taken", "settled", "givenUp"}]
<1>1. bus \in [Suggestions -> {"none", "waiting", "taken", "settled", "givenUp"}]
  BY DEF ClerkTypeOK, WorldOK
<1>2. UNCHANGED bus \/ \E to \in {"waiting", "taken", "settled", "givenUp"} : bus' = [bus EXCEPT ![s] = to]
  BY DEF Acked, Naked
<1> QED BY <1>1, <1>2

\* The Gateway's record, and what it handed to the bus.
ApprovalsOK ==
  /\ rows \in [Suggestions -> {"none", "unmarked", "marked"}]
  /\ handed \in [Suggestions -> SUBSET [by : Gestures \cup {Screen}, answered : BOOLEAN]]
  /\ out \in [Suggestions -> BOOLEAN]

\* What the Gateway records is in range, if the gestures were only added to.
LEMMA ApprovesTyped ==
  ASSUME WorldOK, Gestures \subseteq Gestures',
         UNCHANGED approvals
         \/ \E s : \E to \in {"unmarked", "marked"} : \E arrived \in BOOLEAN :
               \E by \in Gestures \cup {Screen} : Approves(s, by, to, arrived)
  PROVE  ApprovalsOK'
<1> DEFINE Actors == [by : Gestures \cup {Screen}, answered : BOOLEAN]
           Grow == [by : Gestures' \cup {Screen}, answered : BOOLEAN]
<1>0. /\ rows \in [Suggestions -> {"none", "unmarked", "marked"}]
      /\ handed \in [Suggestions -> SUBSET Actors]
      /\ out \in [Suggestions -> BOOLEAN]
  BY DEF WorldOK
<1>1. Actors \subseteq Grow
  OBVIOUS
<1>2. SUFFICES /\ rows' \in [Suggestions -> {"none", "unmarked", "marked"}]
               /\ handed' \in [Suggestions -> SUBSET Grow]
               /\ out' \in [Suggestions -> BOOLEAN]
  BY DEF ApprovalsOK, Screen
<1>3. CASE UNCHANGED approvals
  BY <1>0, <1>1, <1>3 DEF approvals
<1>4. ASSUME NEW s, NEW to \in {"unmarked", "marked"}, NEW arrived \in BOOLEAN,
             NEW by \in Gestures \cup {Screen}, Approves(s, by, to, arrived)
      PROVE  /\ rows' \in [Suggestions -> {"none", "unmarked", "marked"}]
             /\ handed' \in [Suggestions -> SUBSET Grow]
             /\ out' \in [Suggestions -> BOOLEAN]
  <2>1. rows' \in [Suggestions -> {"none", "unmarked", "marked"}] /\ out' \in [Suggestions -> BOOLEAN]
    BY <1>0, <1>4 DEF Approves
  <2> DEFINE h == [by |-> by, answered |-> by \in Gestures /\ gestures[by].spent > 0]
  <2>0. h \in Grow
    BY <1>1, <1>4
  <2>2. handed' = [handed EXCEPT ![s] = @ \cup {h}]
    BY <1>4 DEF Approves
  <2> HIDE DEF Actors, Grow, h
  <2>3. handed' \in [Suggestions -> SUBSET Grow]
    BY <1>0, <1>1, <2>0, <2>2
  <2> QED BY <2>1, <2>3
<1> QED BY <1>3, <1>4

LEMMA WorldStep == ClerkTypeOK /\ TickInv /\ GesturesKept /\ [ClerkNext]_clerkVars => WorldOK'
<1> SUFFICES ASSUME ClerkTypeOK, TickInv, GesturesKept, [ClerkNext]_clerkVars PROVE WorldOK'
  OBVIOUS
<1> USE DEF world, approvals, relay, process
<1>0. WorldOK /\ Gestures \subseteq Gestures'
  BY SizesFit DEF ClerkTypeOK, GesturesKept, Gestures
<1>13. UNCHANGED approvals => ApprovalsOK'
  BY <1>0, ApprovesTyped
<1>1. CASE UNCHANGED world
  BY <1>0, <1>1, <1>13 DEF WorldOK, ApprovalsOK
<1>2. CASE UNCHANGED <<undated, clock, delivered, approvals, device>>
           /\ bus' \in [Suggestions -> {"none", "waiting", "taken", "settled", "givenUp"}]
  BY <1>0, <1>2, <1>13 DEF WorldOK, ApprovalsOK
<1>3. CASE \/ UNCHANGED clerkVars \/ Start \/ RefreshSession \/ JournalStep \/ SweepStep
           \/ TickReads \/ (\E p \in Posts : TakePost(p)) \/ Carry \/ DeleteDecided
           \/ \E p \in Posts, sort \in {"approve", "refuse", "stranger"} : Gesture(p, sort)
           \/ \E s \in Suggestions : Report(s)
  BY <1>1, <1>3 DEF clerkVars, Start, RefreshSession, JournalStep, JournalLine, SweepStep, SweepReads,
       SweepDeletes, TickReads, TakePost, Carry, DeleteDecided, Gesture, Report
<1>4. CASE Killed
  BY <1>0, <1>2, <1>4 DEF Killed, WorldOK
<1>5. CASE Look \/ ReadBeforePost \/ PostSuggestion
  <2>1. UNCHANGED <<undated, clock, delivered, approvals, device>>
    BY <1>5 DEF Look, ReadBeforePost, PostSuggestion
  <2>2. \/ Acked(worker.of) \/ Naked(worker.of) \/ bus' = [bus EXCEPT ![worker.of] = "settled"]
        \/ UNCHANGED bus
    BY <1>5 DEF Look, ReadBeforePost, PostSuggestion
  <2> QED BY <1>2, <2>1, <2>2, ClerkBusTyped
<1>6. ASSUME NEW s \in Suggestions, Deliver(s)
      PROVE  WorldOK'
  <2>1. bus' \in [Suggestions -> {"none", "waiting", "taken", "settled", "givenUp"}]
    BY <1>6, ClerkBusTyped DEF Deliver
  <2>2. delivered' \in [Suggestions -> 0 .. MaxDeliver]
    BY <1>0, <1>6, ClerkAssumption DEF Deliver, WorldOK
  <2> QED BY <1>0, <1>6, <1>13, <2>1, <2>2 DEF Deliver, WorldOK, ApprovalsOK
<1>7. ASSUME NEW s \in Suggestions, Propose(s)
      PROVE  WorldOK'
  <2>1. bus' \in [Suggestions -> {"none", "waiting", "taken", "settled", "givenUp"}]
    BY <1>7, ClerkBusTyped DEF Propose
  <2> QED BY <1>2, <1>7, <2>1 DEF Propose
<1>8. CASE GatewayDecides
  <2>1. tick.act \in Gestures
    BY <1>8 DEF GatewayDecides, TickInv, Deciding, ActedOn
  <2> DEFINE W == posts[tick.post].of
  <2>2. \/ UNCHANGED approvals
        \/ \E to \in {"unmarked", "marked"}, arrived \in BOOLEAN : Approves(W, tick.act, to, arrived)
    BY <1>8 DEF GatewayDecides
  <2>4. \/ UNCHANGED approvals
        \/ \E to \in {"unmarked", "marked"} : \E arrived \in BOOLEAN :
              \E by \in Gestures \cup {Screen} : Approves(W, by, to, arrived)
    BY <2>1, <2>2
  <2>3. ApprovalsOK'
    BY <1>0, <2>4, ApprovesTyped
  <2> QED BY <1>0, <1>8, <2>3 DEF GatewayDecides, WorldOK, ApprovalsOK
<1>9. ASSUME NEW s \in Suggestions, ScreenApproves(s)
      PROVE  WorldOK'
  <2>1. \E to \in {"unmarked", "marked"} : \E arrived \in BOOLEAN :
           \E by \in Gestures \cup {Screen} : Approves(s, by, to, arrived)
    BY <1>9 DEF ScreenApproves
  <2>2. ApprovalsOK'
    BY <1>0, <2>1, ApprovesTyped
  <2> QED BY <1>0, <1>9, <2>2 DEF ScreenApproves, WorldOK, ApprovalsOK
<1>12. ASSUME NEW s \in Suggestions, LateReply(s)
       PROVE  WorldOK'
  <2>1. UNCHANGED <<undated, clock, bus, delivered, rows, handed, device>> /\ out' \in [Suggestions -> BOOLEAN]
    BY <1>0, <1>12 DEF LateReply, WorldOK
  <2>2. /\ handed' \in [Suggestions -> SUBSET [by : Gestures' \cup {Screen}, answered : BOOLEAN]]
        /\ rows' \in [Suggestions -> {"none", "unmarked", "marked"}]
    BY <1>0, <2>1 DEF WorldOK
  <2>3. ApprovalsOK'
    BY <2>1, <2>2 DEF ApprovalsOK, Screen
  <2> QED BY <1>0, <2>1, <2>3 DEF WorldOK, ApprovalsOK
<1>10. CASE DeviceRevoked \/ Provision
  BY <1>0, <1>10, <1>13 DEF DeviceRevoked, Provision, WorldOK, ApprovalsOK
<1>11. ASSUME NEW s \in Suggestions, Age(s)
       PROVE  WorldOK'
  <2>1. clock' \in [Suggestions -> {"far", "near", "over"}]
    BY <1>0, <1>11 DEF Age, WorldOK
  <2> QED BY <1>0, <1>11, <1>13, <2>1 DEF Age, WorldOK, ApprovalsOK
<1> QED BY <1>3, <1>4, <1>5, <1>6, <1>7, <1>8, <1>9, <1>10, <1>11, <1>12
        DEF ClerkNext, World, TickStep, WorkerStep

LEMMA RelayStep == ClerkTypeOK /\ TickInv /\ GesturesKept /\ PostsKept /\ [ClerkNext]_clerkVars => RelayOK'
<1> SUFFICES ASSUME ClerkTypeOK, TickInv, GesturesKept, PostsKept, [ClerkNext]_clerkVars PROVE RelayOK'
  OBVIOUS
<1> USE DEF world, approvals, relay, process
<1>0. RelayOK /\ Gestures \subseteq Gestures' /\ Posts \subseteq Posts'
  BY Grown DEF ClerkTypeOK
<1>1. /\ posts' \in Seq(Rows) /\ gestures' \in Seq(GestureRows) /\ Len(gestures') <= MaxGestures
      /\ \A g \in Gestures' : gestures'[g].on \in Posts'
  BY <1>0 DEF GesturesKept, PostsKept, Gestures
<1>2. \A line \in lines' : line.kind = "refused" => line.by \in Gestures'
  <2>1. CASE UNCHANGED lines
    BY <1>0, <2>1 DEF RelayOK
  <2>2. CASE \E s, n : lines' = lines \cup {Line("produced", s, n)} \/ lines' = lines \cup {Line("expired", s, n)}
    BY <1>0, <2>2 DEF RelayOK, Line
  <2>3. CASE PostSuggestion \/ (\E p \in Posts : SweepDeletes(p))
    BY <2>1, <2>2, <2>3 DEF PostSuggestion, SweepDeletes
  <2>4. CASE DeleteDecided
    <3>1. tick.act \in Gestures
      BY <2>4 DEF DeleteDecided, TickInv, Deciding, ActedOn
    <3>2. lines' = lines \/ lines' = lines \cup Told
      BY <2>4 DEF DeleteDecided
    <3>3. \A line \in Told : line.by = tick.act
      BY DEF Told, Line
    <3> QED BY <1>0, <3>1, <3>2, <3>3 DEF RelayOK
  <2>5. CASE \/ UNCHANGED clerkVars \/ Start \/ Killed \/ RefreshSession \/ JournalStep \/ World
             \/ (\E s \in Suggestions : Deliver(s)) \/ Look \/ ReadBeforePost \/ SweepReads
             \/ TickReads \/ (\E p \in Posts : TakePost(p)) \/ GatewayDecides \/ Carry
    BY <2>1, <2>5 DEF clerkVars, Start, Killed, RefreshSession, JournalStep, JournalLine, World,
         DeviceRevoked, Provision, Propose, ScreenApproves, LateReply, Report, Age, Gesture, Deliver, Look,
         ReadBeforePost, SweepReads, TickReads, TakePost, GatewayDecides, Carry
  <2> QED BY <2>3, <2>4, <2>5 DEF ClerkNext, TickStep, WorkerStep, SweepStep
<1> DEFINE Reported == [bus : {"none", "waiting", "settled", "givenUp"}, times : Nat, lines : 0 .. 1]
<1>3. reports' \in [Suggestions -> Reported]
  <2>0. reports \in [Suggestions -> Reported]
    BY <1>0 DEF RelayOK
  <2>1. CASE UNCHANGED reports
    BY <2>0, <2>1
  <2>2. ASSUME NEW s \in Suggestions, JournalLine(s) PROVE reports' \in [Suggestions -> Reported]
    <3>1. PICK to \in {"waiting", "settled", "givenUp"}, n \in 0 .. 1 :
            /\ reports' = [reports EXCEPT ![s] = [bus |-> to, times |-> reports[s].times + 1, lines |-> @.lines + n]]
            /\ reports[s].lines > 0 => n = 0
      BY <2>2 DEF JournalLine, AlreadyLined
    <3>2. reports[s].times \in Nat /\ reports[s].lines \in 0 .. 1
      BY <2>0
    <3>3. [bus |-> to, times |-> reports[s].times + 1, lines |-> reports[s].lines + n] \in Reported
      BY <3>1, <3>2
    <3> HIDE DEF Reported
    <3> QED BY <2>0, <3>1, <3>3
  <2>3. ASSUME NEW s \in Suggestions, Report(s) PROVE reports' \in [Suggestions -> Reported]
    <3>1. [reports[s] EXCEPT !.bus = "waiting"] \in Reported
      BY <2>0
    <3> HIDE DEF Reported
    <3> QED BY <2>0, <2>3, <3>1 DEF Report
  <2>4. CASE \/ UNCHANGED clerkVars \/ Start \/ Killed \/ RefreshSession \/ WorkerStep \/ TickStep \/ SweepStep
             \/ DeviceRevoked \/ Provision
             \/ (\E s \in Suggestions : Propose(s) \/ ScreenApproves(s) \/ LateReply(s) \/ Age(s))
             \/ \E p \in Posts, sort \in {"approve", "refuse", "stranger"} : Gesture(p, sort)
    <3>1. UNCHANGED reports
      BY <2>4 DEF clerkVars, Start, Killed, RefreshSession, WorkerStep, Deliver, Look, ReadBeforePost,
           PostSuggestion, TickStep, TickReads, TakePost, GatewayDecides, Carry, DeleteDecided, SweepStep,
           SweepReads, SweepDeletes, DeviceRevoked, Provision, Propose, ScreenApproves, LateReply, Age, Gesture
    <3> QED BY <2>1, <3>1
  <2> QED BY <2>2, <2>3, <2>4 DEF ClerkNext, World, JournalStep
<1> HIDE DEF Reported
<1> QED BY <1>1, <1>2, <1>3 DEF RelayOK, Rows, Reported

\* The tick between two posts, and after the last.
LEMMA PostDoneTick ==
  ASSUME ClerkTypeOK, NEW p, PostDone(p)
  PROVE  tick' \in Ticks /\ tick'.at \in {"idle", "acting"}
<1>1. tick \in Ticks
  BY TickFields
<1>2. Quiet \in Ticks /\ Quiet.at = "idle"
  BY SizesFit DEF Quiet, Ticks
<1>3. CASE tick.todo = {p}
  BY <1>2, <1>3 DEF PostDone
<1>4. CASE tick.todo # {p}
  <2>1. PICK rest : rest = tick.todo \ {p}
    OBVIOUS
  <2>2. rest \subseteq Posts
    BY <2>1, TickFields
  <2>3. tick' = [tick EXCEPT !.at = "acting", !.todo = rest, !.post = 0, !.act = 0, !.answer = ""]
    BY <1>4, <2>1 DEF PostDone
  <2> QED BY <1>1, <2>2, <2>3 DEF Ticks
<1> QED BY <1>3, <1>4

LEMMA TickTyped == ClerkTypeOK /\ GesturesKept /\ PostsKept /\ [ClerkNext]_clerkVars => tick' \in Ticks'
<1> SUFFICES ASSUME ClerkTypeOK, GesturesKept, PostsKept, [ClerkNext]_clerkVars PROVE tick' \in Ticks'
  OBVIOUS
<1> USE DEF world, approvals, relay, process
<1>0. tick \in Ticks /\ Ticks \subseteq Ticks'
  BY TickFields, Grown
<1>1. CASE UNCHANGED tick
  BY <1>0, <1>1
<1>2. CASE \E p : PostDone(p)
  BY <1>0, <1>2, PostDoneTick
<1>3. CASE \/ UNCHANGED clerkVars \/ Start \/ RefreshSession \/ JournalStep \/ SweepStep \/ WorkerStep \/ World
  BY <1>1, <1>3 DEF clerkVars, Start, RefreshSession, JournalStep, JournalLine, SweepStep, SweepReads,
       SweepDeletes, WorkerStep, Deliver, Look, ReadBeforePost, PostSuggestion, World, Gesture, Report,
       DeviceRevoked, Provision, Propose, ScreenApproves, LateReply, Age
<1>4. CASE Killed
  <2>1. Quiet \in Ticks
    BY SizesFit DEF Quiet, Ticks
  <2> QED BY <1>0, <1>4, <2>1 DEF Killed
<1>5. CASE TickReads
  <2>1. PICK old \in SUBSET Live : tick' = [Quiet EXCEPT !.at = "acting", !.todo = Live, !.late = old, !.seen = Len(gestures)]
    BY <1>5 DEF TickReads
  <2>2. Live \subseteq Posts /\ Len(gestures) \in 0 .. Len(gestures)
    BY SizesFit DEF Live
  <2>3. tick' \in Ticks
    BY <2>1, <2>2 DEF Quiet, Ticks
  <2> QED BY <1>0, <2>3
<1>6. ASSUME NEW p \in Posts, TakePost(p)
      PROVE  tick' \in Ticks'
  <2>1. \/ PostDone(p) \/ UNCHANGED tick
        \/ \E act \in Oldest(p), to \in {"asking", "refusing"} :
             act # 0 /\ tick' = [tick EXCEPT !.post = p, !.act = act, !.at = to]
    BY <1>6, TakePostParts
  <2>2. ASSUME NEW act \in Oldest(p), act # 0, NEW to \in {"asking", "refusing"},
               tick' = [tick EXCEPT !.post = p, !.act = act, !.at = to]
        PROVE  tick' \in Ticks
    <3>1. act \in Gestures
      BY <2>2, OldestActs DEF ActedOn
    <3> QED BY <1>0, <2>2, <3>1 DEF Ticks, Deciding
  <2> QED BY <1>0, <1>1, <1>2, <2>1, <2>2
<1>7. CASE GatewayDecides
  <2> DEFINE Heard(what) == tick' = [tick EXCEPT !.at = "answered", !.answer = what]
  <2>0. Heard("401") \/ Heard("refused") \/ Heard("already") \/ Heard("approved") \/ Heard("silence")
    BY <1>7 DEF GatewayDecides
  <2>1. PICK what \in {"approved", "already", "refused", "silence", "401"} : Heard(what)
    BY <2>0
  <2> QED BY <1>0, <2>1 DEF Ticks, Deciding
<1>8. CASE Carry
  <2>1. tick' = [tick EXCEPT !.at = "deleting"] \/ PostDone(tick.post)
    BY <1>8 DEF Carry
  <2> QED BY <1>0, <1>2, <2>1 DEF Ticks, Deciding
<1>9. CASE DeleteDecided
  BY <1>2, <1>9 DEF DeleteDecided
<1> QED BY <1>3, <1>4, <1>5, <1>6, <1>7, <1>8, <1>9 DEF ClerkNext, TickStep

LEMMA ProcessStep == ClerkTypeOK /\ GesturesKept /\ PostsKept /\ [ClerkNext]_clerkVars => ProcessOK'
<1> SUFFICES ASSUME ClerkTypeOK, GesturesKept, PostsKept, [ClerkNext]_clerkVars PROVE ProcessOK'
  OBVIOUS
<1> USE DEF world, approvals, relay, process
<1>0. ProcessOK /\ Posts \subseteq Posts'
  BY Grown DEF ClerkTypeOK
<1> DEFINE At == {Resting} \cup [at : {"look", "read", "post"}, of : Suggestions]
<1>1. worker \in At /\ (worker.at # "idle" => worker.of \in Suggestions) /\ Resting \in At
  BY WorkerFields
<1>2. worker' \in At
  <2>1. CASE UNCHANGED worker \/ worker' = Resting
    BY <1>1, <2>1
  <2>2. CASE Look \/ ReadBeforePost
    <3>1. worker.at \in {"look", "read"}
      BY <2>2 DEF Look, ReadBeforePost
    <3>2. worker \in [at : {"look", "read", "post"}, of : Suggestions]
      BY <1>1, <3>1 DEF Resting
    <3>3. worker' = Resting \/ \E to \in {"read", "post"} : worker' = [worker EXCEPT !.at = to]
      BY <2>2 DEF Look, ReadBeforePost, Acked, Naked
    <3> QED BY <1>1, <3>2, <3>3
  <2>3. CASE \E s \in Suggestions : Deliver(s)
    BY <2>3 DEF Deliver
  <2>4. CASE PostSuggestion \/ Killed
    BY <2>1, <2>4 DEF PostSuggestion, Killed, Acked, Naked
  <2>5. CASE \/ UNCHANGED clerkVars \/ Start \/ RefreshSession \/ JournalStep \/ SweepStep \/ TickStep \/ World
    BY <2>1, <2>5 DEF clerkVars, Start, RefreshSession, JournalStep, JournalLine, SweepStep, SweepReads,
         SweepDeletes, TickStep, TickReads, TakePost, GatewayDecides, Carry, DeleteDecided,
         World, Gesture, Report, DeviceRevoked, Provision, Propose, ScreenApproves, LateReply, Age
  <2> QED BY <2>2, <2>3, <2>4, <2>5 DEF ClerkNext, WorkerStep
<1>3. sweeper' \subseteq Posts'
  <2>1. CASE UNCHANGED sweeper \/ sweeper' = {}
    BY <1>0, <2>1 DEF ProcessOK
  <2>2. CASE SweepReads
    BY <1>0, <2>2 DEF SweepReads, Live
  <2>3. CASE \E p \in Posts : SweepDeletes(p)
    BY <1>0, <2>3 DEF SweepDeletes, ProcessOK
  <2>4. CASE \/ UNCHANGED clerkVars \/ Start \/ Killed \/ RefreshSession \/ JournalStep \/ WorkerStep \/ TickStep \/ World
    BY <2>1, <2>4 DEF clerkVars, Start, Killed, RefreshSession, JournalStep, JournalLine,
         WorkerStep, Deliver, Look, ReadBeforePost, PostSuggestion, TickStep, TickReads, TakePost,
         GatewayDecides, Carry, DeleteDecided,
         World, Gesture, Report, DeviceRevoked, Provision, Propose, ScreenApproves, LateReply, Age
  <2> QED BY <2>2, <2>3, <2>4 DEF ClerkNext, SweepStep
<1>4. up' \in BOOLEAN /\ session' \in {"alive", "dead"}
  <2>1. CASE UNCHANGED <<up, session>>
    BY <1>0, <2>1 DEF ProcessOK
  <2>2. CASE \/ Start \/ Killed \/ RefreshSession \/ ReadBeforePost \/ Carry
    BY <1>0, <2>2 DEF Start, Killed, RefreshSession, Refreshed, ReadBeforePost, Carry, ProcessOK
  <2>3. CASE \/ UNCHANGED clerkVars \/ JournalStep \/ (\E s \in Suggestions : Deliver(s)) \/ Look \/ PostSuggestion
             \/ TickReads \/ (\E p \in Posts : TakePost(p)) \/ GatewayDecides \/ DeleteDecided
             \/ SweepStep \/ World
    BY <2>1, <2>3 DEF clerkVars, JournalStep, JournalLine, Deliver, Look, PostSuggestion, TickReads, TakePost,
         GatewayDecides, DeleteDecided, SweepStep, SweepReads, SweepDeletes,
         World, Gesture, Report, DeviceRevoked, Provision, Propose, ScreenApproves, LateReply, Age
  <2> QED BY <2>2, <2>3 DEF ClerkNext, WorkerStep, TickStep
<1>5. tick' \in Ticks'
  BY TickTyped
<1>6. {"idle", "acting"} \cup Deciding = {"idle", "acting", "asking", "answered", "deleting", "refusing"}
  BY DEF Deciding
<1>7. tick' \in [at : {"idle", "acting", "asking", "answered", "deleting", "refusing"},
                 todo : SUBSET Posts', late : SUBSET Posts', seen : 0 .. Len(gestures'),
                 post : {0} \cup Posts', act : {0} \cup Gestures',
                 answer : {"", "approved", "already", "refused", "silence", "401"}]
  BY <1>5, <1>6 DEF Ticks
<1> QED BY <1>2, <1>3, <1>4, <1>7 DEF ProcessOK

LEMMA HistoryTyped == ClerkTypeOK /\ [ClerkNext]_clerkVars => unseen' \subseteq Suggestions /\ mishaps' \in 0 .. MaxMishaps
<1> SUFFICES ASSUME ClerkTypeOK, [ClerkNext]_clerkVars
             PROVE  unseen' \subseteq Suggestions /\ mishaps' \in 0 .. MaxMishaps
  OBVIOUS
<1> USE DEF world, approvals, relay, process
<1>0. unseen \subseteq Suggestions /\ mishaps \in 0 .. MaxMishaps
  BY DEF ClerkTypeOK
<1>1. unseen' \subseteq Suggestions
  <2>1. CASE UNCHANGED unseen
    BY <1>0, <2>1
  <2>2. CASE Look \/ PostSuggestion
    <3>1. worker.at # "idle"
      BY <2>2 DEF Look, PostSuggestion
    <3>2. worker.of \in Suggestions
      BY <3>1, WorkerFields
    <3> QED BY <1>0, <2>2, <3>2 DEF Look, PostSuggestion
  <2>3. CASE \/ UNCHANGED clerkVars \/ Start \/ Killed \/ RefreshSession \/ JournalStep \/ SweepStep \/ TickStep \/ World
             \/ (\E s \in Suggestions : Deliver(s)) \/ ReadBeforePost
    BY <2>1, <2>3 DEF clerkVars, Start, Killed, RefreshSession, JournalStep, JournalLine, SweepStep, SweepReads,
         SweepDeletes, TickStep, TickReads, TakePost, GatewayDecides, Carry, DeleteDecided, Deliver, ReadBeforePost,
         World, Gesture, Report, DeviceRevoked, Provision, Propose, ScreenApproves, LateReply, Age
  <2> QED BY <2>2, <2>3 DEF ClerkNext, WorkerStep
<1>2. mishaps' \in 0 .. MaxMishaps
  <2>1. CASE UNCHANGED mishaps \/ Mishap \/ NoMishap
    BY <1>0, <2>1, Budgeted
  <2>2. CASE \E p \in Posts : TakePost(p)
    BY <2>2, TakePostParts
  <2>3. CASE \/ UNCHANGED clerkVars \/ Start \/ Killed \/ RefreshSession \/ JournalStep \/ SweepStep
             \/ TickReads \/ GatewayDecides \/ Carry \/ DeleteDecided
    BY <2>1, <2>3 DEF clerkVars, Start, Killed, RefreshSession, JournalStep, JournalLine, SweepStep, SweepReads,
         SweepDeletes, TickReads, GatewayDecides, Carry, DeleteDecided
  <2>4. CASE WorkerStep \/ World
    BY <2>1, <2>4 DEF WorkerStep, Deliver, Look, ReadBeforePost, PostSuggestion, Acked, Naked, World, Gesture,
         Report, DeviceRevoked, Provision, Propose, ScreenApproves, LateReply, Age
  <2> QED BY <2>2, <2>3, <2>4 DEF ClerkNext, TickStep
<1> QED BY <1>1, <1>2

-----------------------------------------------------------------------------
(* The owner's first word.                                                   *)

FirstWord(g) == ActedOn(g, gestures[g].on)

LEMMA ActedKept ==
  ASSUME ClerkTypeOK, GesturesKept, NEW g, NEW p, ActedOn(g, p)
  PROVE  ActedOn(g, p)' /\ FirstWord(g)'
<1>1. g \in Gestures /\ g \in Gestures' /\ gestures'[g].on = p /\ gestures'[g].sort # "stranger"
  BY SizesFit DEF ActedOn, GesturesKept, Gestures
<1>2. ASSUME NEW h \in 1 .. g - 1, gestures'[h].on = p, gestures'[h].sort # "stranger"
      PROVE  gestures'[h].spent = 1
  <2>1. h \in Gestures
    BY <1>1, SizesFit
  <2> QED BY <1>2, <2>1 DEF ActedOn, GesturesKept
<1> QED BY <1>1, <1>2 DEF ActedOn, FirstWord

LEMMA TickStepInv == ClerkTypeOK /\ TickInv /\ GesturesKept /\ PostsKept /\ [ClerkNext]_clerkVars => TickInv'
<1> SUFFICES ASSUME ClerkTypeOK, TickInv, GesturesKept, PostsKept, [ClerkNext]_clerkVars PROVE TickInv'
  OBVIOUS
<1> USE DEF world, approvals, relay, process
<1>0. Posts \subseteq Posts' /\ tick \in Ticks
  BY Grown, TickFields
<1>1. CASE tick'.at \notin Deciding
  BY <1>1 DEF TickInv
<1>2. ASSUME tick'.post = tick.post, tick'.act = tick.act, tick.at \in Deciding,
             gestures'[tick.act].spent = gestures[tick.act].spent
      PROVE  TickInv'
  <2>1. PICK g, p : g = tick.act /\ p = tick.post
    OBVIOUS
  <2>2. p \in Posts /\ ActedOn(g, p) /\ gestures[g].spent = 0
    BY <1>2, <2>1 DEF TickInv
  <2>3. ActedOn(g, p)'
    BY <2>2, ActedKept
  <2> QED BY <1>0, <1>2, <2>1, <2>2, <2>3 DEF TickInv, ActedOn
<1>3. CASE UNCHANGED <<tick, gestures>>
  BY <1>1, <1>2, <1>3
<1>4. CASE \/ UNCHANGED clerkVars \/ Start \/ RefreshSession \/ JournalStep \/ SweepStep \/ WorkerStep
           \/ DeviceRevoked \/ Provision
           \/ \E s \in Suggestions : Propose(s) \/ ScreenApproves(s) \/ LateReply(s) \/ Report(s) \/ Age(s)
  BY <1>3, <1>4 DEF clerkVars, Start, RefreshSession, JournalStep, JournalLine, SweepStep, SweepReads,
       SweepDeletes, WorkerStep, Deliver, Look, ReadBeforePost, PostSuggestion, Report,
       DeviceRevoked, Provision, Propose, ScreenApproves, LateReply, Age
<1>5. CASE Killed \/ TickReads
  <2>1. ASSUME Killed PROVE tick'.at = "idle"
    BY <2>1 DEF Killed, Quiet
  <2>2. ASSUME TickReads PROVE tick'.at = "acting"
    <3>1. PICK old : tick' = [Quiet EXCEPT !.at = "acting", !.todo = Live, !.late = old, !.seen = Len(gestures)]
      BY <2>2 DEF TickReads
    <3> QED BY <3>1 DEF Quiet
  <2>3. tick'.at \notin Deciding
    BY <1>5, <2>1, <2>2 DEF Deciding
  <2> QED BY <1>1, <2>3
<1>6. ASSUME \E p : PostDone(p)
      PROVE  TickInv'
  BY <1>1, <1>6, PostDoneTick DEF Deciding
<1>7. ASSUME NEW p \in Posts, NEW sort \in {"approve", "refuse", "stranger"}, Gesture(p, sort)
      PROVE  TickInv'
  <2>1. UNCHANGED tick
    BY <1>7 DEF Gesture
  <2>2. CASE tick.at \in Deciding
    <3>1. tick.act \in 1 .. Len(gestures)
      BY <2>2, SizesFit DEF TickInv, ActedOn
    <3>2. PICK made : gestures' = Append(gestures, made)
      BY <1>7 DEF Gesture
    <3>3. gestures'[tick.act] = gestures[tick.act]
      BY <3>1, <3>2, SizesFit
    <3> QED BY <1>2, <2>1, <2>2, <3>3
  <2> QED BY <1>1, <2>1, <2>2
<1>8. ASSUME NEW p \in Posts, TakePost(p)
      PROVE  TickInv'
  <2>1. tick.at \notin Deciding
    BY <1>8 DEF TakePost, Deciding
  <2>2. CASE UNCHANGED tick
    BY <1>1, <2>1, <2>2
  <2>3. ASSUME NEW act \in Oldest(p), act # 0, Spend(Strangers(p)), NEW to \in {"asking", "refusing"},
               tick' = [tick EXCEPT !.post = p, !.act = act, !.at = to]
        PROVE  TickInv'
    <3>1. ActedOn(act, p) /\ gestures[act].spent = 0
      BY <2>3, OldestActs
    <3>2. ActedOn(act, p)'
      BY <3>1, ActedKept
    <3>3. act \notin Strangers(p) /\ act \in Gestures
      BY <3>1, StrangersUnspent DEF ActedOn
    <3>4. RelayOK /\ \A g \in Strangers(p) : g \in Gestures /\ gestures[g].spent = 0
      BY StrangersUnspent DEF ClerkTypeOK
    <3>5. gestures'[act].spent = 0
      BY <2>3, <3>1, <3>3, <3>4, SpendRows
    <3>6. tick'.post = p /\ tick'.act = act
      BY <1>0, <2>3 DEF Ticks
    <3> QED BY <1>0, <3>2, <3>5, <3>6 DEF TickInv, ActedOn
  <2> QED BY <1>6, <1>8, <2>2, <2>3, TakePostParts
<1>9. CASE GatewayDecides
  <2>1. PICK what : tick' = [tick EXCEPT !.at = "answered", !.answer = what]
    BY <1>9 DEF GatewayDecides
  <2>2. tick.at \in Deciding /\ UNCHANGED gestures
    BY <1>9 DEF GatewayDecides, Deciding
  <2>3. tick'.post = tick.post /\ tick'.act = tick.act
    BY <1>0, <2>1 DEF Ticks
  <2> QED BY <1>2, <2>2, <2>3
<1>10. CASE Carry
  <2>1. \/ tick' = [tick EXCEPT !.at = "deleting"] /\ UNCHANGED gestures
        \/ PostDone(tick.post)
    BY <1>10 DEF Carry
  <2>2. tick.at \in Deciding
    BY <1>10 DEF Carry, Deciding
  <2> QED BY <1>0, <1>2, <1>6, <2>1, <2>2 DEF Ticks
<1>11. CASE DeleteDecided
  BY <1>6, <1>11 DEF DeleteDecided
<1> QED BY <1>4, <1>5, <1>7, <1>8, <1>9, <1>10, <1>11 DEF ClerkNext, TickStep, World

\* What was done was done on the owner's first word.
WordInv ==
  /\ \A s \in Suggestions : \A h \in handed[s] : ~h.answered /\ (h.by \in Gestures => FirstWord(h.by))
  /\ \A line \in lines : line.kind = "refused" => FirstWord(line.by)

\* A reply is handed to the bus on the gesture in hand, or from the screen.
LEMMA HandedFrom ==
  ASSUME ClerkTypeOK, TickInv, [ClerkNext]_clerkVars, NEW s \in Suggestions, NEW h \in handed'[s] \ handed[s]
  PROVE  /\ ~h.answered
         /\ h.by = Screen \/ (h.by = tick.act /\ ActedOn(tick.act, tick.post))
<1> USE DEF world, approvals, relay, process
<1>1. handed \in [Suggestions -> SUBSET [by : Gestures \cup {Screen}, answered : BOOLEAN]]
  BY DEF ClerkTypeOK, WorldOK
<1>0. ASSUME NEW q, NEW by, \E to, arrived : Approves(q, by, to, arrived)
      PROVE  h = [by |-> by, answered |-> by \in Gestures /\ gestures[by].spent > 0]
  BY <1>0, <1>1 DEF Approves
<1>2. CASE GatewayDecides
  <2>1. \E to, arrived : Approves(posts[tick.post].of, tick.act, to, arrived)
    BY <1>2 DEF GatewayDecides
  <2>2. tick.at \in Deciding
    BY <1>2 DEF GatewayDecides, Deciding
  <2>3. ActedOn(tick.act, tick.post) /\ gestures[tick.act].spent = 0
    BY <2>2 DEF TickInv
  <2>4. ~(tick.act \in Gestures /\ gestures[tick.act].spent > 0)
    BY <2>3
  <2>5. h = [by |-> tick.act, answered |-> FALSE]
    BY <1>0, <2>1, <2>4
  <2> QED BY <2>3, <2>5
<1>3. ASSUME NEW q \in Suggestions, ScreenApproves(q)
      PROVE  h = [by |-> Screen, answered |-> FALSE]
  <2>1. \E to, arrived : Approves(q, Screen, to, arrived)
    BY <1>3 DEF ScreenApproves
  <2>2. Screen \notin Gestures
    BY SizesFit
  <2> QED BY <1>0, <2>1, <2>2
<1>4. CASE \/ UNCHANGED clerkVars \/ Start \/ Killed \/ RefreshSession \/ JournalStep \/ SweepStep \/ WorkerStep
           \/ TickReads \/ (\E p \in Posts : TakePost(p)) \/ Carry \/ DeleteDecided
           \/ DeviceRevoked \/ Provision
           \/ (\E q \in Suggestions : Propose(q) \/ LateReply(q) \/ Report(q) \/ Age(q))
           \/ \E p \in Posts, sort \in {"approve", "refuse", "stranger"} : Gesture(p, sort)
  <2>1. UNCHANGED handed
    BY <1>4 DEF clerkVars, Start, Killed, RefreshSession, JournalStep, JournalLine, SweepStep, SweepReads,
       SweepDeletes, WorkerStep, Deliver, Look, ReadBeforePost, PostSuggestion, TickReads, TakePost, Carry,
       DeleteDecided, DeviceRevoked, Provision, Propose, LateReply, Report, Age, Gesture
  <2> QED BY <2>1
<1> QED BY <1>2, <1>3, <1>4 DEF ClerkNext, TickStep, World

\* A refusal is the one the loop carries.
LEMMA RefusedFrom ==
  ASSUME ClerkTypeOK, TickInv, [ClerkNext]_clerkVars, NEW line \in lines' \ lines, line.kind = "refused"
  PROVE  line.by = tick.act /\ ActedOn(tick.act, tick.post)
<1> USE DEF world, approvals, relay, process
<1>1. CASE DeleteDecided
  <2>1. line \in Told
    BY <1>1 DEF DeleteDecided
  <2>2. tick.at \in Deciding
    BY <1>1 DEF DeleteDecided, Deciding
  <2> QED BY <2>1, <2>2 DEF Told, Line, TickInv
<1>2. CASE PostSuggestion \/ \E p \in Posts : SweepDeletes(p)
  BY <1>2 DEF PostSuggestion, SweepDeletes, Line
<1>3. CASE \/ UNCHANGED clerkVars \/ Start \/ Killed \/ RefreshSession \/ JournalStep \/ World
           \/ (\E s \in Suggestions : Deliver(s)) \/ Look \/ ReadBeforePost \/ SweepReads
           \/ TickReads \/ (\E p \in Posts : TakePost(p)) \/ GatewayDecides \/ Carry
  <2>1. UNCHANGED lines
    BY <1>3 DEF clerkVars, Start, Killed, RefreshSession, JournalStep, JournalLine, World,
       DeviceRevoked, Provision, Propose, ScreenApproves, LateReply, Report, Age, Gesture, Deliver, Look,
       ReadBeforePost, SweepReads, TickReads, TakePost, GatewayDecides, Carry
  <2> QED BY <2>1
<1> QED BY <1>1, <1>2, <1>3 DEF ClerkNext, TickStep, WorkerStep, SweepStep

LEMMA WordStep ==
  ClerkTypeOK /\ TickInv /\ WordInv /\ GesturesKept /\ [ClerkNext]_clerkVars => WordInv'
<1> SUFFICES ASSUME ClerkTypeOK, TickInv, WordInv, GesturesKept, [ClerkNext]_clerkVars PROVE WordInv'
  OBVIOUS
<1>1. ASSUME NEW s \in Suggestions, NEW h \in handed'[s], h.by \in Gestures'
      PROVE  FirstWord(h.by)'
  <2>1. h.by # Screen
    BY <1>1, SizesFit DEF GesturesKept, Gestures, Screen
  <2>2. CASE h \in handed[s]
    <3>1. h.by \in Gestures
      BY <2>1, <2>2 DEF ClerkTypeOK, WorldOK
    <3>2. ActedOn(h.by, gestures[h.by].on)
      BY <2>2, <3>1 DEF WordInv, FirstWord
    <3> QED BY <3>2, ActedKept
  <2>3. CASE h \notin handed[s]
    <3>1. \E p : ActedOn(h.by, p)
      BY <1>1, <2>1, <2>3, HandedFrom
    <3> QED BY <3>1, ActedKept
  <2> QED BY <2>2, <2>3
<1>3. ASSUME NEW s \in Suggestions, NEW h \in handed'[s] PROVE ~h.answered
  BY <1>3, HandedFrom DEF WordInv
<1>2. ASSUME NEW line \in lines', line.kind = "refused" PROVE FirstWord(line.by)'
  <2>1. \E p : ActedOn(line.by, p)
    BY <1>2, RefusedFrom DEF WordInv, FirstWord
  <2> QED BY <2>1, ActedKept
<1> QED BY <1>1, <1>2, <1>3 DEF WordInv, FirstWord, ActedOn

LEMMA FirstWordWins == ClerkTypeOK /\ WordInv => OldestWins
<1> SUFFICES ASSUME ClerkTypeOK, WordInv, NEW g \in Acted PROVE FirstWord(g)
  BY DEF OldestWins, FirstWord, ActedOn
<1>1. CASE g \in Gestures /\ g \in HandedBy(posts[gestures[g].on].of)
  <2>1. gestures[g].on \in Posts
    BY <1>1 DEF ClerkTypeOK, RelayOK
  <2>2. posts[gestures[g].on] \in Rows
    BY <2>1, SizesFit
  <2>3. posts[gestures[g].on].of \in Suggestions
    BY <2>2 DEF Rows
  <2> QED BY <1>1, <2>3 DEF WordInv, HandedBy
<1>2. CASE \E line \in lines : line.kind = "refused" /\ g = line.by
  BY <1>2 DEF WordInv
<1> QED BY <1>1, <1>2 DEF Acted

-----------------------------------------------------------------------------
(* Nothing twice, and nothing unseen.                                        *)

\* No post of the suggestion in hand is up from the moment that was looked at
\* to the moment it is posted; and one post a suggestion.
OnePost ==
  /\ worker.at \in {"read", "post"} => ~AlreadyPosted(worker.of)
  /\ \A p, q \in Live : posts[p].of = posts[q].of => p = q

LEMMA LiveStep ==
  ASSUME ClerkTypeOK, PostsKept, Len(posts') = Len(posts)
  PROVE  /\ Live' \subseteq Live /\ \A p \in Live' : posts'[p].of = posts[p].of
         /\ \A s : AlreadyPosted(s)' => AlreadyPosted(s)
<1>1. Live' \subseteq Live /\ \A p \in Live' : posts'[p].of = posts[p].of
  BY SizesFit DEF PostsKept, Live, Posts
<1> QED BY <1>1 DEF AlreadyPosted

LEMMA OnePostStep ==
  ClerkTypeOK /\ OnePost /\ [ClerkNext]_clerkVars => OnePost'
<1> SUFFICES ASSUME ClerkTypeOK, OnePost, [ClerkNext]_clerkVars PROVE OnePost'
  OBVIOUS
<1> USE DEF world, approvals, relay, process
<1>0. PostsKept
  BY PostsStep
<1>1. CASE Len(posts') = Len(posts)
  <2>1. \A p, q \in Live' : posts'[p].of = posts'[q].of => p = q
    BY <1>0, <1>1, LiveStep DEF OnePost
  <2>2. ASSUME worker'.at \in {"read", "post"} PROVE ~AlreadyPosted(worker'.of)
    <3>1. CASE UNCHANGED worker
      BY <2>2, <3>1 DEF OnePost
    <3>2. CASE Look \/ ReadBeforePost
      <4>1. worker' # Resting
        BY <2>2 DEF Resting
      <4>2. worker.at \in {"look", "read"} /\ \E to \in {"read", "post"} : worker' = [worker EXCEPT !.at = to]
        BY <3>2, <4>1 DEF Look, ReadBeforePost, Acked, Naked
      <4>3. worker \in [at : {"look", "read", "post"}, of : Suggestions]
        BY <4>2, WorkerFields DEF Resting
      <4>4. worker'.of = worker.of
        BY <4>2, <4>3
      <4>5. CASE Look
        BY <4>1, <4>4, <4>5 DEF Look, Acked, Naked
      <4>6. CASE ReadBeforePost
        BY <4>4, <4>6 DEF ReadBeforePost, OnePost
      <4> QED BY <3>2, <4>5, <4>6
    <3>3. CASE PostSuggestion \/ Killed \/ \E s \in Suggestions : Deliver(s)
      BY <2>2, <3>3 DEF PostSuggestion, Killed, Acked, Naked, Deliver, Resting
    <3>4. CASE \/ UNCHANGED clerkVars \/ Start \/ RefreshSession \/ JournalStep \/ SweepStep \/ TickStep \/ World
      BY <3>1, <3>4 DEF clerkVars, Start, RefreshSession, JournalStep, JournalLine, SweepStep, SweepReads,
         SweepDeletes, TickStep, TickReads, TakePost, GatewayDecides, Carry, DeleteDecided,
         World, Gesture, Report, DeviceRevoked, Provision, Propose, ScreenApproves, LateReply, Age
    <3> QED BY <3>2, <3>3, <3>4 DEF ClerkNext, WorkerStep
  <2>3. \A s : AlreadyPosted(s)' => AlreadyPosted(s)
    BY <1>0, <1>1, LiveStep
  <2> QED BY <2>1, <2>2, <2>3 DEF OnePost, AlreadyPosted
<1>2. CASE PostSuggestion /\ Posted(worker.of) /\ worker.of \in Suggestions
  <2>1. worker.at = "post" /\ worker' = Resting
    BY <1>2 DEF PostSuggestion, Acked, Naked
  <2>2. ~AlreadyPosted(worker.of)
    BY <2>1 DEF OnePost
  <2>3. /\ Len(posts') = Len(posts) + 1
        /\ posts'[Len(posts) + 1] = [of |-> worker.of, live |-> TRUE]
        /\ \A q \in 1 .. Len(posts) : posts'[q] = posts[q]
    BY <1>2, SizesFit, PostedRow
  <2>4. \A p \in Live' : p = Len(posts) + 1 \/ (p \in Live /\ posts'[p] = posts[p])
    BY <2>3, SizesFit DEF Live, Posts
  <2>5. \A p \in Live : posts[p].of # worker.of
    BY <2>2 DEF AlreadyPosted
  <2>6. posts'[Len(posts) + 1].of = worker.of
    BY <2>3
  <2>7. \A p, q \in Live' : posts'[p].of = posts'[q].of => p = q
    BY <2>4, <2>5, <2>6 DEF OnePost
  <2> QED BY <2>1, <2>7 DEF OnePost, Resting
<1> QED BY <1>1, <1>2, PostsStep

\* A suggestion the clerk is done with was shown, or could not be.
LEMMA SettledStep ==
  ClerkTypeOK /\ SettledWasShown /\ [ClerkNext]_clerkVars => SettledWasShown'
<1> SUFFICES ASSUME ClerkTypeOK, SettledWasShown, [ClerkNext]_clerkVars,
                    NEW s \in Suggestions, bus'[s] = "settled"
             PROVE  \/ \E p \in Posts' : posts'[p].of = s
                    \/ clock'[s] = "over" \/ rows'[s] # "none" \/ s \in unseen'
  BY DEF SettledWasShown
<1> USE DEF world, approvals, relay, process
<1>0. /\ PostsKept /\ Posts \subseteq Posts'
      /\ bus \in [Suggestions -> {"none", "waiting", "taken", "settled", "givenUp"}]
      /\ clock \in [Suggestions -> {"far", "near", "over"}]
      /\ rows \in [Suggestions -> {"none", "unmarked", "marked"}]
  <2>1. PostsKept
    BY PostsStep
  <2>2. Len(posts') \in Nat
    BY <2>1 DEF PostsKept
  <2>3. Posts \subseteq Posts'
    BY <2>1, <2>2, SizesFit DEF PostsKept, Posts
  <2> QED BY <2>1, <2>3 DEF ClerkTypeOK, WorldOK
<1> DEFINE Shown == (\E p \in Posts : posts[p].of = s) \/ clock[s] = "over" \/ rows[s] # "none" \/ s \in unseen
<1>1. ASSUME Shown
      PROVE  \/ \E p \in Posts' : posts'[p].of = s
             \/ clock'[s] = "over" \/ rows'[s] # "none" \/ s \in unseen'
  <2>1. CASE \E p \in Posts : posts[p].of = s
    BY <1>0, <2>1 DEF PostsKept
  <2>2. clock[s] = "over" => clock'[s] = "over"
    <3>1. ASSUME NEW q \in Suggestions, Age(q) PROVE clock[s] = "over" => clock'[s] = "over"
      BY <1>0, <3>1 DEF Age
    <3>2. CASE UNCHANGED clock
      BY <3>2
    <3>3. CASE \/ UNCHANGED clerkVars \/ Start \/ Killed \/ RefreshSession \/ WorkerStep \/ JournalStep \/ SweepStep
               \/ TickStep \/ DeviceRevoked \/ Provision
               \/ (\E q \in Suggestions : Propose(q) \/ Report(q) \/ ScreenApproves(q) \/ LateReply(q))
               \/ \E p \in Posts, sort \in {"approve", "refuse", "stranger"} : Gesture(p, sort)
      BY <3>2, <3>3 DEF clerkVars, Start, Killed, RefreshSession, WorkerStep, Deliver, Look, ReadBeforePost,
         PostSuggestion, JournalStep, JournalLine, SweepStep, SweepReads, SweepDeletes, TickStep, TickReads,
         TakePost, GatewayDecides, Carry, DeleteDecided, DeviceRevoked, Provision, Propose, Report,
         ScreenApproves, LateReply, Gesture
    <3> QED BY <3>1, <3>3 DEF ClerkNext, World
  <2>3. rows[s] # "none" => rows'[s] # "none"
    <3>1. CASE GatewayDecides
      <4>1. \/ UNCHANGED rows
            \/ \E to \in {"unmarked", "marked"} : rows' = [rows EXCEPT ![posts[tick.post].of] = to]
        BY <3>1 DEF GatewayDecides, Approves
      <4> QED BY <1>0, <4>1
    <3>2. ASSUME NEW q \in Suggestions, ScreenApproves(q) PROVE rows[s] # "none" => rows'[s] # "none"
      BY <1>0, <3>2 DEF ScreenApproves, Approves
    <3>3. CASE UNCHANGED rows
      BY <3>3
    <3>4. CASE \/ UNCHANGED clerkVars \/ Start \/ Killed \/ RefreshSession \/ WorkerStep \/ JournalStep \/ SweepStep
               \/ TickReads \/ (\E p \in Posts : TakePost(p)) \/ Carry \/ DeleteDecided
               \/ DeviceRevoked \/ Provision
               \/ (\E q \in Suggestions : Propose(q) \/ LateReply(q) \/ Report(q) \/ Age(q))
               \/ \E p \in Posts, sort \in {"approve", "refuse", "stranger"} : Gesture(p, sort)
      BY <3>3, <3>4 DEF clerkVars, Start, Killed, RefreshSession, WorkerStep, Deliver, Look, ReadBeforePost,
         PostSuggestion, JournalStep, JournalLine, SweepStep, SweepReads, SweepDeletes, TickReads,
         TakePost, Carry, DeleteDecided, DeviceRevoked, Provision, Propose, LateReply, Report, Age, Gesture
    <3> QED BY <3>1, <3>2, <3>4 DEF ClerkNext, World, TickStep
  <2>4. unseen \subseteq unseen'
    BY DEF ClerkNext, World, clerkVars, Start, Killed, RefreshSession, WorkerStep, Deliver, Look, ReadBeforePost,
         PostSuggestion, JournalStep, JournalLine, SweepStep, SweepReads, SweepDeletes, TickStep, TickReads,
         TakePost, GatewayDecides, Carry, DeleteDecided, DeviceRevoked, Provision, Propose, Report, Age, Gesture,
         ScreenApproves, LateReply
  <2> QED BY <1>1, <2>1, <2>2, <2>3, <2>4
<1>2. CASE bus[s] = "settled"
  BY <1>1, <1>2 DEF SettledWasShown
<1>3. CASE bus[s] # "settled" /\ (Look \/ ReadBeforePost \/ PostSuggestion)
  <2>1. UNCHANGED <<clock, rows>>
    BY <1>3 DEF Look, ReadBeforePost, PostSuggestion
  <2>2. \/ UNCHANGED bus \/ \E to : bus' = [bus EXCEPT ![worker.of] = to]
    BY <1>3 DEF Look, ReadBeforePost, PostSuggestion, Acked, Naked
  <2>3. s = worker.of
    BY <1>0, <1>3, <2>2
  <2>4. Naked(s) => bus'[s] # "settled"
    BY <1>0 DEF Naked
  <2>5. CASE Look
    <3>1. \/ Expired(s) \/ AlreadyPosted(s) \/ UNCHANGED bus \/ Naked(s) \/ s \in unseen'
      BY <2>3, <2>5 DEF Look
    <3>2. Expired(s) \/ AlreadyPosted(s) => Shown
      BY DEF Expired, AlreadyPosted, Live
    <3> QED BY <1>1, <1>3, <2>4, <3>1, <3>2
  <2>6. CASE ReadBeforePost
    <3>1. rows[s] # "none" \/ UNCHANGED bus
      BY <2>3, <2>6 DEF ReadBeforePost
    <3> QED BY <1>1, <1>3, <3>1
  <2>7. CASE PostSuggestion
    <3>1. Posted(s) \/ Naked(s) \/ s \in unseen'
      BY <2>3, <2>7 DEF PostSuggestion, Posted
    <3>2. ASSUME Posted(s) PROVE \E p \in Posts' : posts'[p].of = s
      <4>1. posts'[Len(posts) + 1] = [of |-> s, live |-> TRUE] /\ Len(posts') = Len(posts) + 1
        BY <3>2, SizesFit, PostedRow
      <4>2. Len(posts) + 1 \in Posts'
        BY <4>1, SizesFit DEF Posts
      <4> QED BY <4>1, <4>2
    <3> QED BY <2>4, <3>1, <3>2
  <2> QED BY <1>3, <2>5, <2>6, <2>7
<1>4. CASE bus[s] # "settled" /\ (Killed \/ \E q \in Suggestions : Deliver(q) \/ Propose(q))
  BY <1>0, <1>4 DEF Killed, Deliver, Propose
<1>5. CASE bus[s] # "settled" /\ (\/ UNCHANGED clerkVars \/ Start \/ RefreshSession \/ JournalStep \/ SweepStep
                                  \/ TickStep \/ DeviceRevoked \/ Provision
                                  \/ (\E q \in Suggestions : Report(q) \/ ScreenApproves(q) \/ LateReply(q) \/ Age(q))
                                  \/ \E p \in Posts, sort \in {"approve", "refuse", "stranger"} : Gesture(p, sort))
  <2>1. UNCHANGED bus
    BY <1>5 DEF clerkVars, Start, RefreshSession, JournalStep, JournalLine, SweepStep, SweepReads, SweepDeletes,
       TickStep, TickReads, TakePost, GatewayDecides, Carry, DeleteDecided, DeviceRevoked, Provision, Report,
       ScreenApproves, LateReply, Age, Gesture
  <2> QED BY <1>5, <2>1
<1> QED BY <1>2, <1>3, <1>4, <1>5 DEF ClerkNext, World, WorkerStep
-----------------------------------------------------------------------------
(* The theorems.                                                             *)

ClerkInv == ClerkTypeOK /\ TickInv /\ WordInv /\ OnePost /\ SettledWasShown

LEMMA ClerkStarts == ClerkInit => ClerkInv
<1> SUFFICES ASSUME ClerkInit PROVE ClerkInv
  OBVIOUS
<1>1. posts = <<>> /\ gestures = <<>> /\ Len(posts) = 0 /\ Len(gestures) = 0
  BY DEF ClerkInit
<1>2. posts \in Seq(Rows) /\ gestures \in Seq(GestureRows) /\ Posts = {} /\ Gestures = {}
  BY <1>1 DEF Posts, Gestures
<1>3. MaxGestures \in Nat /\ MaxMishaps \in Nat /\ MaxDeliver \in Nat
  BY ClerkAssumption
<1>4. WorldOK
  BY <1>1, <1>3 DEF ClerkInit, WorldOK
<1>5. RelayOK
  BY <1>1, <1>2, <1>3 DEF ClerkInit, RelayOK, Rows
<1>6. ProcessOK
  <2>1. tick = Quiet /\ worker = Resting /\ sweeper = {} /\ up = FALSE /\ session = "alive"
    BY DEF ClerkInit
  <2>2. 0 \in 0 .. Len(gestures)
    BY <1>1
  <2>3. Quiet \in [at : {"idle", "acting", "asking", "answered", "deleting", "refusing"},
                  todo : SUBSET Posts, late : SUBSET Posts, seen : 0 .. Len(gestures),
                  post : {0} \cup Posts, act : {0} \cup Gestures,
                  answer : {"", "approved", "already", "refused", "silence", "401"}]
    BY <2>2 DEF Quiet
  <2> QED BY <2>1, <2>3 DEF ProcessOK
<1>7. ClerkTypeOK
  BY <1>3, <1>4, <1>5, <1>6 DEF ClerkInit, ClerkTypeOK
<1>8. TickInv /\ WordInv
  BY <1>2 DEF ClerkInit, TickInv, WordInv, Quiet, Deciding
<1>9. OnePost /\ SettledWasShown
  BY <1>2 DEF ClerkInit, OnePost, SettledWasShown, Resting, Live
<1> QED BY <1>7, <1>8, <1>9 DEF ClerkInv

LEMMA ClerkSteps == ClerkInv /\ [ClerkNext]_clerkVars => ClerkInv' /\ GesturesKept
<1> SUFFICES ASSUME ClerkInv, [ClerkNext]_clerkVars PROVE ClerkInv' /\ GesturesKept
  OBVIOUS
<1>1. ClerkTypeOK /\ TickInv /\ WordInv /\ OnePost /\ SettledWasShown
  BY DEF ClerkInv
<1>2. GesturesKept /\ PostsKept
  BY <1>1, RowsStep, PostsStep
<1>3. ClerkTypeOK'
  BY <1>1, <1>2, WorldStep, RelayStep, ProcessStep, HistoryTyped DEF ClerkTypeOK
<1> QED BY <1>1, <1>2, <1>3, TickStepInv, WordStep, OnePostStep, SettledStep DEF ClerkInv

LEMMA ClerkAlways == ClerkSpec => []ClerkInv
BY ClerkStarts, ClerkSteps, PTL DEF ClerkSpec

\* Every reachable state of the clerk is well typed; no gesture is answered
\* twice in its thread, and no report has two lines.
THEOREM ClerkTypeCorrect == ClerkSpec => []ClerkTypeOK
<1>1. ClerkInv => ClerkTypeOK
  BY DEF ClerkInv
<1> QED BY <1>1, ClerkAlways, PTL

\* NothingTwice: however often the bus redelivers, whatever answer is lost and
\* wherever the clerk dies, a suggestion has one post up and a report one line
\* (handle_suggestion, journal_line).
THEOREM OnePlaceToAnswer == ClerkSpec => []NothingTwice
<1>1. ClerkInv => NothingTwice
  <2> SUFFICES ASSUME ClerkInv PROVE NothingTwice
    OBVIOUS
  <2>1. \A s \in Suggestions : reports[s].lines \in 0 .. 1
    BY DEF ClerkInv, ClerkTypeOK, RelayOK
  <2> QED BY <2>1 DEF ClerkInv, OnePost, NothingTwice
<1> QED BY <1>1, ClerkAlways, PTL

\* SettledWasShown: nothing is settled in silence; the Gateway's is no reason
\* not to post (read_before_post).
THEOREM NothingGoesUnseen == ClerkSpec => []SettledWasShown
<1>1. ClerkInv => SettledWasShown
  BY DEF ClerkInv
<1> QED BY <1>1, ClerkAlways, PTL

\* OldestWins: what is done is the owner's first word on the post (triage),
\* however the ticks, the failures and later gestures interleave.
THEOREM FirstWordIsDone == ClerkSpec => []OldestWins
<1>1. ClerkInv => OldestWins
  BY FirstWordWins DEF ClerkInv
<1> QED BY <1>1, ClerkAlways, PTL

\* AnsweredIsFinal: what is done is the owner's first word, and no reply is
\* handed to the bus on a gesture the owner was told had come to nothing
\* (answered_gestures); one handed over before may still arrive after.
THEOREM AnsweredGesturesAreOver == ClerkSpec => []AnsweredIsFinal
<1>1. ClerkInv => AnsweredIsFinal
  BY FirstWordWins DEF ClerkInv, WordInv, AnsweredIsFinal
<1> QED BY <1>1, ClerkAlways, PTL
=============================================================================
