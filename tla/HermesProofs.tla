----------------------------- MODULE HermesProofs -----------------------------
(* Proofs about Hermes for every value of its constants.                     *)
EXTENDS Hermes, TLAPS, SequenceTheorems, WellFoundedInduction

-----------------------------------------------------------------------------
(* The last of a set of indices.                                             *)

\* The greatest of a bounded set of indices, once there is one, is its Last.
LEMMA LastIs ==
  ASSUME NEW S \in SUBSET Nat, NEW m \in S, \A j \in S : j <= m
  PROVE  Last(S) = m
<1>1. S # {}
  OBVIOUS
<1>2. \A i \in S : (\A j \in S : j <= i) => i = m
  OBVIOUS
<1> QED BY <1>1, <1>2 DEF Last

\* A non-empty bounded set of indices has a greatest element, Last: what a
\* network's entry of the snapshot and the owner's last word both are.
LEMMA LastOf ==
  ASSUME NEW S \in SUBSET Nat, S # {}, NEW n \in Nat, \A y \in S : y <= n
  PROVE  Last(S) \in S /\ \A y \in S : y <= Last(S)
<1> DEFINE R == {ss \in Nat \X Nat : ss[1] < ss[2]}
           T == {n - y : y \in S}
<1>1. IsWellFoundedOn(R, Nat)
  <2>1. OpToRel(<, Nat) = R
    BY DEF OpToRel
  <2> QED BY <2>1, NatLessThanWellFounded, Zenon
<1>2. T \subseteq Nat /\ T # {}
  <2>1. \A y \in S : n - y \in Nat
    OBVIOUS
  <2> QED BY <2>1
<1>3. \E x \in T : \A y \in T : ~ (<<y, x>> \in R)
  <2> HIDE DEF R, T
  <2> QED BY <1>1, <1>2, WFMin
<1>4. PICK x \in S : \A y \in S : ~ (<<n - y, n - x>> \in R)
  BY <1>3
<1>5. \A y \in S : y <= x
  <2> TAKE y \in S
  <2>1. n - x \in Nat /\ n - y \in Nat /\ ~ (<<n - y, n - x>> \in R)
    BY <1>4
  <2>2. ~ (n - y < n - x)
    BY <2>1
  <2> QED BY <2>1, <2>2
<1> QED BY <1>5, LastIs

-----------------------------------------------------------------------------
(* Type correctness.                                                         *)

LEMMA TypeInit == Init => TypeOK
<1> SUFFICES ASSUME Init PROVE TypeOK
  OBVIOUS
<1>1. StreamOK
  BY HermesAssumption DEF Init, StreamOK
<1>2. ReadingOK
  BY DEF Init, ReadingOK, Undecided
<1>3. ProcessOK
  BY HermesAssumption DEF Init, ProcessOK
<1>4. FlagsOK
  BY DEF Init, FlagsOK
<1> QED BY <1>1, <1>2, <1>3, <1>4 DEF TypeOK

\* A place of the stream holds a decision.
LEMMA DecisionAt ==
  ASSUME StreamOK, NEW i \in 1 .. Len(decisions)
  PROVE  decisions[i] \in [on : Connections, state : {"granted", "revoked"}]
BY ElementOfSeq DEF StreamOK

\* An entry of the snapshot is the place of a positioned decision.
LEMMA EntryIsPositioned ==
  ASSUME StreamOK
  PROVE  Entries \subseteq 1 .. positioned
<1> SUFFICES ASSUME NEW c \in Connections,
                    Last({i \in 1 .. positioned : decisions[i].on = c}) # 0
             PROVE  Last({i \in 1 .. positioned : decisions[i].on = c}) \in 1 .. positioned
  BY DEF Entries
<1> DEFINE S == {i \in 1 .. positioned : decisions[i].on = c}
<1>1. S # {}
  BY DEF Last
<1>2. positioned \in Nat /\ S \in SUBSET Nat /\ \A y \in S : y <= positioned
  BY DEF StreamOK
<1>3. Last(S) \in S
  <2> HIDE DEF S
  <2> QED BY <1>1, <1>2, LastOf
<1> QED BY <1>3

\* What a snapshot says of a network is a state, or nothing.
LEMMA SnapshotType ==
  ASSUME StreamOK
  PROVE  ReadSnapshot \in [Networks -> {"none", "granted", "revoked"}]
<1> SUFFICES ASSUME NEW n \in Networks,
                    Last({j \in Entries : NetworkOf[decisions[j].on] = n}) # 0
             PROVE  decisions[Last({j \in Entries : NetworkOf[decisions[j].on] = n})].state
                      \in {"granted", "revoked"}
  BY DEF ReadSnapshot
<1> DEFINE E == {j \in Entries : NetworkOf[decisions[j].on] = n}
<1>1. E # {}
  BY DEF Last
<1>2. Entries \subseteq 1 .. positioned /\ positioned \in Nat /\ positioned <= Len(decisions)
  BY EntryIsPositioned DEF StreamOK
<1>3. E \in SUBSET Nat /\ \A y \in E : y <= positioned
  BY <1>2
<1>4. Last(E) \in E
  <2> HIDE DEF E
  <2> QED BY <1>1, <1>2, <1>3, LastOf
<1>5. Last(E) \in 1 .. Len(decisions)
  <2>1. Last(E) \in Entries
    BY <1>4, Zenon
  <2>2. Len(decisions) \in Nat
    BY LenProperties DEF StreamOK
  <2>3. Last(E) \in 1 .. positioned
    BY <1>2, <2>1, Zenon
  <2> HIDE DEF E
  <2> QED BY <1>2, <2>2, <2>3
<1>6. decisions[Last(E)] \in [on : Connections, state : {"granted", "revoked"}]
  BY <1>5, DecisionAt
<1> QED BY <1>6

LEMMA StreamStep == TypeOK /\ [Next]_vars => StreamOK'
<1> SUFFICES ASSUME TypeOK, [Next]_vars PROVE StreamOK'
  OBVIOUS
<1> USE HermesAssumption DEF TypeOK, StreamOK, stream, Mishap, NoMishap
<1>1. CASE UNCHANGED vars \/ Replay \/ RetrySettings \/ Spawn \/ Exits
  BY <1>1 DEF vars, Replay, RetrySettings, Spawn, Exits
<1>2. CASE Boot \/ Ready \/ Follow \/ SubscriptionEnds \/ Crash
  <2>1. UNCHANGED <<decisions, oldest, positioned>>
    BY <1>2 DEF Boot, Ready, Follow, SubscriptionEnds, Crash
  <2>2. faults' = faults \/ (faults < MaxFaults /\ faults' = faults + 1)
    BY <1>2 DEF Boot, Ready, Follow, SubscriptionEnds, Crash
  <2>3. faults' \in 0 .. MaxFaults
    BY <2>2
  <2> QED BY <2>1, <2>3
<1>3. CASE Decide
  <2>1. UNCHANGED <<oldest, positioned, faults>> /\ Len(decisions) < MaxDecisions
    BY <1>3 DEF Decide
  <2>2. PICK c \in Connections, s \in {"granted", "revoked"} : decisions' = Append(decisions, [on |-> c, state |-> s])
    BY <1>3 DEF Decide
  <2>3. /\ decisions' \in Seq([on : Connections, state : {"granted", "revoked"}])
        /\ Len(decisions') = Len(decisions) + 1
    BY <2>2
  <2> QED BY <2>1, <2>3
<1>4. CASE Position
  BY <1>4 DEF Position
<1>5. CASE Forget
  BY <1>5 DEF Forget
<1>6. CASE NameModel
  BY <1>6 DEF NameModel
<1> QED BY <1>1, <1>2, <1>3, <1>4, <1>5, <1>6 DEF Next

LEMMA ReadingStep == TypeOK /\ [Next]_vars => ReadingOK'
<1> SUFFICES ASSUME TypeOK, [Next]_vars PROVE ReadingOK'
  OBVIOUS
<1> USE DEF TypeOK, ReadingOK, reading, consumer, stream
<1>1. CASE UNCHANGED vars \/ RetrySettings \/ Spawn \/ Exits
  BY <1>1 DEF vars, RetrySettings, Spawn, Exits
<1>2. CASE Boot
  BY <1>2, SnapshotType DEF Boot, FollowFrom, Undecided, StreamOK
<1>3. CASE Replay
  <2>1. CASE next > Len(decisions)
    BY <1>3, <2>1 DEF Replay, StreamOK
  <2>2. CASE next <= Len(decisions)
    <3>1. decisions[next] \in [on : Connections, state : {"granted", "revoked"}]
      BY <2>2, DecisionAt DEF StreamOK
    <3> QED BY <1>3, <2>2, <3>1 DEF Replay, StreamOK, Apply
  <2> QED BY <2>1, <2>2 DEF StreamOK
<1>4. CASE Ready
  BY <1>4 DEF Ready, Moved
<1>5. CASE Follow
  <2>1. decisions[next] \in [on : Connections, state : {"granted", "revoked"}]
    BY <1>5, DecisionAt DEF StreamOK, Follow
  <2>2. /\ states' \in [Networks -> {"none", "granted", "revoked"}]
        /\ next' = next + 1 /\ next <= Len(decisions)
        /\ UNCHANGED <<phase, since, decisions>>
    BY <1>5, <2>1 DEF Follow, Apply
  <2>3. filter' \in {"none", "active", "paused"}
    BY <1>5 DEF Follow, Moved
  <2> QED BY <2>2, <2>3 DEF StreamOK
<1>6. CASE SubscriptionEnds \/ Crash
  BY <1>6 DEF SubscriptionEnds, Crash
<1>7. CASE Decide
  BY <1>7 DEF Decide, StreamOK
<1>8. CASE Position \/ Forget \/ NameModel
  BY <1>8 DEF Position, Forget, NameModel
<1> QED BY <1>1, <1>2, <1>3, <1>4, <1>5, <1>6, <1>7, <1>8 DEF Next

-----------------------------------------------------------------------------
(* Episodes of short runs.                                                   *)

\* Restarts' flag says that the episode was announced, and the count when.
Episode == AnnouncedOnce /\ (announced <=> failures >= StartFailures)

\* A short run counts one failure more, up to the bound, and asks for its delay.
LEMMA ShortRunCounts ==
  ASSUME ProcessOK, Episode, ShortRun
  PROVE  /\ failures' \in 1 .. MaxFailures /\ announcements' \in 0 .. 1
         /\ delay' = DelayFor(failures')
         /\ Episode'
<1>1. /\ failures' = failures + 1 /\ failures' \in 1 .. MaxFailures /\ delay' = DelayFor(failures')
      /\ failures \in Nat /\ StartFailures \in Nat \ {0}
  BY HermesAssumption DEF ProcessOK, ShortRun
<1>2. CASE announced
  <2>1. announced' /\ announcements' = announcements + 0
    BY <1>2 DEF ShortRun
  <2>2. failures >= StartFailures
    BY <1>2 DEF Episode
  <2> QED BY <1>1, <2>1, <2>2 DEF Episode, AnnouncedOnce
<1>3. CASE ~announced /\ failures + 1 >= StartFailures
  <2>1. announced' /\ announcements' = announcements + 1
    BY <1>3 DEF ShortRun
  <2>2. failures < StartFailures
    BY <1>1, <1>3 DEF Episode
  <2> QED BY <1>1, <1>3, <2>1, <2>2 DEF Episode, AnnouncedOnce
<1>4. CASE ~announced /\ ~ (failures + 1 >= StartFailures)
  <2>1. ~announced' /\ announcements' = announcements + 0
    BY <1>4 DEF ShortRun
  <2>2. failures < StartFailures /\ failures' < StartFailures
    BY <1>1, <1>4
  <2> QED BY <1>1, <2>1, <2>2 DEF Episode, AnnouncedOnce
<1> QED BY <1>2, <1>3, <1>4

LEMMA ProcessStep == TypeOK /\ Episode /\ [Next]_vars => ProcessOK' /\ Episode'
<1> SUFFICES ASSUME TypeOK, Episode, [Next]_vars PROVE ProcessOK' /\ Episode'
  OBVIOUS
<1> DEFINE Counts == <<failures, announced, delay, announcements>>
<1>1. ASSUME UNCHANGED Counts, proc' \in {"none", "waiting", "running", "backoff"}
      PROVE  ProcessOK' /\ Episode'
  BY <1>1 DEF TypeOK, ProcessOK, Episode, AnnouncedOnce, DelayFor
<1>2. CASE UNCHANGED vars \/ Replay \/ Follow \/ SubscriptionEnds
  BY <1>1, <1>2 DEF vars, Replay, Follow, SubscriptionEnds, process, TypeOK, ProcessOK
<1>3. CASE Decide \/ Position \/ Forget \/ NameModel
  BY <1>1, <1>3 DEF Decide, Position, Forget, NameModel, process, TypeOK, ProcessOK
<1>4. CASE Boot \/ Ready \/ RetrySettings
  BY <1>1, <1>4 DEF Boot, Ready, RetrySettings, TypeOK, ProcessOK, StreamOK
<1>5. CASE Spawn
  <2>1. proc' \in {"none", "waiting", "running", "backoff"}
    BY <1>5 DEF Spawn, TypeOK, ProcessOK
  <2>2. CASE ShortRun
    BY <2>1, <2>2, ShortRunCounts DEF TypeOK, ProcessOK
  <2> QED BY <1>1, <1>5, <2>1, <2>2 DEF Spawn
<1>6. CASE Exits
  <2>1. proc' \in {"none", "waiting", "running", "backoff"}
    BY <1>6 DEF Exits, TypeOK, ProcessOK
  <2>2. CASE ShortRun
    BY <2>1, <2>2, ShortRunCounts DEF TypeOK, ProcessOK
  <2>3. CASE HealthyRun
    BY <2>1, <2>3, HermesAssumption DEF HealthyRun, ProcessOK, Episode, AnnouncedOnce
  <2> QED BY <1>6, <2>2, <2>3 DEF Exits
<1>7. CASE Crash
  BY <1>7, HermesAssumption DEF Crash, ProcessOK, Episode, AnnouncedOnce
<1> QED BY <1>2, <1>3, <1>4, <1>5, <1>6, <1>7 DEF Next

LEMMA FlagsStep == FlagsOK /\ [Next]_vars => FlagsOK'
<1> SUFFICES ASSUME FlagsOK, [Next]_vars PROVE FlagsOK'
  OBVIOUS
<1> USE DEF FlagsOK, stream, reading, consumer, process
<1>1. CASE UNCHANGED vars \/ Replay \/ SubscriptionEnds
  BY <1>1 DEF vars, Replay, SubscriptionEnds
<1>2. CASE Boot \/ Ready \/ Follow
  BY <1>2 DEF Boot, Ready, Follow, Moved
<1>3. CASE RetrySettings \/ Spawn \/ Exits \/ Crash
  BY <1>3 DEF RetrySettings, Spawn, Exits, Crash, ShortRun, HealthyRun
<1>4. CASE Decide \/ Position \/ Forget \/ NameModel
  BY <1>4 DEF Decide, Position, Forget, NameModel
<1> QED BY <1>1, <1>2, <1>3, <1>4 DEF Next

LEMMA TypeAndEpisode == Spec => [](TypeOK /\ Episode)
<1>1. Init => TypeOK /\ Episode
  <2>1. Init => Episode
    BY HermesAssumption DEF Init, Episode, AnnouncedOnce
  <2> QED BY <2>1, TypeInit
<1>2. TypeOK /\ Episode /\ [Next]_vars => (TypeOK /\ Episode)'
  BY StreamStep, ReadingStep, ProcessStep, FlagsStep DEF TypeOK
<1> QED BY <1>1, <1>2, PTL DEF Spec

\* Every reachable state of the runtime, its supervisor and the stream it reads
\* is well typed; the delay of an episode is delay_for of its failures.
THEOREM TypeCorrect == Spec => []TypeOK
BY TypeAndEpisode, PTL

\* An episode of short runs is announced by the run that reaches start_failures,
\* and once (supervisor.rs, Restarts::record_run).
THEOREM EpisodesAnnouncedOnce == Spec => []AnnouncedOnce
<1>1. Episode => AnnouncedOnce
  BY DEF Episode
<1> QED BY <1>1, TypeAndEpisode, PTL

-----------------------------------------------------------------------------
(* By the owner's last word.                                                 *)

\* What a network's last decision from a to b says, if there is one.
Word(n, a, b) ==
  IF LastWord(n, a, b) = 0 THEN "none" ELSE decisions[LastWord(n, a, b)].state

\* What the activation holds is what the decisions read so far say, and the
\* consumer was last moved by it.
HoldsTheWords == phase # "off" => \A n \in Networks : states[n] = Word(n, since, next - 1)

MovedByThem == phase = "following" /\ ~stale => (filter = "active" <=> IsActive(states))

\* The last word from a to b is the last of the network's decisions there.
LEMMA LastWordIs ==
  ASSUME NEW n, NEW a \in Nat \ {0}, NEW b \in Nat
  PROVE  /\ Words(n, a, b) = {} => LastWord(n, a, b) = 0
         /\ Words(n, a, b) # {} => /\ LastWord(n, a, b) \in Words(n, a, b)
                                  /\ \A i \in Words(n, a, b) : i <= LastWord(n, a, b)
<1>1. Words(n, a, b) \in SUBSET Nat /\ \A y \in Words(n, a, b) : y <= b
  BY DEF Words
<1>2. Words(n, a, b) = {} => Last(Words(n, a, b)) = 0
  BY DEF Last
<1> QED BY <1>1, <1>2, LastOf DEF LastWord

\* A snapshot's entry for a network is its last word up to the position: the
\* last decision on some connection of it, and no other connection's is later.
LEMMA SnapshotWords ==
  ASSUME StreamOK, NEW n \in Networks
  PROVE  ReadSnapshot[n] = Word(n, 1, positioned)
<1> DEFINE W == Words(n, 1, positioned)
           E == {j \in Entries : NetworkOf[decisions[j].on] = n}
<1>1. positioned \in Nat /\ positioned <= Len(decisions) /\ Len(decisions) \in Nat
  BY LenProperties DEF StreamOK
<1>2. E \subseteq W
  BY EntryIsPositioned DEF Words
<1>3. CASE W = {}
  <2>1. E = {} /\ LastWord(n, 1, positioned) = 0
    <3>1. E = {}
      BY <1>2, <1>3
    <3>2. W = {} => LastWord(n, 1, positioned) = 0
      BY <1>1, LastWordIs
    <3> QED BY <1>3, <3>1, <3>2
  <2>2. Last(E) = 0
    BY <2>1 DEF Last
  <2> QED BY <2>1, <2>2 DEF ReadSnapshot, Word
<1>4. CASE W # {}
  <2> DEFINE w == LastWord(n, 1, positioned)
             c == decisions[w].on
             S == {i \in 1 .. positioned : decisions[i].on = c}
  <2>1. w \in W /\ \A i \in W : i <= w
    <3>1. W # {} => w \in W /\ \A i \in W : i <= w
      BY <1>1, LastWordIs
    <3> QED BY <1>4, <3>1
  <2>2. w \in S /\ S \subseteq W /\ S \in SUBSET Nat
    BY <2>1 DEF Words
  <2>3. Last(S) = w
    <3>1. \A i \in S : i <= w
      BY <2>1, <2>2, Zenon
    <3> HIDE DEF S, w
    <3> QED BY <2>2, <3>1, LastIs
  <2>4. c \in Connections
    <3>1. w \in 1 .. Len(decisions)
      BY <1>1, <2>1 DEF Words
    <3>2. decisions[w] \in [on : Connections, state : {"granted", "revoked"}]
      <4> HIDE DEF w
      <4> QED BY <3>1, DecisionAt
    <3> QED BY <3>2
  <2>5. w # 0
    BY <2>1 DEF Words
  <2>6. w \in Entries
    BY <2>3, <2>4, <2>5 DEF Entries
  <2>7. w \in E /\ \A j \in E : j <= w
    BY <1>2, <2>1, <2>6 DEF Words
  <2>8. Last(E) = w
    <3>1. E \in SUBSET Nat
      BY <1>2 DEF Words
    <3> HIDE DEF E, w
    <3> QED BY <2>7, <3>1, LastIs
  <2> QED BY <2>5, <2>8 DEF ReadSnapshot, Word
<1> QED BY <1>3, <1>4

\* Reading one decision more gives the word it says, on its network.
LEMMA WordOfNext ==
  ASSUME StreamOK, NEW n \in Networks, NEW a \in Nat \ {0}, NEW b \in Nat, a <= b
  PROVE  Word(n, a, b) = IF NetworkOf[decisions[b].on] = n THEN decisions[b].state
                         ELSE Word(n, a, b - 1)
<1>1. b - 1 \in Nat /\ b # 0
  OBVIOUS
<1>2. CASE NetworkOf[decisions[b].on] = n
  <2>1. /\ b \in Words(n, a, b) /\ \A i \in Words(n, a, b) : i <= b
        /\ Words(n, a, b) \in SUBSET Nat
    BY <1>2 DEF Words
  <2>2. LastWord(n, a, b) = b
    BY <2>1, LastIs DEF LastWord
  <2> QED BY <1>1, <1>2, <2>2 DEF Word
<1>3. CASE NetworkOf[decisions[b].on] # n
  <2>1. \A i \in a .. b : i = b \/ i \in a .. (b - 1)
    OBVIOUS
  <2>2. Words(n, a, b) = Words(n, a, b - 1)
    BY <1>3, <2>1 DEF Words
  <2>3. LastWord(n, a, b) = LastWord(n, a, b - 1)
    BY <2>2 DEF LastWord
  <2> QED BY <1>3, <2>3 DEF Word
<1> QED BY <1>2, <1>3

\* A decision, a position or a forgotten row leaves the words read so far.
LEMMA WordsStay ==
  ASSUME StreamOK, NEW n \in Networks, NEW a \in Nat \ {0}, NEW b \in 0 .. Len(decisions),
         NEW d, decisions' = Append(decisions, d)
  PROVE  Word(n, a, b)' = Word(n, a, b)
<1>1. \A i \in 1 .. Len(decisions) : decisions'[i] = decisions[i]
  BY AppendProperties DEF StreamOK
<1>2. \A i \in a .. b : i \in 1 .. Len(decisions)
  BY LenProperties DEF StreamOK
<1>3. Words(n, a, b)' = Words(n, a, b)
  BY <1>1, <1>2 DEF Words
<1>4. LastWord(n, a, b)' = LastWord(n, a, b)
  BY <1>3 DEF LastWord
<1>5. LastWord(n, a, b) # 0 => LastWord(n, a, b) \in 1 .. Len(decisions)
  <2>1. b \in Nat
    BY LenProperties DEF StreamOK
  <2>2. LastWord(n, a, b) # 0 => LastWord(n, a, b) \in Words(n, a, b)
    BY <2>1, LastWordIs
  <2> QED BY <1>2, <2>2 DEF Words
<1> QED BY <1>1, <1>4, <1>5 DEF Word

\* The steps that read nothing and forget nothing leave what the words say.
LEMMA WordsKept ==
  ASSUME NEW n, UNCHANGED <<decisions, since, next>>
  PROVE  Word(n, since, next - 1)' = Word(n, since, next - 1)
BY DEF Word, LastWord, Words

LEMMA WordsStep == TypeOK /\ HoldsTheWords /\ [Next]_vars => HoldsTheWords'
<1> SUFFICES ASSUME TypeOK, HoldsTheWords, [Next]_vars, NEW n \in Networks, phase' # "off"
             PROVE  states'[n] = Word(n, since, next - 1)'
  BY DEF HoldsTheWords
<1>1. /\ StreamOK /\ ReadingOK /\ since \in Nat \ {0} /\ next \in Nat /\ since <= next
      /\ next - 1 \in 0 .. Len(decisions) /\ Len(decisions) \in Nat
  BY LenProperties DEF TypeOK, StreamOK, ReadingOK
<1>2. ASSUME phase # "off", UNCHANGED <<decisions, states, since, next>>
      PROVE  states'[n] = Word(n, since, next - 1)'
  BY <1>2, WordsKept DEF HoldsTheWords
<1>3. ASSUME phase # "off", next <= Len(decisions), states' = Apply(decisions[next], states),
             next' = next + 1, UNCHANGED <<decisions, since>>
      PROVE  states'[n] = Word(n, since, next - 1)'
  <2>1. Word(n, since, next - 1)' = Word(n, since, next)
    <3>1. next' - 1 = next
      BY <1>1, <1>3
    <3> QED BY <1>3, <3>1 DEF Word, LastWord, Words
  <2>2. Word(n, since, next) = IF NetworkOf[decisions[next].on] = n THEN decisions[next].state
                               ELSE Word(n, since, next - 1)
    BY <1>1, WordOfNext
  <2>3. states[n] = Word(n, since, next - 1)
    BY <1>3 DEF HoldsTheWords
  <2>4. states'[n] = IF NetworkOf[decisions[next].on] = n THEN decisions[next].state ELSE states[n]
    BY <1>1, <1>3 DEF Apply, ReadingOK
  <2> QED BY <2>1, <2>2, <2>3, <2>4
<1>4. CASE UNCHANGED vars
  BY <1>2, <1>4 DEF vars, stream, reading
<1>5. CASE Boot
  <2>1. UNCHANGED decisions
    BY <1>5 DEF Boot, stream
  <2>2. CASE states' = ReadSnapshot /\ next' = FollowFrom /\ since' = 1
    <3>1. next' - 1 = positioned
      BY <1>1, <2>2 DEF FollowFrom, StreamOK
    <3>2. Word(n, since, next - 1)' = Word(n, 1, positioned)
      BY <2>1, <2>2, <3>1 DEF Word, LastWord, Words
    <3> QED BY <1>1, <2>2, <3>2, SnapshotWords
  <2>3. CASE states' = Undecided /\ next' = oldest /\ since' = oldest
    <3>1. oldest \in Nat \ {0}
      BY <1>1 DEF StreamOK
    <3>2. (oldest .. (oldest - 1)) = {}
      BY <3>1
    <3>3. Words(n, oldest, oldest - 1) = {}
      BY <3>2 DEF Words
    <3>4. LastWord(n, oldest, oldest - 1) = 0
      BY <3>3 DEF LastWord, Last
    <3>5. Word(n, since, next - 1)' = Word(n, oldest, oldest - 1)
      BY <2>1, <2>3 DEF Word, LastWord, Words
    <3> QED BY <2>3, <3>4, <3>5 DEF Word, Undecided
  <2> QED BY <1>5, <2>2, <2>3 DEF Boot
<1>6. CASE Replay
  BY <1>2, <1>3, <1>6 DEF Replay, stream
<1>7. CASE Ready \/ SubscriptionEnds \/ Crash
  BY <1>2, <1>7 DEF Ready, SubscriptionEnds, Crash, stream
<1>8. CASE Follow
  BY <1>3, <1>8 DEF Follow, stream
<1>9. CASE RetrySettings \/ Spawn \/ Exits
  BY <1>2, <1>9 DEF RetrySettings, Spawn, Exits, stream, reading
<1>10. CASE Decide
  <2>1. PICK d : decisions' = Append(decisions, d)
    BY <1>10 DEF Decide
  <2>2. phase # "off" /\ UNCHANGED <<states, since, next>>
    BY <1>10 DEF Decide, reading
  <2>3. Word(n, since, next - 1)' = Word(n, since, next - 1)
    <3>1. \A a \in Nat \ {0} : \A b \in 0 .. Len(decisions) : Word(n, a, b)' = Word(n, a, b)
      BY <1>1, <2>1, WordsStay
    <3> QED BY <1>1, <2>2, <3>1
  <2> QED BY <2>2, <2>3 DEF HoldsTheWords
<1>11. CASE Position \/ Forget \/ NameModel
  BY <1>2, <1>11 DEF Position, Forget, NameModel, stream, reading
<1> QED BY <1>4, <1>5, <1>6, <1>7, <1>8, <1>9, <1>10, <1>11 DEF Next

LEMMA MovedStep == TypeOK /\ MovedByThem /\ [Next]_vars => MovedByThem'
<1> SUFFICES ASSUME TypeOK, MovedByThem, [Next]_vars PROVE MovedByThem'
  OBVIOUS
<1>1. ASSUME UNCHANGED <<phase, states, filter, stale>>
      PROVE  MovedByThem'
  BY <1>1 DEF MovedByThem, IsActive
<1>2. CASE UNCHANGED vars \/ RetrySettings \/ Spawn \/ Exits
  BY <1>1, <1>2 DEF vars, RetrySettings, Spawn, Exits, reading, consumer
<1>3. CASE Boot \/ Replay
  BY <1>3 DEF Boot, Replay, MovedByThem, ReadingOK, TypeOK
<1>4. CASE Ready
  BY <1>4 DEF Ready, Moved, MovedByThem, IsActive, consumer
<1>5. CASE Follow
  BY <1>5 DEF Follow, Moved, MovedByThem, IsActive
<1>6. CASE SubscriptionEnds \/ Crash
  BY <1>6 DEF SubscriptionEnds, Crash, MovedByThem
<1>7. CASE Decide \/ Position \/ Forget \/ NameModel
  BY <1>1, <1>7 DEF Decide, Position, Forget, NameModel, reading, consumer
<1> QED BY <1>2, <1>3, <1>4, <1>5, <1>6, <1>7 DEF Next

\* The consumer is filtered by the owner's last word on each network, of the
\* decisions read since the snapshot's first: the snapshot, the replay and the
\* stream after it say together what the whole stream would (activation.rs,
\* Snapshot::read and ReadFrom::follow_from).
THEOREM ReadsTheLastWord == Spec => []ByTheLastWord
<1> DEFINE Inv == TypeOK /\ HoldsTheWords /\ MovedByThem
<1>1. Init => HoldsTheWords /\ MovedByThem
  BY DEF Init, HoldsTheWords, MovedByThem
<1>2. Inv => ByTheLastWord
  <2> SUFFICES ASSUME Inv, phase = "following", ~stale
               PROVE  (filter = "active") = ActiveBy(since, next - 1)
    BY DEF ByTheLastWord
  <2>1. ASSUME NEW n \in Networks
        PROVE  states[n] = "granted" <=> /\ LastWord(n, since, next - 1) # 0
                                         /\ decisions[LastWord(n, since, next - 1)].state = "granted"
    BY <2>1 DEF HoldsTheWords, Word
  <2>2. filter = "active" <=> IsActive(states)
    BY DEF MovedByThem
  <2>3. IsActive(states) <=> ActiveBy(since, next - 1)
    BY <2>1 DEF IsActive, ActiveBy
  <2> QED BY <2>2, <2>3 DEF ActiveBy
<1>3. TypeOK /\ [Next]_vars /\ HoldsTheWords /\ MovedByThem => (HoldsTheWords /\ MovedByThem)'
  BY WordsStep, MovedStep
<1>4. Spec => []Inv
  BY <1>1, <1>3, TypeCorrect, PTL DEF Spec
<1> QED BY <1>2, <1>4, PTL
=============================================================================
