------------------------------- MODULE Mailbox -------------------------------
(***************************************************************************)
(* The owner's mailbox as the Collector polls it (collector/src/mails.rs   *)
(* and the mail half of main.rs's round), the rules that file mail, and    *)
(* the Gateway's journal of what was filed and what the owner asked back   *)
(* (companion-gateway/src/store.rs, settings_http.rs).                     *)
(*                                                                         *)
(* A poll reads what arrived since the persisted state, builds events,     *)
(* files what the rules match, publishes, and then writes the state.  The  *)
(* server may forget the state, a call may fail, the process may die       *)
(* between any two of these, and the owner moves mail too.                 *)
(*                                                                         *)
(* The server's Email state is the number of mails that arrived, and so is *)
(* an instant, `last` of a MailState being its last_read_at.  A page of    *)
(* changes holds flags and moves as well, and may end after any mail.  A   *)
(* rule is what it does: Ruled mails match on arrival, Aged ones when a    *)
(* sweep finds them.  The ring of 500 read ids is the set of all of them.  *)
(***************************************************************************)
EXTENDS Naturals, Sequences, FiniteSets

CONSTANTS
    Mail,     \* the mails that may arrive in the INBOX
    Kept,      \* those of a person writing: the frontier lets them through
    Ruled,     \* those a rule matches on arrival
    Aged,      \* those only a rule about age matches
    MaxMoves,  \* bound: rows of the Gateway's journal
    MaxMishaps  \* bound: calls and publications that fail, crashes, states forgotten, moves by hand,
                \* pages of other changes

ASSUME MailboxAssumption ==
    /\ Kept \cup Ruled \cup Aged \subseteq Mail
    /\ MaxMoves \in Nat /\ MaxMishaps \in Nat

VARIABLES
    log,      \* the mails in the order they arrived
    where,    \* where each is now
    forgot,   \* the server serves no changes from a state before this one
    disk,     \* the persisted MailState
    at,       \* where the poll is
    found,    \* mails the poll is to read
    next,     \* the MailState it would write
    envelopes,\* the events it has still to publish
    triaged,  \* the mails it asks the rules about
    undos,    \* the pending undos as last read from the Gateway
    swept,    \* the inbox was swept this hour
    filed,    \* the moves it has to report
    moves,    \* the Gateway's mail_move journal
    bus,      \* how often each mail was stored
    mishaps,
    base,     \* history: what the mailbox held when it was taken as it stands
    unsaid,   \* history: mails whose publication failed
    redone,   \* history: mails read in a round that wrote no state
    ahead,    \* history: mails a window read past the state its round writes
    rest,     \* history: mails left for the next page when the server forgot the state
    touched   \* history: mails the owner or an undo moved

server == <<log, where, forgot>>
round == <<found, next, envelopes, triaged, filed>>
history == <<base, unsaid, redone, ahead, rest, touched>>
mailboxVars == <<server, disk, at, round, undos, swept, moves, bus, mishaps, history>>

Places == {"unborn", "inbox", "folder", "gone"}
Positions == {"off", "idle", "changes", "window", "read", "file", "report", "publish", "commit"}
NoState == [state |-> 0, held |-> FALSE, read |-> {}, last |-> 0]
Moves == [mail : Mail, undoes : 0 .. MaxMoves, asked : BOOLEAN]
In(place) == {m \in Mail : where[m] = place}
After(s, from) == {s[i] : i \in from + 1 .. Len(s)}
Arrived(from) == After(log, from)
Pending == {i \in 1 .. Len(moves) : moves[i].asked}

(* What a round held, dropped. *)
RoundOver ==
    /\ found' = {} /\ envelopes' = {} /\ triaged' = {} /\ filed' = {}
    /\ next' = NoState

MailboxInit ==
    /\ log = <<>> /\ where = [m \in Mail |-> "unborn"] /\ forgot = 0
    /\ disk = NoState
    /\ at = "off" /\ found = {} /\ next = NoState /\ envelopes = {} /\ triaged = {}
    /\ undos = {} /\ swept = FALSE /\ filed = {}
    /\ moves = <<>> /\ bus = [m \in Mail |-> 0]
    /\ mishaps = 0 /\ base = {} /\ unsaid = {} /\ redone = {} /\ ahead = {} /\ rest = {} /\ touched = {}

(***************************************************************************)
(* The process.                                                            *)
(***************************************************************************)
(* It does not start without the Gateway's settings. *)
Start ==
    /\ at = "off" /\ at' = "idle"
    /\ undos' = Pending /\ swept' = FALSE
    /\ UNCHANGED <<server, disk, round, moves, bus, mishaps, history>>

(* Killed anywhere: what the round read is read again. *)
Killed ==
    /\ at # "off" /\ mishaps < MaxMishaps /\ mishaps' = mishaps + 1
    /\ at' = "off"
    /\ redone' = redone \cup (next.read \ disk.read)
    /\ undos' = {}
    /\ RoundOver
    /\ UNCHANGED <<server, disk, swept, moves, bus, base, unsaid, ahead, rest, touched>>

(* A call of the poll's reads fails: the poll is over, the state stays. *)
CallFails ==
    /\ at \in {"changes", "window", "read"} /\ mishaps < MaxMishaps /\ mishaps' = mishaps + 1
    /\ at' = "idle"
    /\ RoundOver
    /\ UNCHANGED <<server, disk, undos, swept, moves, bus, history>>

(* A round: the settings are re-read, or those in force stand. *)
Poll ==
    /\ at = "idle" /\ at' = "changes"
    /\ \/ undos' = Pending /\ UNCHANGED mishaps
       \/ mishaps < MaxMishaps /\ mishaps' = mishaps + 1 /\ UNCHANGED undos
    /\ UNCHANGED <<server, disk, round, swept, moves, bus, history>>

(* The first poll takes the mailbox as it stands and publishes nothing of it. *)
TakeAsItStands ==
    /\ at = "changes" /\ ~disk.held
    /\ next' = [state |-> Len(log), held |-> TRUE, read |-> {}, last |-> Len(log)]
    /\ base' = Arrived(0)
    /\ at' = "commit"
    /\ UNCHANGED <<server, disk, found, envelopes, triaged, undos, swept, filed, moves, bus, mishaps,
                   unsaid, redone, ahead, rest, touched>>

(* Email/changes: one page of what was created since the state.  That there  *)
(* is more is not looked at: the state the page ends at is the next round's, *)
(* and the mailbox was read now.  A page that holds no mail is a mishap.     *)
Changes ==
    /\ at = "changes" /\ disk.held /\ disk.state >= forgot
    /\ \E end \in disk.state .. Len(log) :
         /\ found' = Arrived(disk.state) \ Arrived(end)
         /\ next' = [disk EXCEPT !.state = end, !.last = Len(log)]
         /\ \/ end \in (disk.state + 1 .. Len(log)) \cup {Len(log)} /\ UNCHANGED mishaps
            \/ /\ end = disk.state /\ end < Len(log)
               /\ mishaps < MaxMishaps /\ mishaps' = mishaps + 1
    /\ at' = "read"
    /\ UNCHANGED <<server, disk, envelopes, triaged, undos, swept, filed, moves, bus, history>>

(* Mutant of StateForgotten: it is said, and the poll stops until then. *)
ForgottenIsTheEnd ==
    /\ at = "changes" /\ disk.held /\ disk.state < forgot
    /\ at' = "idle"
    /\ UNCHANGED <<server, disk, round, undos, swept, moves, bus, mishaps, history>>

(* The server forgot the state: the current one is read first... *)
StateForgotten ==
    /\ at = "changes" /\ disk.held /\ disk.state < forgot
    /\ next' = [disk EXCEPT !.state = Len(log), !.last = Len(log)]
    /\ rest' = rest \cup (Arrived(disk.state) \ Arrived(disk.last))
    /\ at' = "window"
    /\ UNCHANGED <<server, disk, found, envelopes, triaged, undos, swept, filed, moves, bus, mishaps,
                   base, unsaid, redone, ahead, touched>>

(* Mutant of Window: what was read before is read again. *)
WindowWithoutRing ==
    /\ at = "window"
    /\ \E since \in 0 .. disk.last : found' = Arrived(since) \cap In("inbox")
    /\ ahead' = ahead \cup (found' \cap Arrived(next.state))
    /\ at' = "read"
    /\ UNCHANGED <<server, disk, next, envelopes, triaged, undos, swept, filed, moves, bus, mishaps,
                   base, unsaid, redone, rest, touched>>

(* ...then the window: the INBOX since somewhat before the last read, less  *)
(* the mails read already.                                                  *)
Window ==
    /\ at = "window"
    /\ \E since \in 0 .. disk.last : found' = (Arrived(since) \cap In("inbox")) \ disk.read
    /\ ahead' = ahead \cup (found' \cap Arrived(next.state))
    /\ at' = "read"
    /\ UNCHANGED <<server, disk, next, envelopes, triaged, undos, swept, filed, moves, bus, mishaps,
                   base, unsaid, redone, rest, touched>>

(* Email/get of what is in the INBOX: each read mail is remembered, each the *)
(* frontier lets through becomes an event, and all are asked about with what *)
(* the hourly sweep finds old.                                               *)
Read ==
    /\ at = "read"
    /\ LET read == found \cap In("inbox") IN
       /\ next' = [next EXCEPT !.read = @ \cup read]
       /\ envelopes' = read \cap Kept
       /\ \E old \in SUBSET In("inbox") :
            /\ swept \/ Aged = {} => old = {}
            /\ triaged' = (read \cap Ruled) \cup (old \cap (Ruled \cup Aged))
    /\ swept' = TRUE
    /\ found' = {}
    /\ at' = "file"
    /\ UNCHANGED <<server, disk, undos, filed, moves, bus, mishaps, history>>

(* Mailbox::file: the undos first, and no rule re-files in the round what    *)
(* the owner asked back.  A mailbox that cannot be read, or refuses, moves   *)
(* nothing; a mail that is gone is not among the updated.                    *)
File ==
    /\ at = "file"
    /\ LET back == {moves[i].mail : i \in undos}
           wanted == {[mail |-> moves[i].mail, undoes |-> i, asked |-> FALSE] : i \in undos}
                       \cup {[mail |-> m, undoes |-> 0, asked |-> FALSE] : m \in triaged \ back}
           taken == {f \in wanted : where[f.mail] # "gone"}
       IN \/ /\ filed' = taken
             /\ where' = [m \in Mail |->
                   CASE \E f \in taken : f.mail = m /\ f.undoes # 0 -> "inbox"
                     [] \E f \in taken : f.mail = m /\ f.undoes = 0 -> "folder"
                     [] OTHER -> where[m]]
             /\ touched' = touched \cup (back \ In("gone"))
             /\ UNCHANGED mishaps
          \/ /\ wanted # {} /\ mishaps < MaxMishaps /\ mishaps' = mishaps + 1
             /\ UNCHANGED <<filed, where, touched>>
    /\ triaged' = {}
    /\ at' = "report"
    /\ UNCHANGED <<log, forgot, disk, found, next, envelopes, undos, swept, moves, bus, base, unsaid, redone, ahead, rest>>

(* A row of the journal; this model keeps no more than MaxMoves. *)
Row(journal, f) == IF Len(journal) < MaxMoves THEN Append(journal, f) ELSE journal

(* Mutant of Recorded: a performed undo stays on the queue. *)
RecordedOnly(f) == moves' = Row(moves, f)

(* record_mail_move: a row, and an undo takes its request off the queue. *)
Recorded(f) ==
    moves' = Row(IF f.undoes = 0 THEN moves ELSE [moves EXCEPT ![f.undoes].asked = FALSE], f)

(* The moves are reported, in one request, one row each; a report that fails *)
(* is not made again.                                                        *)
ReportMoves ==
    /\ at = "report"
    /\ \/ \E f \in filed :
            /\ Recorded(f)
            /\ filed' = filed \ {f}
            /\ UNCHANGED <<at, mishaps>>
       \/ /\ filed # {} /\ mishaps < MaxMishaps /\ mishaps' = mishaps + 1
          /\ filed' = {} /\ at' = "publish"
          /\ UNCHANGED moves
       \/ /\ filed = {} /\ at' = "publish"
          /\ UNCHANGED <<moves, filed, mishaps>>
    /\ UNCHANGED <<server, disk, found, next, envelopes, triaged, undos, swept, bus, history>>

(* One event on the bus, or a warning that it is not. *)
Publish ==
    /\ at = "publish"
    /\ \E m \in envelopes :
         /\ envelopes' = envelopes \ {m}
         /\ \/ /\ bus' = [bus EXCEPT ![m] = IF @ < 2 THEN @ + 1 ELSE @]
               /\ UNCHANGED <<mishaps, unsaid>>
            \/ /\ mishaps < MaxMishaps /\ mishaps' = mishaps + 1
               /\ unsaid' = unsaid \cup {m}
               /\ UNCHANGED bus
    /\ UNCHANGED <<server, disk, at, found, next, triaged, undos, swept, filed, moves, base, redone, ahead,
                   rest, touched>>

Published ==
    /\ at = "publish" /\ envelopes = {}
    /\ at' = "commit"
    /\ UNCHANGED <<server, disk, round, undos, swept, moves, bus, mishaps, history>>

(* The state is written, whatever became of the events; or cannot be. *)
Commit ==
    /\ at = "commit" /\ at' = "idle"
    /\ \/ disk' = next /\ UNCHANGED <<mishaps, redone>>
       \/ /\ mishaps < MaxMishaps /\ mishaps' = mishaps + 1
          /\ redone' = redone \cup (next.read \ disk.read)
          /\ UNCHANGED disk
    /\ RoundOver
    /\ UNCHANGED <<server, undos, swept, moves, bus, base, unsaid, ahead, rest, touched>>

(* An hour passed since the sweep. *)
SweepDue ==
    /\ swept /\ at = "idle" /\ swept' = FALSE
    /\ UNCHANGED <<server, disk, at, round, undos, moves, bus, mishaps, history>>

(***************************************************************************)
(* The server and the owner.                                               *)
(***************************************************************************)
Arrive(m) ==
    /\ where[m] = "unborn"
    /\ where' = [where EXCEPT ![m] = "inbox"] /\ log' = Append(log, m)
    /\ UNCHANGED <<forgot, disk, at, round, undos, swept, moves, bus, mishaps, history>>

Forget ==
    /\ forgot < Len(log) /\ mishaps < MaxMishaps /\ mishaps' = mishaps + 1
    /\ forgot' = Len(log)
    /\ UNCHANGED <<log, where, disk, at, round, undos, swept, moves, bus, history>>

(* The owner moves a mail from their own client, or destroys it. *)
MoveByHand(m) ==
    /\ where[m] \in {"inbox", "folder"} /\ mishaps < MaxMishaps /\ mishaps' = mishaps + 1
    /\ \E place \in {"inbox", "folder", "gone"} \ {where[m]} : where' = [where EXCEPT ![m] = place]
    /\ touched' = touched \cup {m}
    /\ UNCHANGED <<log, forgot, disk, at, round, undos, swept, moves, bus, base, unsaid, redone, ahead,
                   rest>>

(* POST /api/mail-moves/{sequence}/undo: not of an undo, and once. *)
AskUndo(i) ==
    /\ moves[i].undoes = 0 /\ ~moves[i].asked
    /\ \A j \in 1 .. Len(moves) : moves[j].undoes # i
    /\ moves' = [moves EXCEPT ![i].asked = TRUE]
    /\ UNCHANGED <<server, disk, at, round, undos, swept, bus, mishaps, history>>

PollStep ==
    \/ Poll \/ TakeAsItStands \/ Changes \/ StateForgotten \/ Window \/ Read
    \/ File \/ ReportMoves \/ Publish \/ Published \/ Commit

MailboxNext ==
    \/ Start \/ Killed \/ CallFails \/ PollStep \/ SweepDue
    \/ \E m \in Mail : Arrive(m) \/ MoveByHand(m)
    \/ Forget
    \/ \E i \in 1 .. Len(moves) : AskUndo(i)

MailboxSpec == MailboxInit /\ [][MailboxNext]_mailboxVars

(* The container is started again and its loop polls. *)
FairMailboxSpec == MailboxSpec /\ WF_mailboxVars(Start) /\ WF_mailboxVars(PollStep)

(***************************************************************************)
(* Properties.                                                             *)
(***************************************************************************)
MailStates == [state : 0 .. Len(log), held : BOOLEAN, read : SUBSET Mail, last : 0 .. Len(log)]

ServerOK ==
    /\ log \in Seq(Mail) /\ where \in [Mail -> Places] /\ forgot \in 0 .. Len(log)
    /\ base \subseteq Mail /\ touched \subseteq Mail

PollOK ==
    /\ disk \in MailStates /\ next \in MailStates /\ at \in Positions
    /\ found \subseteq Mail /\ envelopes \subseteq Mail /\ triaged \subseteq Mail
    /\ bus \in [Mail -> 0 .. 2] /\ unsaid \subseteq Mail /\ redone \subseteq Mail
    /\ ahead \subseteq Mail /\ rest \subseteq Mail

JournalOK ==
    /\ moves \in Seq(Moves) /\ Len(moves) <= MaxMoves /\ filed \subseteq Moves
    /\ undos \subseteq 1 .. Len(moves) /\ swept \in BOOLEAN /\ mishaps \in 0 .. MaxMishaps

(* Every variable is in its range. *)
MailboxTypeOK == ServerOK /\ PollOK /\ JournalOK

(* Mail the state is about: arrived since the mailbox was taken as it stands, *)
(* a person's, and neither the owner nor a rule moves it.                     *)
Ours == (Kept \ (Ruled \cup Aged \cup touched \cup base)) \cap Arrived(0)

(* The state moves only past what was published: no mail before the persisted *)
(* state was passed over, through states forgotten, calls that fail and       *)
(* crashes (mails.rs: the state moves only after the events), unless its      *)
(* publication failed, or the server forgot the state with the mail still on  *)
(* a page to come: the recovery looks back from the last read, which read     *)
(* less than there was.                                                       *)
NothingPassedOver ==
    \A m \in Ours \ (unsaid \cup rest) : m \in Arrived(disk.state) \/ bus[m] > 0

(* A mail is published again only when the round that read it wrote no state, *)
(* or when it arrived between the state a recovery read and its window: a     *)
(* recovery sets aside what was already read (#277), the changes after it do  *)
(* not.                                                                       *)
PublishedOnce == \A m \in Mail : bus[m] > 1 => m \in redone \cup ahead

(* No mail is skipped, and none is published twice without need. *)
EachMailOnce == NothingPassedOver /\ PublishedOnce

(* Every mail of a person's that stays in the INBOX reaches the bus, but one   *)
(* on the pages the server's forgetting cut off.                              *)
MailArrives == \A m \in Mail : m \in Ours ~> m \notin Ours \/ bus[m] > 0 \/ m \in unsaid \cup rest

(* Of a mail that arrives between the two, mails.rs says: "read now and not    *)
(* again".                                                                    *)
ReadNowNotAgain == \A m \in Mail : bus[m] > 1 => m \in redone

(* "Everything delivered to the INBOX since a little before the last read is   *)
(* listed", says mails.rs of a state that was lost: nothing is passed over.   *)
RecoveryMissesNone == \A m \in Ours \ unsaid : m \in Arrived(disk.state) \/ bus[m] > 0

(* An undo the owner asked for is performed and taken off the queue, through *)
(* reports that are lost (the collector does it again), unless the mail is   *)
(* gone.                                                                     *)
UndosSettle ==
    \A i \in 1 .. MaxMoves :
        i \in Pending ~> i \notin Pending \/ where[moves[i].mail] = "gone"

(* The state moves only after the bus took the events, and a publication that *)
(* fails is the only way past one (mails.rs): filing a mail changes nothing   *)
(* of what is published.                                                      *)
FiledMailIsPublishedToo ==
    \A m \in (Kept \ (touched \cup base)) \cap Arrived(0) :
        m \in Arrived(disk.state) \/ bus[m] > 0 \/ m \in unsaid \cup rest
=============================================================================
