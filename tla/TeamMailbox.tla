------------------------------ MODULE TeamMailbox ------------------------------
(*****************************************************************************)
(* The mailboxes of one AgentTeams team, the three paths that deliver what  *)
(* is in them (the sender itself, the scheduler's kickMember, the captain's *)
(* idle listener) and the status tool that shows them.                      *)
(*                                                                           *)
(* A mailbox is one file, rewritten as a whole: every change reads the file *)
(* and renames a new version over it.  Changes under the team lock are the  *)
(* pair Take / Commit, the reply of an external member, which takes no      *)
(* lock, is the pair ReplyRead / ReplyWrite.                                *)
(*                                                                           *)
(* Abstractions.  Messages are numbered in the order in which they are      *)
(* written.  Of a record the state is kept: "unread", "claimed" (a delivery *)
(* claim younger than a minute) or "read" (readAt is set).  A refused call  *)
(* of send_message changes nothing and is left out.  Tasks are the subject  *)
(* of TeamTasks: a kick that finds no mail does nothing here.               *)
(*                                                                           *)
(* Operators introduced by "Mutation:" are wrong versions of the definition *)
(* that follows, which a property must tell from the right one.             *)
(*****************************************************************************)
EXTENDS Naturals, FiniteSets, FiniteSetsExt

CONSTANTS
  Member,       \* names of the active members
  Claude,       \* members with runtime = "claude-code"
  Captain,      \* CAPTAIN_KEY
  None,         \* undefined
  Route,        \* bound: pairs <<from, to>> for which send_message is called
  Viewer,       \* bound: participants that call agent_teams_status
  Listener,     \* bound: idle listeners of the captain that may be at work at once
  InboxWindow,  \* messages of the captain's inbox agent_teams_status shows
  MaxMessages,  \* bound: messages ever written
  MaxBreaks,   \* bound: process restarts and failing file operations
  Faults        \* bound: the failures that happen in this instance

Party == Member \cup {Captain}

AllFaults == {"captain_offline", "followup_rejected", "steer_error", "cli_error",
              "io_error", "restart", "slow"}

ASSUME NamesAssumption ==
  /\ Captain \notin Member /\ None \notin Party
  /\ Claude \subseteq Member /\ Viewer \subseteq Party \ Claude
  /\ Route \subseteq (Party \ Claude) \X Party
ASSUME BoundsAssumption ==
  /\ InboxWindow \in Nat /\ MaxMessages \in Nat /\ MaxBreaks \in Nat
  /\ Faults \subseteq AllFaults

Msg == 1 .. MaxMessages

\* Who has a call in progress: the sender of a message, the kick of a member
\* (one at a time), an idle listener, a status call.
Actor == ({"send"} \X Msg) \cup ({"kick"} \X Member)
           \cup ({"wake"} \X Listener) \cup ({"view"} \X Viewer)

ASSUME NoneIsNobody == None \notin Actor

State == {"absent", "unread", "claimed", "read"}
File == [Msg -> State]
Phase == {"rest", "read", "reread", "append", "claim", "deliver", "reply", "ack", "release"}
Locked == {"append", "claim", "ack", "release"}
Call == [phase : Phase, list : SUBSET Msg, seen : SUBSET Msg]

NoLetter == [from |-> None, to |-> None]
Rest == [phase |-> "rest", list |-> {}, seen |-> {}]
EmptyFile == [i \in Msg |-> "absent"]
NoAnswer == [owed |-> {}, id |-> 0, file |-> EmptyFile]

VARIABLES
  letter,   \* from and to of each message
  inbox,    \* inbox/<participant>.jsonl
  call,     \* each actor's phase, the messages it handles, those it will show
  lock,     \* the actor inside withTeamLock
  file,     \* the mailbox as the holder of the lock has read it
  answer,   \* external member's reply: senders still to answer, message, file read
  kicks,    \* members with a kickMember waiting to start
  busy,     \* members running a turn
  pending,  \* CaptainWakeCoalescer.pending has the captain
  running,  \* the captain is running a turn
  nudged,   \* a steer has been accepted during that turn
  shown,    \* messages whose content their recipient got
  noticed,  \* messages counted in a notice or a status result their recipient got
  late,     \* history: messages only the second reading of a member's status call found
  told,     \* how often a message was handed to a live recipient, at most MaxBreaks + 2
  breaks

mail == <<letter, inbox>>
section == <<call, lock, file>>
captain == <<pending, running, nudged>>
seen == <<shown, noticed, late, told>>
vars == <<mail, section, answer, kicks, busy, captain, seen, breaks>>

Init ==
  /\ letter = [i \in Msg |-> NoLetter]
  /\ inbox = [k \in Party |-> EmptyFile]
  /\ call = [a \in Actor |-> Rest]
  /\ lock = None /\ file = EmptyFile
  /\ answer = [m \in Claude |-> NoAnswer]
  /\ kicks = {} /\ busy = {}
  /\ pending = FALSE /\ running = FALSE /\ nudged = FALSE
  /\ shown = {} /\ noticed = {} /\ late = {} /\ told = [i \in Msg |-> 0]
  /\ breaks = 0

-----------------------------------------------------------------------------
(* Files *)

\* The mailbox an actor works on.
Box(a) == CASE a[1] = "send" -> letter[a[2]].to
            [] a[1] = "wake" -> Captain
            [] OTHER -> a[2]

Unread(k) == {i \in Msg : inbox[k][i] = "unread"}

\* Mutation: send_message appends the message without a delivery claim.
MarkUnclaimed == [append |-> "unread", claim |-> "claimed", ack |-> "read", release |-> "unread"]

\* What a locked section makes of a record it selects.
Mark == [append |-> "claimed", claim |-> "claimed", ack |-> "read", release |-> "unread"]

\* What it makes of the file; only an append writes a record that is not there,
\* and readAt stays.
Rewrite(f, op, list) ==
  [i \in Msg |-> IF i \notin list \/ (op # "append" /\ f[i] \in {"absent", "read"})
                THEN f[i] ELSE Mark[op]]

\* A new message takes the next number.
Fresh(i) == letter[i] = NoLetter /\ \A j \in 1 .. i - 1 : letter[j] # NoLetter

Enter(a, phase) == call' = [call EXCEPT ![a].phase = phase]
Leave(a) == call' = [call EXCEPT ![a] = Rest]

Latest(list, n) == {i \in list : Cardinality({j \in list : j > i}) < n}

\* The result of agent_teams_status: it counts the messages the call has set
\* aside, and has the content of the captain's and of a member's latest one.
Report(a) ==
  /\ shown' = shown \cup IF a[2] = Captain THEN call[a].seen ELSE Latest(call[a].seen, 1)
  /\ noticed' = noticed \cup call[a].seen

-----------------------------------------------------------------------------
(* Locked sections *)

\* Mutation: the message is appended without the team lock.
PostWithoutLock(i, f, t) ==
  /\ Fresh(i) /\ <<f, t>> \in Route
  /\ letter' = [letter EXCEPT ![i] = [from |-> f, to |-> t]]
  /\ inbox' = [inbox EXCEPT ![t][i] = "claimed"]
  /\ call' = [call EXCEPT ![<<"send", i>>] = [phase |-> "deliver", list |-> {i}, seen |-> {}]]
  /\ UNCHANGED <<lock, file, answer, kicks, busy, captain, seen, breaks>>

\* send_message appends the message, already claimed for its own delivery.
Post(i, f, t) ==
  /\ Fresh(i) /\ <<f, t>> \in Route /\ lock = None
  /\ letter' = [letter EXCEPT ![i] = [from |-> f, to |-> t]]
  /\ lock' = <<"send", i>> /\ file' = inbox[t]
  /\ call' = [call EXCEPT ![<<"send", i>>] = [phase |-> "append", list |-> {i}, seen |-> {}]]
  /\ UNCHANGED <<inbox, answer, kicks, busy, captain, seen, breaks>>

Take(a) ==
  /\ lock = None /\ call[a].phase \in Locked
  /\ lock' = a /\ file' = inbox[Box(a)]
  /\ UNCHANGED <<mail, call, answer, kicks, busy, captain, seen, breaks>>

\* The new version is renamed over the file.  A status call then returns its
\* result; the sender of a message to an external member kicks that member.
Commit(a) ==
  LET op == call[a].phase
      list == call[a].list
  IN
  /\ lock = a
  /\ inbox' = [inbox EXCEPT ![Box(a)] = Rewrite(file, op, list)]
  /\ lock' = None /\ file' = EmptyFile
  /\ IF op \in {"append", "claim"} THEN Enter(a, "deliver") ELSE Leave(a)
  /\ IF op = "ack" /\ a[1] = "view" THEN Report(a)
     ELSE /\ noticed' = IF op = "ack" /\ a[1] = "wake" THEN noticed \cup list ELSE noticed
          /\ UNCHANGED shown
  /\ kicks' = IF a[1] = "send" /\ op = "release" THEN kicks \cup ({Box(a)} \cap Claude) ELSE kicks
  /\ UNCHANGED <<letter, answer, busy, captain, late, told, breaks>>

-----------------------------------------------------------------------------
(* Delivery *)

Told(list) == told' = [i \in Msg |-> IF i \in list /\ told[i] < MaxBreaks + 2
                                     THEN told[i] + 1 ELSE told[i]]
Show(list) == shown' = shown \cup list /\ Told(list) /\ UNCHANGED <<noticed, late>>

Delivering(a, to) == call[a].phase = "deliver" /\ Box(a) \in to

\* A member's report steers the captain if no wake-up is pending.
SteerReport(i) ==
  /\ Delivering(<<"send", i>>, {Captain})
  /\ letter[i].from # Captain /\ ~pending
  /\ \/ /\ pending' = TRUE /\ running' = TRUE /\ nudged' = running
        /\ Show(call[<<"send", i>>].list) /\ Enter(<<"send", i>>, "ack")
     \/ /\ "steer_error" \in Faults
        /\ UNCHANGED <<captain, seen>> /\ Enter(<<"send", i>>, "release")
  /\ UNCHANGED <<mail, lock, file, answer, kicks, busy, breaks>>

\* Otherwise the report stays in the mailbox; so does the captain's own, and
\* any message if the captain is not live or the recipient external.
LeaveInMailbox(i) ==
  /\ Delivering(<<"send", i>>, Party)
  /\ \/ "captain_offline" \in Faults
     \/ letter[i].to \in Claude
     \/ letter[i].to = Captain /\ (pending \/ letter[i].from = Captain)
  /\ Enter(<<"send", i>>, "release")
  /\ UNCHANGED <<mail, lock, file, answer, kicks, busy, captain, seen, breaks>>

\* The member's agent accepts the follow-up and runs a turn for it.
DeliverAccepted(a) ==
  /\ Delivering(a, Member \ Claude)
  /\ Show(call[a].list) /\ busy' = busy \cup {Box(a)}
  /\ Enter(a, "ack")
  /\ UNCHANGED <<mail, lock, file, answer, kicks, captain, breaks>>

\* Mutation: a refused follow-up is acknowledged like an accepted one.
AckRefused(a) ==
  /\ "followup_rejected" \in Faults
  /\ Delivering(a, Member \ Claude)
  /\ Enter(a, "ack")
  /\ UNCHANGED <<mail, lock, file, answer, kicks, busy, captain, seen, breaks>>

DeliverRejected(a) ==
  /\ "followup_rejected" \in Faults
  /\ Delivering(a, Member \ Claude)
  /\ Enter(a, "release")
  /\ UNCHANGED <<mail, lock, file, answer, kicks, busy, captain, seen, breaks>>

-----------------------------------------------------------------------------
(* kickMember *)

\* Mutation: a kick does not look at the mailbox of a member.
KickIgnoresMail(m) ==
  /\ m \in kicks /\ call[<<"kick", m>>].phase = "rest"
  /\ kicks' = kicks \ {m}
  /\ UNCHANGED <<mail, section, answer, busy, captain, seen, breaks>>

\* kickMember is serialized per member.  It reads the mailbox without the lock
\* if it finds the captain live and the member available.
KickReadsMail(m) ==
  /\ m \in kicks /\ call[<<"kick", m>>].phase = "rest"
  /\ kicks' = kicks \ {m}
  /\ \/ /\ m \in busy \/ Unread(m) = {} \/ "captain_offline" \in Faults
        /\ UNCHANGED call
     \/ /\ m \notin busy /\ Unread(m) # {}
        /\ call' = [call EXCEPT ![<<"kick", m>>] =
                      [phase |-> "claim", list |-> Unread(m), seen |-> {}]]
  /\ UNCHANGED <<mail, lock, file, answer, busy, captain, seen, breaks>>

\* The external CLI has run the prompt of an external member, after the prompt
\* was mirrored to the member's shell session if that session accepted it.
CliAnswers(m) ==
  /\ Delivering(<<"kick", m>>, Claude)
  /\ Show(call[<<"kick", m>>].list)
  /\ busy' \in {busy, busy \cup {m}}
  /\ answer' = [answer EXCEPT ![m].owed = {letter[i].from : i \in call[<<"kick", m>>].list} \ {m}]
  /\ Enter(<<"kick", m>>, "reply")
  /\ UNCHANGED <<mail, lock, file, kicks, captain, breaks>>

CliFails(m) ==
  /\ "cli_error" \in Faults
  /\ Delivering(<<"kick", m>>, Claude)
  /\ busy' \in {busy, busy \cup {m}}
  /\ Enter(<<"kick", m>>, "release")
  /\ UNCHANGED <<mail, lock, file, answer, kicks, captain, seen, breaks>>

\* The reply is appended to each sender's mailbox in turn, without the lock.
ReplyRead(m, f, i) ==
  /\ call[<<"kick", m>>].phase = "reply"
  /\ f \in answer[m].owed /\ answer[m].id = 0 /\ Fresh(i)
  /\ letter' = [letter EXCEPT ![i] = [from |-> m, to |-> f]]
  /\ answer' = [answer EXCEPT ![m] = [owed |-> @.owed \ {f}, id |-> i, file |-> inbox[f]]]
  /\ UNCHANGED <<inbox, section, kicks, busy, captain, seen, breaks>>

ReplyWrite(m) ==
  LET i == answer[m].id IN
  /\ i # 0
  /\ inbox' = [inbox EXCEPT ![letter[i].to] = [answer[m].file EXCEPT ![i] = "unread"]]
  /\ answer' = [answer EXCEPT ![m].id = 0, ![m].file = EmptyFile]
  /\ UNCHANGED <<letter, section, kicks, busy, captain, seen, breaks>>

\* All are answered, or (bound) no message is left.
ReplyDone(m) ==
  /\ call[<<"kick", m>>].phase = "reply" /\ answer[m].id = 0
  /\ answer[m].owed = {} \/ ~\E i \in Msg : Fresh(i)
  /\ answer' = [answer EXCEPT ![m] = NoAnswer]
  /\ Enter(<<"kick", m>>, "ack")
  /\ UNCHANGED <<mail, lock, file, kicks, busy, captain, seen, breaks>>

\* A member's turn ends, and its idle event kicks it.
MemberIdle(m) ==
  /\ m \in busy
  /\ busy' = busy \ {m} /\ kicks' = kicks \cup {m}
  /\ UNCHANGED <<mail, section, answer, captain, seen, breaks>>

-----------------------------------------------------------------------------
(* The captain's turns and idle listener *)

\* A turn somebody else asks for.
CaptainTurn ==
  /\ ~running /\ running' = TRUE
  /\ UNCHANGED <<mail, section, answer, kicks, busy, pending, nudged, seen, breaks>>

\* A turn ends; a steer it did not get to see starts the next one.  If a
\* wake-up is pending the idle event releases it and starts a listener.
CaptainIdle ==
  /\ running /\ running' = nudged /\ nudged' = FALSE /\ pending' = FALSE
  /\ \/ ~pending /\ UNCHANGED call
     \/ /\ pending
        /\ \E l \in Listener :
             /\ call[<<"wake", l>>].phase = "rest"
             /\ call' = [call EXCEPT ![<<"wake", l>>].phase = "read"]
  /\ UNCHANGED <<mail, lock, file, answer, kicks, busy, seen, breaks>>

\* The listener reads the inbox without the lock; with unread messages, and no
\* wake-up claimed meanwhile, it steers the captain with their number and goes
\* on to acknowledge them.
ListenerReads(l) ==
  LET a == <<"wake", l>> IN
  /\ call[a].phase = "read"
  /\ \/ /\ Unread(Captain) = {} \/ pending \/ "steer_error" \in Faults
        /\ Leave(a) /\ UNCHANGED captain
     \/ /\ Unread(Captain) # {} /\ ~pending
        /\ pending' = TRUE /\ running' = TRUE /\ nudged' = running
        /\ call' = [call EXCEPT ![a] = [phase |-> "ack", list |-> Unread(Captain), seen |-> {}]]
  /\ UNCHANGED <<mail, lock, file, answer, kicks, busy, seen, breaks>>

-----------------------------------------------------------------------------
(* agent_teams_status *)

\* A status call of the captain kicks the team first.  (It also waits for
\* these kicks; here it may read earlier.)
CaptainAsks ==
  LET a == <<"view", Captain>> IN
  /\ a \in Actor /\ call[a].phase = "rest"
  /\ Enter(a, "read") /\ kicks' = kicks \cup Member
  /\ UNCHANGED <<mail, lock, file, answer, busy, captain, seen, breaks>>

Acknowledge(a, list, show) ==
  call' = [call EXCEPT ![a] = IF list = {} THEN Rest
                              ELSE [phase |-> "ack", list |-> list, seen |-> show]]

\* The captain's result has the last messages, and only they are counted in it;
\* all that were read are acknowledged.
CaptainReads ==
  LET a == <<"view", Captain>> IN
  /\ a \in Actor /\ call[a].phase = "read"
  /\ Acknowledge(a, Unread(Captain), Latest(Unread(Captain), InboxWindow))
  /\ UNCHANGED <<mail, lock, file, answer, kicks, busy, captain, seen, breaks>>

\* A member's result has the number of its messages and the latest ...
MemberReads(m) ==
  LET a == <<"view", m>> IN
  /\ call[a].phase = "rest"
  /\ call' = [call EXCEPT ![a] = [phase |-> "reread", list |-> {}, seen |-> Unread(m)]]
  /\ UNCHANGED <<mail, lock, file, answer, kicks, busy, captain, seen, breaks>>

\* ... and those a second reading finds are acknowledged, be there more or none.
MemberRereads(m) ==
  LET a == <<"view", m>> IN
  /\ call[a].phase = "reread"
  /\ Acknowledge(a, Unread(m), call[a].seen)
  /\ late' = late \cup (Unread(m) \ call[a].seen)
  /\ IF Unread(m) = {} THEN Report(a) ELSE UNCHANGED <<shown, noticed>>
  /\ UNCHANGED <<mail, lock, file, answer, kicks, busy, captain, told, breaks>>

-----------------------------------------------------------------------------
(* Time, errors and restart *)

Break == breaks < MaxBreaks /\ breaks' = breaks + 1

\* A file cannot be read or written: the call ends with the error, what it has
\* claimed stays claimed.  The listener releases the wake-up, whoever claimed it.
FileError(a) ==
  /\ "io_error" \in Faults /\ Break /\ call[a].phase \in Locked \cup {"read", "reread", "reply"}
  /\ Leave(a)
  /\ answer' = [m \in Claude |-> IF a = <<"kick", m>> THEN NoAnswer ELSE answer[m]]
  /\ IF lock = a THEN lock' = None /\ file' = EmptyFile ELSE UNCHANGED <<lock, file>>
  /\ pending' = (pending /\ a[1] # "wake")
  /\ UNCHANGED <<mail, kicks, busy, running, nudged, seen>>

\* A minute passes after the claim of a message.  Unless the instance has slow
\* deliveries no call that holds the claim is still under way then.
Expire(k, i) ==
  /\ inbox[k][i] = "claimed"
  /\ lock # None => Box(lock) # k
  /\ "slow" \notin Faults => \A a \in Actor : i \notin call[a].list
  /\ inbox' = [inbox EXCEPT ![k][i] = "unread"]
  /\ UNCHANGED <<letter, section, answer, kicks, busy, captain, seen, breaks>>

Crash ==
  /\ "restart" \in Faults /\ Break
  /\ call' = [a \in Actor |-> Rest] /\ lock' = None /\ file' = EmptyFile
  /\ answer' = [m \in Claude |-> NoAnswer]
  /\ kicks' = {} /\ busy' = {}
  /\ pending' = FALSE /\ running' = FALSE /\ nudged' = FALSE
  /\ UNCHANGED <<mail, seen>>

-----------------------------------------------------------------------------
Next ==
  \/ \E i \in Msg, r \in Route : Post(i, r[1], r[2])
  \/ \E i \in Msg : SteerReport(i) \/ LeaveInMailbox(i)
  \/ \E a \in Actor : Take(a) \/ Commit(a) \/ DeliverAccepted(a) \/ DeliverRejected(a)
  \/ \E m \in Member : KickReadsMail(m) \/ MemberIdle(m)
  \/ \E m \in Claude : CliAnswers(m) \/ CliFails(m) \/ ReplyWrite(m) \/ ReplyDone(m)
  \/ \E m \in Claude, f \in Party, i \in Msg : ReplyRead(m, f, i)
  \/ CaptainTurn \/ CaptainIdle
  \/ \E l \in Listener : ListenerReads(l)
  \/ CaptainAsks \/ CaptainReads
  \/ \E m \in Viewer \cap Member : MemberReads(m) \/ MemberRereads(m)
  \/ \E a \in Actor : FileError(a)
  \/ \E k \in Party, i \in Msg : Expire(k, i)
  \/ Crash

Spec == Init /\ [][Next]_vars

\* Whoever waits for the team lock, somebody gets it; files, deliveries, turns
\* and listeners come to an end; a live recipient does not refuse the fallback,
\* nor the CLI fail, for ever; time passes; the captain polls
\* agent_teams_status, as its description asks.
Fairness ==
  /\ WF_vars(\E a \in Actor : Take(a) \/ Commit(a))
  /\ \A i \in Msg : LET a == <<"send", i>> IN
       WF_vars(SteerReport(i) \/ LeaveInMailbox(i) \/ DeliverAccepted(a) \/ DeliverRejected(a))
  /\ \A m \in Member : WF_vars(KickReadsMail(m)) /\ WF_vars(MemberIdle(m))
  /\ \A m \in Member \ Claude : SF_vars(DeliverAccepted(<<"kick", m>>))
  /\ \A m \in Claude : /\ SF_vars(CliAnswers(m))
                       /\ WF_vars(ReplyWrite(m) \/ ReplyDone(m) \/ \E f \in Party, i \in Msg : ReplyRead(m, f, i))
  /\ WF_vars(CaptainIdle) /\ WF_vars(\E l \in Listener : ListenerReads(l))
  /\ WF_vars(\E k \in Party, i \in Msg : Expire(k, i))
  /\ WF_vars(CaptainAsks \/ CaptainReads)
FairSpec == Spec /\ Fairness

-----------------------------------------------------------------------------
(* Properties *)

\* Every variable has its type, and the holder of the lock is in a section.
TypeOK ==
  /\ letter \in [Msg -> [from : Party, to : Party] \cup {NoLetter}]
  /\ inbox \in [Party -> File]
  /\ call \in [Actor -> Call]
  /\ lock \in Actor \cup {None} /\ file \in File
  /\ lock # None => call[lock].phase \in Locked
  /\ answer \in [Claude -> [owed : SUBSET (Party \cup {None}), id : Msg \cup {0}, file : File]]
  /\ kicks \subseteq Member /\ busy \subseteq Member
  /\ pending \in BOOLEAN /\ running \in BOOLEAN /\ nudged \in BOOLEAN
  /\ shown \subseteq Msg /\ noticed \subseteq Msg /\ late \subseteq Msg
  /\ told \in [Msg -> 0 .. MaxBreaks + 2] /\ breaks \in 0 .. MaxBreaks

\* No external member has begun to append a reply to this mailbox: every
\* version of the file so far was written under the lock.
UnderLock(k) == \A i \in Msg : letter[i].to = k => letter[i].from \notin Claude

\* Whatever calls overlap and whenever the process restarts, a message goes from
\* a mailbox only in a step that writes an external member's reply to it over a
\* newer version, or an older version over such a reply.
NoMailLost ==
  [][\A k \in Party, i \in Msg :
       inbox[k][i] # "absent" /\ inbox'[k][i] = "absent" =>
         \E r \in Msg : /\ letter[r].from \in Claude /\ letter[r].to = k
                       /\ inbox'[k][r] = "absent" <=> inbox[k][r] # "absent"]_vars

\* The two ways in which agent_teams_status acknowledges a message without a
\* trace in its result: a member's first reading had not found it, or InboxWindow
\* newer messages took the captain's result up.
Overlooked(i) ==
  /\ \E k \in Party : inbox[k][i] = "read"
  /\ \/ i \in late
     \/ /\ letter[i].to = Captain
        /\ Cardinality({j \in shown : j > i /\ letter[j].to = Captain}) >= InboxWindow

\* A message is marked read only if its recipient got it: the content, or at
\* least, from the idle listener or a status call, how many there were.  The
\* status tool breaks this for the messages it overlooks, and nothing else does.
ReadWasSeen ==
  \A k \in Party, i \in Msg :
    inbox[k][i] = "read" => i \in shown \cup noticed \/ Overlooked(i)

\* What the description of readAt says: shown, and not only counted.
ReadWasShown ==
  \A k \in Party, i \in Msg : inbox[k][i] = "read" => i \in shown

\* The delivery claim keeps the direct delivery and the fallback apart: a message
\* is handed to its live recipient once, and once more for each restart or
\* failing file operation.
DeliveredOnce ==
  \A i \in Msg : UnderLock(letter[i].to) => told[i] <= 1 + breaks

\* A message that is in a mailbox is eventually seen by its recipient, unless a
\* status call overlooks it or a reply written without the lock may overwrite it.
MailArrives ==
  \A i \in Msg :
    (letter[i] # NoLetter /\ inbox[letter[i].to][i] # "absent")
      ~> (i \in shown \cup noticed \/ Overlooked(i) \/ ~UnderLock(letter[i].to))
=============================================================================
