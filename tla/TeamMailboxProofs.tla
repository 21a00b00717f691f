--------------------------- MODULE TeamMailboxProofs ---------------------------
(*****************************************************************************)
(* Proofs about TeamMailbox, for any members, senders, messages, faults and *)
(* restarts: types, only a reply written without the lock makes messages go, *)
(* none is marked read unseen but those a status call overlooks, and unless *)
(* deliveries outlive their claims, nothing of a mailbox written under the   *)
(* lock is told twice.                                                       *)
(*****************************************************************************)
EXTENDS TeamMailbox, FiniteSetTheorems, WellFoundedInduction, TLAPS

\* The history of what was shown, counted and overlooked.
Marks == shown \subseteq Msg /\ noticed \subseteq Msg /\ late \subseteq Msg

\* A call of send_message that has begun has a letter.
Sent == \A i \in Msg : call[<<"send", i>>].phase # "rest" => letter[i] # NoLetter

TypeInv == TypeOK /\ Sent

LEMMA ActorKinds ==
  ASSUME NEW a \in Actor
  PROVE  \/ \E i \in Msg : a = <<"send", i>>
         \/ \E m \in Member : a = <<"kick", m>>
         \/ \E l \in Listener : a = <<"wake", l>>
         \/ \E k \in Viewer : a = <<"view", k>>
BY DEF Actor

LEMMA Actors ==
  /\ \A i \in Msg : <<"send", i>> \in Actor
  /\ \A m \in Member : <<"kick", m>> \in Actor
  /\ \A l \in Listener : <<"wake", l>> \in Actor
  /\ \A k \in Viewer : <<"view", k>> \in Actor
BY DEF Actor

\* The mailbox of a call under way is somebody's.
LEMMA BoxOfCall ==
  ASSUME TypeInv, NEW a \in Actor, call[a].phase # "rest"
  PROVE  Box(a) \in Party
<1>1. CASE \E i \in Msg : a = <<"send", i>>
  BY <1>1 DEF Box, TypeInv, TypeOK, Sent, NoLetter
<1>2. CASE \E m \in Member : a = <<"kick", m>>
  BY <1>2 DEF Box, Party
<1>3. CASE \E l \in Listener : a = <<"wake", l>>
  BY <1>3 DEF Box, Party
<1>4. CASE \E k \in Viewer : a = <<"view", k>>
  BY <1>4, NamesAssumption DEF Box, Party
<1> QED BY <1>1, <1>2, <1>3, <1>4, ActorKinds

LEMMA RewriteType ==
  ASSUME NEW f \in File, NEW op \in Locked, NEW list \in SUBSET Msg
  PROVE  Rewrite(f, op, list) \in File
BY DEF Rewrite, File, Locked, Mark, State

LEMMA LatestType == \A list, n : Latest(list, n) \subseteq list
BY DEF Latest

\* What the three ways to move a call on keep in order.
LEMMA EnterKeeps ==
  ASSUME TypeInv, NEW a \in Actor, NEW p \in Phase, Enter(a, p),
         call[a].phase # "rest", letter' = letter
  PROVE  /\ call' \in [Actor -> Call] /\ Sent'
         /\ call'[a].phase = p /\ call'[a].list = call[a].list
         /\ \A b \in Actor : b # a => call'[b] = call[b]
BY Actors DEF TypeInv, TypeOK, Sent, Enter, Call

LEMMA LeaveKeeps ==
  ASSUME TypeInv, NEW a \in Actor, Leave(a), letter' = letter
  PROVE  /\ call' \in [Actor -> Call] /\ Sent'
         /\ call'[a] = Rest
         /\ \A b \in Actor : b # a => call'[b] = call[b]
BY Actors DEF TypeInv, TypeOK, Sent, Leave, Call, Rest, Phase

LEMMA SetKeeps ==
  ASSUME TypeInv, NEW a \in Actor, NEW r \in Call,
         call' = [call EXCEPT ![a] = r],
         letter' = letter, a[1] = "send" => call[a].phase # "rest"
  PROVE  /\ call' \in [Actor -> Call] /\ Sent'
         /\ call'[a] = r
         /\ \A b \in Actor : b # a => call'[b] = call[b]
<1>1. \A b \in Actor : b # a => call'[b] = call[b]
  BY DEF TypeInv, TypeOK
<1>2. call'[a] = r /\ call' \in [Actor -> Call]
  BY DEF TypeInv, TypeOK
<1>3. ASSUME NEW i \in Msg, call'[<<"send", i>>].phase # "rest" PROVE letter'[i] # NoLetter
  <2>1. CASE a = <<"send", i>>
    BY <2>1 DEF TypeInv, Sent
  <2>2. CASE a # <<"send", i>>
    BY <2>2, <1>1, <1>3, Actors DEF TypeInv, Sent
  <2> QED BY <2>1, <2>2
<1> QED BY <1>1, <1>2, <1>3 DEF Sent

LEMMA SetStep ==
  ASSUME TypeInv, NEW a \in Actor, NEW r \in Call,
         call' = [call EXCEPT ![a] = r], letter' = letter, lock' = lock,
         a[1] = "send" => call[a].phase # "rest",
         call[a].phase \in Locked => r.phase \in Locked
  PROVE  /\ call' \in [Actor -> Call] /\ Sent'
         /\ lock' # None => call'[lock'].phase \in Locked
BY SetKeeps, NoneIsNobody DEF TypeInv, TypeOK

LEMMA ToldType ==
  ASSUME TypeInv, NEW list \in SUBSET Msg, Told(list)
  PROVE  told' \in [Msg -> 0 .. MaxBreaks + 2]
BY BoundsAssumption DEF TypeInv, TypeOK, Told

LEMMA TypeInit == Init => TypeInv
<1> SUFFICES ASSUME Init PROVE TypeInv
  OBVIOUS
<1>1. Rest \in Call /\ EmptyFile \in File
  BY DEF Rest, Call, Phase, EmptyFile, File, State
<1>2. NoAnswer \in [owed : SUBSET (Party \cup {None}), id : Msg \cup {0}, file : File]
  BY <1>1 DEF NoAnswer
<1>3. Sent
  BY Actors DEF Init, Sent, Rest
<1>4. /\ letter \in [Msg -> [from : Party, to : Party] \cup {NoLetter}]
      /\ inbox \in [Party -> File] /\ call \in [Actor -> Call]
      /\ answer \in [Claude -> [owed : SUBSET (Party \cup {None}), id : Msg \cup {0}, file : File]]
  BY <1>1, <1>2 DEF Init
<1>5. told \in [Msg -> 0 .. MaxBreaks + 2] /\ breaks \in 0 .. MaxBreaks
  BY BoundsAssumption DEF Init
<1> QED
  BY <1>1, <1>3, <1>4, <1>5 DEF Init, TypeInv, TypeOK

LEMMA TypeStep == TypeInv /\ [Next]_vars => TypeInv'
<1> SUFFICES ASSUME TypeInv, [Next]_vars PROVE TypeInv'
  OBVIOUS
<1> USE Actors DEF TypeInv
<1>0. TypeOK /\ Sent
  OBVIOUS
<1>1. ASSUME NEW i \in Msg, NEW r \in Route, Post(i, r[1], r[2]) PROVE TypeInv'
  <2> DEFINE a == <<"send", i>>
  <2>1. r[1] \in Party /\ r[2] \in Party
    BY NamesAssumption
  <2>2. letter' \in [Msg -> [from : Party, to : Party] \cup {NoLetter}]
    BY <1>1, <2>1 DEF Post, TypeOK
  <2>3. call' \in [Actor -> Call] /\ call'[a].phase = "append"
    BY <1>1 DEF Post, TypeOK, Call, Phase
  <2>4. Sent'
    BY <1>1, <2>1, NamesAssumption DEF Post, TypeOK, Sent, Fresh, NoLetter
  <2> QED
    BY <1>1, <2>1, <2>2, <2>3, <2>4 DEF Post, TypeOK, Locked, captain, seen
<1>2. ASSUME NEW i \in Msg, SteerReport(i) PROVE TypeInv'
  <2>1. call' \in [Actor -> Call] /\ Sent' /\ (lock # None => call'[lock].phase \in Locked)
    BY <1>2, EnterKeeps DEF SteerReport, Delivering, Phase, mail, TypeOK, Locked
  <2>2. told' \in [Msg -> 0 .. MaxBreaks + 2] /\ Marks'
    <3>1. call[<<"send", i>>].list \in SUBSET Msg
      BY DEF TypeOK, Call
    <3> QED BY <1>2, <3>1, ToldType DEF SteerReport, Show, seen, TypeOK, Marks
  <2> QED
    BY <1>2, <2>1, <2>2 DEF SteerReport, TypeOK, mail, captain, Marks
<1>3. ASSUME NEW i \in Msg, LeaveInMailbox(i) PROVE TypeInv'
  <2>1. call' \in [Actor -> Call] /\ Sent' /\ (lock # None => call'[lock].phase \in Locked)
    BY <1>3, EnterKeeps DEF LeaveInMailbox, Delivering, Phase, mail, TypeOK, Locked
  <2> QED
    BY <1>3, <2>1 DEF LeaveInMailbox, TypeOK, mail, captain, seen
<1>4. ASSUME NEW a \in Actor, Take(a) PROVE TypeInv'
  <2>1. file' \in File
    BY <1>4, BoxOfCall DEF Take, Locked, TypeOK
  <2> QED
    BY <1>4, <2>1 DEF Take, TypeOK, Sent, mail, captain, seen
<1>5. ASSUME NEW a \in Actor, Commit(a) PROVE TypeInv'
  <2>1. call[a].phase \in Locked /\ call[a] \in Call /\ a # None
    BY <1>5, NoneIsNobody DEF Commit, TypeOK
  <2>2. inbox' \in [Party -> File]
    BY <1>5, <2>1, RewriteType DEF Commit, TypeOK, Call
  <2>3. call' \in [Actor -> Call] /\ Sent'
    BY <1>5, <2>1, EnterKeeps, LeaveKeeps DEF Commit, Phase, Locked
  <2>4. Marks'
    BY <1>5, <2>1, LatestType DEF Commit, Report, TypeOK, Call, Marks
  <2>5. kicks' \subseteq Member
    <3>1. {Box(a)} \cap Claude \subseteq Member
      BY NamesAssumption
    <3>2. kicks' = kicks \/ kicks' = kicks \cup ({Box(a)} \cap Claude)
      BY <1>5 DEF Commit
    <3> QED BY <3>1, <3>2 DEF TypeOK
  <2>6. file' \in File
    BY <1>5 DEF Commit, EmptyFile, File, State
  <2> QED
    BY <1>5, <2>2, <2>3, <2>4, <2>5, <2>6 DEF Commit, TypeOK, captain, Marks
<1>6. ASSUME NEW a \in Actor, DeliverAccepted(a) PROVE TypeInv'
  <2>1. Box(a) \in Member /\ call[a] \in Call
    BY <1>6 DEF DeliverAccepted, Delivering, TypeOK
  <2>2. call' \in [Actor -> Call] /\ Sent' /\ (lock # None => call'[lock].phase \in Locked)
    BY <1>6, EnterKeeps DEF DeliverAccepted, Delivering, Phase, mail, TypeOK, Locked
  <2>3. told' \in [Msg -> 0 .. MaxBreaks + 2] /\ Marks'
    BY <1>6, <2>1, ToldType DEF DeliverAccepted, Show, seen, TypeOK, Call, Marks
  <2> QED
    BY <1>6, <2>1, <2>2, <2>3 DEF DeliverAccepted, TypeOK, mail, captain, Marks
<1>7. ASSUME NEW a \in Actor, DeliverRejected(a) PROVE TypeInv'
  <2>1. call' \in [Actor -> Call] /\ Sent' /\ (lock # None => call'[lock].phase \in Locked)
    BY <1>7, EnterKeeps DEF DeliverRejected, Delivering, Phase, mail, TypeOK, Locked
  <2> QED
    BY <1>7, <2>1 DEF DeliverRejected, TypeOK, mail, captain, seen
<1>8. ASSUME NEW m \in Member, KickReadsMail(m) PROVE TypeInv'
  <2> DEFINE r == [phase |-> "claim", list |-> Unread(m), seen |-> {}]
  <2>1. r \in Call
    BY DEF Call, Phase, Unread
  <2>2. <<"kick", m>>[1] # "send"
    OBVIOUS
  <2>3. call' \in [Actor -> Call] /\ Sent' /\ (lock' # None => call'[lock'].phase \in Locked)
    <3>1. CASE call' = call
      BY <3>1, <1>8 DEF KickReadsMail, TypeOK, Sent, mail
    <3>2. CASE call' = [call EXCEPT ![<<"kick", m>>] = r]
      <4>1. r.phase \in Locked
        BY DEF Locked
      <4> HIDE DEF r
      <4> QED BY <4>1, <3>2, <2>1, <2>2, <1>8, SetStep DEF KickReadsMail, mail
    <3> QED BY <3>1, <3>2, <1>8 DEF KickReadsMail
  <2> QED
    BY <1>8, <2>3 DEF KickReadsMail, TypeOK, mail, captain, seen
<1>9. ASSUME NEW m \in Member, MemberIdle(m) PROVE TypeInv'
  BY <1>9 DEF MemberIdle, TypeOK, Sent, mail, section, captain, seen
<1>10. ASSUME NEW m \in Claude, CliAnswers(m) PROVE TypeInv'
  <2> DEFINE a == <<"kick", m>>
  <2>1. m \in Member /\ a \in Actor /\ call[a] \in Call
    BY NamesAssumption DEF TypeOK
  <2>2. call' \in [Actor -> Call] /\ Sent' /\ (lock # None => call'[lock].phase \in Locked)
    BY <1>10, <2>1, EnterKeeps DEF CliAnswers, Delivering, Phase, mail, TypeOK, Locked
  <2>3. told' \in [Msg -> 0 .. MaxBreaks + 2] /\ Marks'
    BY <1>10, <2>1, ToldType DEF CliAnswers, Show, seen, TypeOK, Call, Marks
  <2>4. {letter[i].from : i \in call[a].list} \subseteq Party \cup {None}
    BY <2>1 DEF TypeOK, Call, NoLetter
  <2>5. answer' \in [Claude -> [owed : SUBSET (Party \cup {None}), id : Msg \cup {0}, file : File]]
    BY <1>10, <2>4 DEF CliAnswers, TypeOK
  <2> QED
    BY <1>10, <2>1, <2>2, <2>3, <2>5 DEF CliAnswers, TypeOK, mail, captain, Marks
<1>11. ASSUME NEW m \in Claude, CliFails(m) PROVE TypeInv'
  <2>1. m \in Member /\ <<"kick", m>> \in Actor
    BY NamesAssumption
  <2>2. call' \in [Actor -> Call] /\ Sent' /\ (lock # None => call'[lock].phase \in Locked)
    BY <1>11, <2>1, EnterKeeps DEF CliFails, Delivering, Phase, mail, TypeOK, Locked
  <2> QED
    BY <1>11, <2>1, <2>2 DEF CliFails, TypeOK, mail, captain, seen
<1>12. ASSUME NEW m \in Claude, ReplyWrite(m) PROVE TypeInv'
  <2>1. answer[m].id \in Msg /\ answer[m].file \in File
    BY <1>12 DEF ReplyWrite, TypeOK
  <2>2. [answer[m].file EXCEPT ![answer[m].id] = "unread"] \in File
    BY <2>1 DEF File, State
  <2>3. inbox' \in [Party -> File]
    BY <1>12, <2>2 DEF ReplyWrite, TypeOK
  <2>4. EmptyFile \in File
    BY DEF EmptyFile, File, State
  <2>5. answer' \in [Claude -> [owed : SUBSET (Party \cup {None}), id : Msg \cup {0}, file : File]]
    BY <1>12, <2>4 DEF ReplyWrite, TypeOK
  <2> QED
    BY <1>12, <2>3, <2>5 DEF ReplyWrite, TypeOK, Sent, section, captain, seen
<1>13. ASSUME NEW m \in Claude, ReplyDone(m) PROVE TypeInv'
  <2>1. m \in Member /\ <<"kick", m>> \in Actor
    BY NamesAssumption
  <2>2. call' \in [Actor -> Call] /\ Sent' /\ (lock # None => call'[lock].phase \in Locked)
    BY <1>13, <2>1, EnterKeeps DEF ReplyDone, Phase, mail, TypeOK, Locked
  <2>3. NoAnswer \in [owed : SUBSET (Party \cup {None}), id : Msg \cup {0}, file : File]
    BY DEF NoAnswer, EmptyFile, File, State
  <2>4. answer' \in [Claude -> [owed : SUBSET (Party \cup {None}), id : Msg \cup {0}, file : File]]
    BY <1>13, <2>3 DEF ReplyDone, TypeOK
  <2> QED
    BY <1>13, <2>2, <2>4 DEF ReplyDone, TypeOK, mail, captain, seen
<1>14. ASSUME NEW m \in Claude, NEW f \in Party, NEW i \in Msg, ReplyRead(m, f, i) PROVE TypeInv'
  <2>1. m \in Party
    BY NamesAssumption DEF Party
  <2>2. letter' \in [Msg -> [from : Party, to : Party] \cup {NoLetter}]
    BY <1>14, <2>1 DEF ReplyRead, TypeOK
  <2>3. answer' \in [Claude -> [owed : SUBSET (Party \cup {None}), id : Msg \cup {0}, file : File]]
    BY <1>14 DEF ReplyRead, TypeOK
  <2>4. Sent'
    BY <1>14, <2>1, NamesAssumption DEF ReplyRead, section, Sent, TypeOK, NoLetter
  <2> QED
    BY <1>14, <2>2, <2>3, <2>4 DEF ReplyRead, TypeOK, section, captain, seen
<1>15. ASSUME CaptainTurn PROVE TypeInv'
  BY <1>15 DEF CaptainTurn, TypeOK, Sent, mail, section, seen
<1>16. ASSUME CaptainIdle PROVE TypeInv'
  <2>1. call' \in [Actor -> Call] /\ Sent' /\ (lock # None => call'[lock].phase \in Locked)
    <3>1. CASE call' = call
      BY <3>1, <1>16 DEF CaptainIdle, TypeOK, Sent, mail
    <3>2. ASSUME NEW l \in Listener, call[<<"wake", l>>].phase = "rest",
                 call' = [call EXCEPT ![<<"wake", l>>].phase = "read"]
          PROVE  call' \in [Actor -> Call] /\ Sent' /\ (lock # None => call'[lock].phase \in Locked)
      <4> DEFINE r == [call[<<"wake", l>>] EXCEPT !.phase = "read"]
      <4>1. r \in Call /\ call' = [call EXCEPT ![<<"wake", l>>] = r]
        BY <3>2 DEF TypeOK, Call, Phase
      <4>2. <<"wake", l>>[1] # "send" /\ letter' = letter
        BY <1>16 DEF CaptainIdle, mail
      <4> HIDE DEF r
      <4>3. call' \in [Actor -> Call] /\ Sent'
            /\ \A b \in Actor : b # <<"wake", l>> => call'[b] = call[b]
        BY <4>1, <4>2, SetKeeps
      <4> QED BY <4>3, <3>2 DEF TypeOK, Locked
    <3> QED BY <3>1, <3>2, <1>16 DEF CaptainIdle
  <2> QED
    BY <1>16, <2>1 DEF CaptainIdle, TypeOK, mail, seen
<1>17. ASSUME NEW l \in Listener, ListenerReads(l) PROVE TypeInv'
  <2> DEFINE a == <<"wake", l>>
             r == [phase |-> "ack", list |-> Unread(Captain), seen |-> {}]
  <2>1. r \in Call /\ a[1] # "send" /\ a \in Actor
    BY DEF Call, Phase, Unread
  <2>2. call' \in [Actor -> Call] /\ Sent' /\ (lock' # None => call'[lock'].phase \in Locked)
    <3>1. call[a].phase \notin Locked /\ Rest \in Call
      BY <1>17 DEF ListenerReads, Locked, Rest, Call, Phase
    <3>2. CASE Leave(a)
      BY <3>1, <3>2, <1>17, <2>1, SetStep DEF ListenerReads, mail, Leave
    <3>3. CASE call' = [call EXCEPT ![a] = r]
      <4> HIDE DEF a, r
      <4> QED BY <3>1, <3>3, <1>17, <2>1, SetStep DEF ListenerReads, mail
    <3> QED BY <3>2, <3>3, <1>17 DEF ListenerReads
  <2> QED
    BY <1>17, <2>2 DEF ListenerReads, TypeOK, mail, captain, seen
<1>18. ASSUME CaptainAsks PROVE TypeInv'
  <2> DEFINE a == <<"view", Captain>>
             r == [call[a] EXCEPT !.phase = "read"]
  <2>1. r \in Call /\ a[1] # "send" /\ a \in Actor /\ call' = [call EXCEPT ![a] = r]
    BY <1>18 DEF CaptainAsks, TypeOK, Call, Phase, Enter
  <2>2. call[a].phase \notin Locked /\ lock' = lock /\ letter' = letter
    BY <1>18 DEF CaptainAsks, Locked, mail
  <2> HIDE DEF a, r
  <2>3. call' \in [Actor -> Call] /\ Sent' /\ (lock' # None => call'[lock'].phase \in Locked)
    BY <2>1, <2>2, SetStep
  <2> QED
    BY <1>18, <2>3 DEF CaptainAsks, TypeOK, mail, captain, seen
<1>19. ASSUME NEW a \in Actor, NEW list \in SUBSET Msg, NEW show \in SUBSET Msg,
             Acknowledge(a, list, show), a[1] = "view", call[a].phase \notin Locked,
             Marks', UNCHANGED <<mail, lock, file, answer, kicks, busy, captain, told, breaks>>
      PROVE  TypeInv'
  <2> DEFINE r == IF list = {} THEN Rest ELSE [phase |-> "ack", list |-> list, seen |-> show]
  <2>1. r \in Call /\ call' = [call EXCEPT ![a] = r]
    BY <1>19 DEF Acknowledge, Call, Phase, Rest
  <2> HIDE DEF r
  <2>2. call' \in [Actor -> Call] /\ Sent' /\ (lock' # None => call'[lock'].phase \in Locked)
    BY <1>19, <2>1, SetStep DEF mail
  <2> QED
    BY <1>19, <2>2 DEF TypeOK, mail, captain, Marks
<1>20. ASSUME CaptainReads PROVE TypeInv'
  <2>1. Latest(Unread(Captain), InboxWindow) \in SUBSET Msg /\ Unread(Captain) \in SUBSET Msg
    BY DEF Latest, Unread
  <2>2. Marks' /\ told' = told
    BY <1>20 DEF CaptainReads, seen, TypeOK, Marks
  <2> QED
    BY <1>19, <1>20, <2>1, <2>2 DEF CaptainReads, Locked
<1>21. ASSUME NEW m \in Viewer \cap Member, MemberReads(m) PROVE TypeInv'
  <2> DEFINE a == <<"view", m>>
             r == [phase |-> "reread", list |-> {}, seen |-> Unread(m)]
  <2>1. r \in Call /\ a[1] # "send" /\ a \in Actor /\ call[a].phase \notin Locked
        /\ call' = [call EXCEPT ![a] = r]
    BY <1>21 DEF MemberReads, Call, Phase, Unread, Locked
  <2> HIDE DEF a, r
  <2>2. call' \in [Actor -> Call] /\ Sent' /\ (lock' # None => call'[lock'].phase \in Locked)
    BY <1>21, <2>1, SetStep DEF MemberReads, mail
  <2> QED
    BY <1>21, <2>2 DEF MemberReads, TypeOK, mail, captain, seen
<1>22. ASSUME NEW m \in Viewer \cap Member, MemberRereads(m) PROVE TypeInv'
  <2>1. Unread(m) \in SUBSET Msg /\ call[<<"view", m>>].seen \in SUBSET Msg
    BY DEF Unread, TypeOK, Call
  <2>2. Marks'
    BY <1>22, <2>1, LatestType DEF MemberRereads, Report, TypeOK, Marks
  <2> QED
    BY <1>19, <1>22, <2>1, <2>2 DEF MemberRereads, Locked
<1>23. ASSUME NEW a \in Actor, FileError(a) PROVE TypeInv'
  <2>1. call' \in [Actor -> Call] /\ Sent' /\ \A b \in Actor : b # a => call'[b] = call[b]
    BY <1>23, LeaveKeeps DEF FileError, mail
  <2>2. file' \in File /\ lock' \in Actor \cup {None}
    BY <1>23 DEF FileError, TypeOK, EmptyFile, File, State
  <2>3. lock' # None => call'[lock'].phase \in Locked
    BY <1>23, <2>1 DEF FileError, TypeOK
  <2>4. answer' \in [Claude -> [owed : SUBSET (Party \cup {None}), id : Msg \cup {0}, file : File]]
    BY <1>23 DEF FileError, TypeOK, NoAnswer, EmptyFile, File, State
  <2>5. pending' \in BOOLEAN
    BY <1>23 DEF FileError
  <2>6. breaks' \in 0 .. MaxBreaks
    BY <1>23, BoundsAssumption DEF FileError, Break, TypeOK
  <2> QED
    BY <1>23, <2>1, <2>2, <2>3, <2>4, <2>5, <2>6 DEF FileError, TypeOK, mail, seen
<1>24. ASSUME NEW k \in Party, NEW i \in Msg, Expire(k, i) PROVE TypeInv'
  <2>1. inbox' \in [Party -> File]
    BY <1>24 DEF Expire, TypeOK, File, State
  <2> QED
    BY <1>24, <2>1 DEF Expire, TypeOK, Sent, section, captain, seen
<1>25. ASSUME Crash PROVE TypeInv'
  <2>1. Rest \in Call /\ EmptyFile \in File
    BY DEF Rest, Call, Phase, EmptyFile, File, State
  <2>2. call' \in [Actor -> Call] /\ Sent'
    BY <1>25, <2>1 DEF Crash, Sent, Rest
  <2>3. answer' \in [Claude -> [owed : SUBSET (Party \cup {None}), id : Msg \cup {0}, file : File]]
    BY <1>25, <2>1 DEF Crash, NoAnswer
  <2>4. breaks' \in 0 .. MaxBreaks
    BY <1>25, BoundsAssumption DEF Crash, Break, TypeOK
  <2> QED
    BY <1>25, <2>1, <2>2, <2>3, <2>4 DEF Crash, TypeOK, mail, seen
<1>26. ASSUME UNCHANGED vars PROVE TypeInv'
  BY <1>26 DEF vars, TypeOK, Sent, mail, section, captain, seen
<1> QED
  BY <1>1, <1>2, <1>3, <1>4, <1>5, <1>6, <1>7, <1>8, <1>9, <1>10, <1>11, <1>12, <1>13,
     <1>14, <1>15, <1>16, <1>17, <1>18, <1>20, <1>21, <1>22, <1>23, <1>24, <1>25, <1>26 DEF Next

\* Every variable keeps its type, and whoever holds the team lock is in a locked
\* section, whatever fails.
THEOREM TypeCorrect == Spec => []TypeOK
BY TypeInit, TypeStep, PTL DEF Spec, TypeInv
-----------------------------------------------------------------------------
(* What a step may do to letters, calls and files *)

\* A letter that exists stays as it is, so an inbox under the lock was so before,
\* and a call's mailbox stays the same.
LEMMA LettersStay ==
  ASSUME TypeInv, [Next]_vars
  PROVE  \A j \in Msg : letter[j] # NoLetter => letter'[j] = letter[j]
<1>1. ASSUME NEW i \in Msg, NEW r \in Route, Post(i, r[1], r[2])
      PROVE  \A j \in Msg : letter[j] # NoLetter => letter'[j] = letter[j]
  BY <1>1 DEF Post, Fresh, TypeInv, TypeOK
<1>2. ASSUME NEW m \in Claude, NEW f \in Party, NEW i \in Msg, ReplyRead(m, f, i)
      PROVE  \A j \in Msg : letter[j] # NoLetter => letter'[j] = letter[j]
  BY <1>2 DEF ReplyRead, Fresh, TypeInv, TypeOK
<1>3. CASE letter' = letter
  BY <1>3
<1>4. (\E i \in Msg, r \in Route : Post(i, r[1], r[2]))
      \/ (\E m \in Claude, f \in Party, i \in Msg : ReplyRead(m, f, i)) \/ letter' = letter
  BY DEF Next, vars, mail, SteerReport, LeaveInMailbox, Take, Commit, DeliverAccepted, DeliverRejected,
     KickReadsMail, MemberIdle, CliAnswers, CliFails, ReplyWrite, ReplyDone, CaptainTurn, CaptainIdle,
     ListenerReads, CaptainAsks, CaptainReads, MemberReads, MemberRereads, FileError, Expire, Crash
<1> QED
  BY <1>1, <1>2, <1>3, <1>4

LEMMA LocksGoBack ==
  ASSUME TypeInv, [Next]_vars, NEW k \in Party, UnderLock(k)'
  PROVE  UnderLock(k)
<1>1. ASSUME NEW i \in Msg, letter[i].to = k PROVE letter'[i] = letter[i]
  <2>1. letter[i] # NoLetter
    BY <1>1, NamesAssumption DEF NoLetter
  <2> QED BY <2>1, LettersStay
<1> QED
  BY <1>1 DEF UnderLock

LEMMA BoxStays ==
  ASSUME TypeInv, [Next]_vars, NEW a \in Actor, call[a].phase # "rest"
  PROVE  Box(a)' = Box(a)
<1>1. ASSUME NEW i \in Msg, a = <<"send", i>> PROVE Box(a)' = Box(a)
  BY <1>1, LettersStay DEF Box, TypeInv, Sent
<1>2. CASE ~\E i \in Msg : a = <<"send", i>>
  BY <1>2, ActorKinds DEF Box
<1> QED BY <1>1, <1>2

\* Calls that show messages before they acknowledge them; a status call and the
\* idle listener do both in one step.
Direct(a) == a[1] \in {"send", "kick"}
Done == {"reply", "ack"}

\* Which calls go through which phases; a send handles its own message only.
Roles ==
  \A a \in Actor :
    /\ Direct(a) \/ call[a].phase \in {"rest", "read", "reread", "ack"}
    /\ a[1] = "send" => call[a].phase # "claim" /\ call[a].list \subseteq {a[2]}

\* Every record, every message a call handles and every version of a file that
\* somebody has read is of the mailbox it was written to.
Places ==
  /\ \A i \in Msg : letter[i] = NoLetter => told[i] = 0
  /\ \A k \in Party, i \in Msg : inbox[k][i] # "absent" => letter[i].to = k
  /\ \A a \in Actor, i \in Msg : i \in call[a].list =>
       letter[i].to = Box(a) /\ letter[i] # NoLetter /\ call[a].phase \notin {"rest", "read", "reread"}
  /\ \A i \in Msg : file[i] # "absent" => lock # None /\ letter[i].to = Box(lock)
  /\ \A m \in Claude, i \in Msg : answer[m].file[i] # "absent" =>
       answer[m].id # 0 /\ letter[i].to = letter[answer[m].id].to

\* How a step may change a call: it goes on with its list, ends or starts over,
\* or begins with a new message, with those it has read, or to acknowledge them.
Dropped(a) ==
  /\ call'[a].list = {}
  /\ call'[a].phase = "rest" \/ (~Direct(a) /\ call'[a].phase \in {"read", "reread"})
Moved(a) ==
  /\ Direct(a) /\ call'[a].list = call[a].list
  /\ call[a].phase \in {"append", "claim", "deliver", "reply"}
  /\ call'[a].phase \in {"deliver", "reply", "ack", "release"}
Posted(a) ==
  \E i \in Msg : /\ a = <<"send", i>> /\ letter'[i] # NoLetter /\ letter'[i].from \notin Claude
                 /\ call'[a].list = {i} /\ call'[a].phase = "append"
Claimed(a) ==
  \E m \in Member : /\ a = <<"kick", m>> /\ letter' = letter
                    /\ call'[a].list = Unread(m) /\ call'[a].phase = "claim"
Counted(a) ==
  /\ ~Direct(a) /\ Box(a) \in Party /\ letter' = letter
  /\ call'[a].list = Unread(Box(a)) /\ call'[a].phase = "ack"
  /\ a[1] = "view" => IF a[2] = Captain THEN CaptainReads ELSE MemberRereads(a[2])
Shaped(a) ==
  call'[a] = call[a] \/ Dropped(a) \/ Moved(a) \/ Posted(a) \/ Claimed(a) \/ Counted(a)

LEMMA SetShape ==
  ASSUME TypeInv, NEW a \in Actor, NEW r, call' = [call EXCEPT ![a] = r]
  PROVE  call'[a] = r /\ \A b \in Actor : b # a => call'[b] = call[b]
BY DEF TypeInv, TypeOK

LEMMA EnterShape ==
  ASSUME TypeInv, NEW a \in Actor, NEW p, Enter(a, p)
  PROVE  /\ call'[a].phase = p /\ call'[a].list = call[a].list
         /\ \A b \in Actor : b # a => call'[b] = call[b]
BY DEF TypeInv, TypeOK, Call, Enter

LEMMA LeaveShape ==
  ASSUME TypeInv, NEW a \in Actor, Leave(a)
  PROVE  /\ call'[a].phase = "rest" /\ call'[a].list = {}
         /\ \A b \in Actor : b # a => call'[b] = call[b]
BY DEF TypeInv, TypeOK, Rest, Leave

\* The calls of captain and members that only acknowledge.
LEMMA Acknowledges ==
  ASSUME TypeInv, NEW k \in Party, <<"view", k>> \in Actor, NEW show, letter' = letter,
         Acknowledge(<<"view", k>>, Unread(k), show),
         IF k = Captain THEN CaptainReads ELSE MemberRereads(k)
  PROVE  \A a \in Actor : Shaped(a)
<1> DEFINE a == <<"view", k>>
           r == IF Unread(k) = {} THEN Rest ELSE [phase |-> "ack", list |-> Unread(k), seen |-> show]
<1>1. call' = [call EXCEPT ![a] = r] /\ a \in Actor
  BY DEF Acknowledge
<1>2. ~Direct(a) /\ Box(a) = k /\ a[2] = k
  BY DEF Direct, Box
<1>3. \/ r.list = {} /\ r.phase = "rest"
      \/ r.list = Unread(k) /\ r.phase = "ack"
  BY DEF Rest
<1> HIDE DEF r
<1>4. call'[a] = r /\ \A b \in Actor : b # a => call'[b] = call[b]
  BY <1>1, SetShape
<1> QED
  BY <1>2, <1>3, <1>4 DEF Shaped, Dropped, Counted

LEMMA ShapeStep ==
  ASSUME TypeInv, Roles, Places, [Next]_vars
  PROVE  \A a \in Actor : Shaped(a)
<1> USE Actors
<1>0. TypeOK
  BY DEF TypeInv
<1>a. CASE call' = call
  BY <1>a DEF Shaped
<1>b. ASSUME NEW a \in Actor, Leave(a) PROVE \A b \in Actor : Shaped(b)
  BY <1>b, LeaveShape DEF Shaped, Dropped
<1>c. ASSUME NEW a \in Actor, NEW p \in {"deliver", "reply", "ack", "release"}, Enter(a, p),
             call[a].phase \in {"append", "claim", "deliver", "reply"}
      PROVE  \A b \in Actor : Shaped(b)
  <2>1. Direct(a)
    BY <1>c DEF Roles
  <2> QED BY <1>c, <2>1, EnterShape DEF Shaped, Moved
<1>d. ASSUME NEW a \in Actor, Enter(a, "read"), call[a].phase = "rest", ~Direct(a)
      PROVE  \A b \in Actor : Shaped(b)
  <2>1. call[a].list = {}
    BY <1>d, <1>0 DEF Places, TypeOK, Call
  <2> QED BY <1>d, <2>1, EnterShape DEF Shaped, Dropped
<1>1. ASSUME NEW i \in Msg, NEW r \in Route, Post(i, r[1], r[2]) PROVE \A b \in Actor : Shaped(b)
  <2> DEFINE c == [phase |-> "append", list |-> {i}, seen |-> {}]
  <2>1. c.phase = "append" /\ c.list = {i} /\ call' = [call EXCEPT ![<<"send", i>>] = c]
    BY <1>1 DEF Post
  <2> HIDE DEF c
  <2>2. letter'[i] # NoLetter /\ letter'[i].from \notin Claude
    BY <1>1, <1>0, NamesAssumption DEF Post, TypeOK, NoLetter
  <2>3. call'[<<"send", i>>] = c /\ \A b \in Actor : b # <<"send", i>> => call'[b] = call[b]
    BY <2>1, SetShape
  <2> QED BY <2>1, <2>2, <2>3 DEF Shaped, Posted
<1>2. CASE \E i \in Msg : SteerReport(i) \/ LeaveInMailbox(i)
  BY <1>2, <1>c DEF SteerReport, LeaveInMailbox, Delivering
<1>3. CASE \E a \in Actor : Take(a)
  BY <1>3, <1>a DEF Take
<1>4. ASSUME NEW a \in Actor, Commit(a) PROVE \A b \in Actor : Shaped(b)
  BY <1>4, <1>b, <1>c DEF Commit
<1>5. CASE \E a \in Actor : DeliverAccepted(a) \/ DeliverRejected(a)
  BY <1>5, <1>c DEF DeliverAccepted, DeliverRejected, Delivering
<1>6. ASSUME NEW m \in Member, KickReadsMail(m) PROVE \A b \in Actor : Shaped(b)
  <2> DEFINE a == <<"kick", m>>
             c == [phase |-> "claim", list |-> Unread(m), seen |-> {}]
  <2>1. CASE call' = [call EXCEPT ![a] = c]
    <3>1. c.phase = "claim" /\ c.list = Unread(m) /\ letter' = letter
      BY <1>6 DEF KickReadsMail, mail
    <3> HIDE DEF c
    <3>2. call'[a] = c /\ \A b \in Actor : b # a => call'[b] = call[b]
      BY <2>1, SetShape
    <3> QED BY <3>1, <3>2 DEF Shaped, Claimed
  <2> QED BY <2>1, <1>a, <1>6 DEF KickReadsMail
<1>7. CASE \E m \in Member : MemberIdle(m)
  BY <1>7, <1>a DEF MemberIdle, section
<1>8. ASSUME NEW m \in Claude, CliAnswers(m) \/ CliFails(m) \/ ReplyDone(m)
      PROVE  \A b \in Actor : Shaped(b)
  <2>1. <<"kick", m>> \in Actor
    BY NamesAssumption
  <2> QED BY <1>8, <2>1, <1>c DEF CliAnswers, CliFails, ReplyDone, Delivering
<1>9. CASE \/ \E m \in Claude : ReplyWrite(m)
           \/ \E m \in Claude, f \in Party, i \in Msg : ReplyRead(m, f, i)
           \/ CaptainTurn \/ \E k \in Party, i \in Msg : Expire(k, i)
           \/ UNCHANGED vars
  BY <1>9, <1>a DEF ReplyWrite, ReplyRead, CaptainTurn, Expire, section, vars
<1>10. CASE CaptainIdle
  <2>1. ASSUME NEW l \in Listener, call[<<"wake", l>>].phase = "rest",
               call' = [call EXCEPT ![<<"wake", l>>].phase = "read"]
        PROVE  \A b \in Actor : Shaped(b)
    BY <2>1, <1>d DEF Enter, Direct
  <2> QED BY <2>1, <1>10, <1>a DEF CaptainIdle
<1>11. ASSUME NEW l \in Listener, ListenerReads(l) PROVE \A b \in Actor : Shaped(b)
  <2> DEFINE a == <<"wake", l>>
             c == [phase |-> "ack", list |-> Unread(Captain), seen |-> {}]
  <2>1. CASE call' = [call EXCEPT ![a] = c]
    <3>1. c.phase = "ack" /\ c.list = Unread(Captain) /\ letter' = letter
      BY <1>11 DEF ListenerReads, mail
    <3>2. ~Direct(a) /\ Box(a) = Captain /\ Captain \in Party /\ a[1] # "view"
      BY DEF Direct, Box, Party
    <3> HIDE DEF c
    <3>3. call'[a] = c /\ \A b \in Actor : b # a => call'[b] = call[b]
      BY <2>1, SetShape
    <3> QED BY <3>1, <3>2, <3>3 DEF Shaped, Counted
  <2> QED BY <2>1, <1>b, <1>11 DEF ListenerReads
<1>12. CASE CaptainAsks
  BY <1>12, <1>d DEF CaptainAsks, Direct
<1>13. CASE CaptainReads
  <2>1. Captain \in Party /\ <<"view", Captain>> \in Actor
    BY <1>13 DEF Party, CaptainReads
  <2> QED BY <1>13, <2>1, Acknowledges DEF CaptainReads, mail
<1>14. ASSUME NEW m \in Viewer \cap Member, MemberReads(m) PROVE \A b \in Actor : Shaped(b)
  <2> DEFINE a == <<"view", m>>
             c == [phase |-> "reread", list |-> {}, seen |-> Unread(m)]
  <2>1. c.phase = "reread" /\ c.list = {} /\ ~Direct(a) /\ call' = [call EXCEPT ![a] = c]
    BY <1>14 DEF MemberReads, Direct
  <2> HIDE DEF c
  <2>2. call'[a] = c /\ \A b \in Actor : b # a => call'[b] = call[b]
    BY <2>1, SetShape
  <2> QED BY <2>1, <2>2 DEF Shaped, Dropped
<1>15. ASSUME NEW m \in Viewer \cap Member, MemberRereads(m) PROVE \A b \in Actor : Shaped(b)
  <2>1. m \in Party /\ <<"view", m>> \in Actor /\ m # Captain
    BY NamesAssumption DEF Party
  <2> QED BY <1>15, <2>1, Acknowledges DEF MemberRereads, mail
<1>16. CASE \E a \in Actor : FileError(a)
  BY <1>16, <1>b DEF FileError
<1>17. CASE Crash
  BY <1>17 DEF Crash, Rest, Shaped, Dropped
<1> QED
  BY <1>1, <1>2, <1>3, <1>4, <1>5, <1>6, <1>7, <1>8, <1>9, <1>10, <1>11, <1>12, <1>13, <1>14,
     <1>15, <1>16, <1>17 DEF Next

LEMMA RolesStep ==
  ASSUME TypeInv, Roles, Places, [Next]_vars
  PROVE  Roles'
<1> SUFFICES ASSUME NEW a \in Actor
             PROVE  /\ Direct(a) \/ call'[a].phase \in {"rest", "read", "reread", "ack"}
                    /\ a[1] = "send" => call'[a].phase # "claim" /\ call'[a].list \subseteq {a[2]}
  BY DEF Roles, Direct
<1>1. Shaped(a)
  BY ShapeStep
<1>2. /\ Direct(a) \/ call[a].phase \in {"rest", "read", "reread", "ack"}
      /\ a[1] = "send" => call[a].phase # "claim" /\ call[a].list \subseteq {a[2]}
  BY DEF Roles
<1>3. CASE call'[a] = call[a]
  BY <1>2, <1>3
<1>4. CASE Dropped(a)
  BY <1>4 DEF Dropped
<1>5. CASE Moved(a)
  BY <1>2, <1>5 DEF Moved
<1>6. CASE Posted(a)
  BY <1>6 DEF Posted, Direct
<1>7. CASE Claimed(a)
  BY <1>7 DEF Claimed, Direct
<1>8. CASE Counted(a)
  BY <1>8 DEF Counted, Direct
<1> QED BY <1>1, <1>3, <1>4, <1>5, <1>6, <1>7, <1>8 DEF Shaped

\* What a step writes, reads and counts.
LEMMA TouchStep ==
  ASSUME TypeInv, [Next]_vars
  PROVE  /\ told' = told \/ \E a \in Actor : Told(call[a].list)
         /\ \/ inbox' = inbox
            \/ \E a \in Actor : Commit(a)
            \/ \E m \in Claude : ReplyWrite(m)
            \/ \E k \in Party, i \in Msg : Expire(k, i)
         /\ \/ lock' = lock /\ file' = file
            \/ lock' = None /\ file' = EmptyFile
            \/ \E i \in Msg, r \in Route : Post(i, r[1], r[2])
            \/ \E a \in Actor : Take(a)
         /\ \A m \in Claude : \/ answer'[m].id = answer[m].id /\ answer'[m].file = answer[m].file
                              \/ answer'[m].id = 0 /\ answer'[m].file = EmptyFile
                              \/ \E f \in Party, i \in Msg : ReplyRead(m, f, i)
<1> USE Actors
<1>0. TypeOK
  BY DEF TypeInv
<1>1. told' = told \/ \E a \in Actor : Told(call[a].list)
  <2>1. (\A m \in Claude : <<"kick", m>> \in Actor)
    BY NamesAssumption
  <2> QED
    BY <2>1 DEF Next, vars, seen, Show, Post, SteerReport, LeaveInMailbox, Take, Commit, DeliverAccepted, DeliverRejected,
     KickReadsMail, MemberIdle, CliAnswers, CliFails, ReplyWrite, ReplyDone, ReplyRead, CaptainTurn, CaptainIdle,
     ListenerReads, CaptainAsks, CaptainReads, MemberReads, MemberRereads, FileError, Expire, Crash
<1>2. \/ inbox' = inbox
      \/ \E a \in Actor : Commit(a)
      \/ \E m \in Claude : ReplyWrite(m)
      \/ \E k \in Party, i \in Msg : Expire(k, i)
  BY DEF Next, vars, mail, Post, SteerReport, LeaveInMailbox, Take, DeliverAccepted, DeliverRejected,
     KickReadsMail, MemberIdle, CliAnswers, CliFails, ReplyDone, ReplyRead, CaptainTurn, CaptainIdle,
     ListenerReads, CaptainAsks, CaptainReads, MemberReads, MemberRereads, FileError, Crash
<1>3. \/ lock' = lock /\ file' = file
      \/ lock' = None /\ file' = EmptyFile
      \/ \E i \in Msg, r \in Route : Post(i, r[1], r[2])
      \/ \E a \in Actor : Take(a)
  BY DEF Next, vars, section, SteerReport, LeaveInMailbox, Commit, DeliverAccepted, DeliverRejected,
     KickReadsMail, MemberIdle, CliAnswers, CliFails, ReplyWrite, ReplyDone, ReplyRead, CaptainTurn, CaptainIdle,
     ListenerReads, CaptainAsks, CaptainReads, MemberReads, MemberRereads, FileError, Expire, Crash
<1>4. ASSUME NEW m \in Claude
      PROVE  \/ answer'[m].id = answer[m].id /\ answer'[m].file = answer[m].file
             \/ answer'[m].id = 0 /\ answer'[m].file = EmptyFile
             \/ \E f \in Party, i \in Msg : ReplyRead(m, f, i)
  <2> DEFINE Goal == \/ answer'[m].id = answer[m].id /\ answer'[m].file = answer[m].file
                     \/ answer'[m].id = 0 /\ answer'[m].file = EmptyFile
                     \/ \E f \in Party, i \in Msg : ReplyRead(m, f, i)
  <2>1. CASE answer' = answer
    BY <2>1
  <2>2. ASSUME NEW n \in Claude, CliAnswers(n) PROVE Goal
    BY <2>2, <1>0 DEF CliAnswers, TypeOK
  <2>3. ASSUME NEW n \in Claude, ReplyWrite(n) PROVE Goal
    BY <2>3, <1>0 DEF ReplyWrite, TypeOK
  <2>4. ASSUME NEW n \in Claude, ReplyDone(n) PROVE Goal
    BY <2>4, <1>0 DEF ReplyDone, TypeOK, NoAnswer
  <2>5. ASSUME NEW n \in Claude, NEW f \in Party, NEW i \in Msg, ReplyRead(n, f, i) PROVE Goal
    <3>1. CASE n = m
      BY <3>1, <2>5
    <3>2. CASE n # m
      BY <3>2, <2>5, <1>0 DEF ReplyRead, TypeOK
    <3> QED BY <3>1, <3>2
  <2>6. CASE \E a \in Actor : FileError(a)
    BY <2>6 DEF FileError, NoAnswer
  <2>7. CASE Crash
    BY <2>7 DEF Crash, NoAnswer
  <2>8. \/ answer' = answer
        \/ \E n \in Claude : CliAnswers(n) \/ ReplyWrite(n) \/ ReplyDone(n)
        \/ \E n \in Claude, f \in Party, i \in Msg : ReplyRead(n, f, i)
        \/ (\E a \in Actor : FileError(a)) \/ Crash
    BY DEF Next, vars, Post, SteerReport, LeaveInMailbox, Take, Commit, DeliverAccepted, DeliverRejected,
       KickReadsMail, MemberIdle, CliFails, CaptainTurn, CaptainIdle,
       ListenerReads, CaptainAsks, CaptainReads, MemberReads, MemberRereads, Expire
  <2> HIDE DEF Goal
  <2>9. Goal
    BY <2>1, <2>2, <2>3, <2>4, <2>5, <2>6, <2>7, <2>8 DEF Goal
  <2> QED BY <2>9 DEF Goal
<1> QED BY <1>1, <1>2, <1>3, <1>4

\* A reply being written is an external member's.
Replies == \A m \in Claude : answer[m].id # 0 => letter[answer[m].id].from = m

LEMMA RepliesStep ==
  ASSUME TypeInv, Replies, [Next]_vars
  PROVE  Replies'
<1> SUFFICES ASSUME NEW m \in Claude, answer'[m].id # 0 PROVE letter'[answer'[m].id].from = m
  BY DEF Replies
<1>1. CASE answer'[m].id = answer[m].id
  <2>1. answer[m].id \in Msg /\ letter[answer[m].id].from = m
    BY <1>1 DEF Replies, TypeInv, TypeOK
  <2>2. letter[answer[m].id] # NoLetter
    BY <2>1, NamesAssumption DEF NoLetter, Party
  <2> QED BY <2>1, <2>2, <1>1, LettersStay
<1>2. ASSUME NEW f \in Party, NEW i \in Msg, ReplyRead(m, f, i) PROVE letter'[answer'[m].id].from = m
  BY <1>2 DEF ReplyRead, TypeInv, TypeOK
<1> QED BY <1>1, <1>2, TouchStep

LEMMA PlacesStep ==
  ASSUME TypeInv, TypeInv', Replies, Roles, Places, [Next]_vars
  PROVE  Places'
<1> USE Actors
<1>0. TypeOK /\ TypeOK'
  BY DEF TypeInv
<1>a. \A j \in Msg : letter[j] # NoLetter => letter'[j] = letter[j]
  BY LettersStay
\* A message that has a place has a letter.
<1>b. \A j \in Msg, k \in Party : letter[j].to = k => letter[j] # NoLetter /\ letter'[j].to = k
  BY <1>a, NamesAssumption DEF NoLetter
<1>c. \A a \in Actor : call[a].phase # "rest" => Box(a) \in Party /\ Box(a)' = Box(a)
  BY BoxOfCall, BoxStays
<1>d. ASSUME lock # None, lock' = lock PROVE Box(lock) \in Party /\ Box(lock)' = Box(lock)
  <2>1. lock \in Actor /\ call[lock].phase # "rest"
    BY <1>d, <1>0 DEF TypeOK, Locked
  <2> QED BY <1>c, <1>d, <2>1 DEF Box
<1>1. ASSUME NEW i \in Msg, letter'[i] = NoLetter PROVE told'[i] = 0
  <2>1. letter[i] = NoLetter /\ told[i] = 0
    BY <1>1, <1>a DEF Places
  <2>2. \A a \in Actor : Told(call[a].list) => told'[i] = told[i]
    BY <2>1 DEF Places, Told
  <2> QED BY <2>1, <2>2, TouchStep
<1>2. ASSUME NEW k \in Party, NEW i \in Msg, inbox'[k][i] # "absent" PROVE letter'[i].to = k
  <2>1. CASE inbox[k][i] # "absent"
    BY <2>1, <1>b DEF Places
  <2>2. ASSUME NEW a \in Actor, Commit(a), inbox[k][i] = "absent" PROVE letter'[i].to = k
    <3>1. a = lock /\ a # None /\ k = Box(a)
      BY <2>2, <1>2, <1>0, NoneIsNobody DEF Commit, TypeOK
    <3>2. inbox'[k] = Rewrite(file, call[a].phase, call[a].list)
      BY <2>2, <3>1, <1>0 DEF Commit, TypeOK
    <3>3. file[i] # "absent" \/ i \in call[a].list
      BY <1>2, <3>2, <1>0 DEF Rewrite, TypeOK, File
    <3> QED BY <3>1, <3>3, <1>b DEF Places
  <2>3. ASSUME NEW m \in Claude, ReplyWrite(m), inbox[k][i] = "absent" PROVE letter'[i].to = k
    <3>1. letter[answer[m].id].to = k /\ answer[m].id \in Msg
      BY <2>3, <1>2, <1>0 DEF ReplyWrite, TypeOK
    <3>2. i = answer[m].id \/ answer[m].file[i] # "absent"
      BY <2>3, <1>2, <1>0, <3>1 DEF ReplyWrite, TypeOK, File
    <3> QED BY <3>1, <3>2, <1>b DEF Places
  <2>4. ASSUME NEW l \in Party, NEW j \in Msg, Expire(l, j), inbox[k][i] = "absent" PROVE FALSE
    BY <2>4, <1>2, <1>0 DEF Expire, TypeOK, File
  <2> QED BY <2>1, <2>2, <2>3, <2>4, <1>2, TouchStep
<1>3. ASSUME NEW a \in Actor, NEW i \in Msg, i \in call'[a].list
      PROVE  letter'[i].to = Box(a)' /\ letter'[i] # NoLetter
             /\ call'[a].phase \notin {"rest", "read", "reread"}
  <2>1. Shaped(a)
    BY ShapeStep
  <2>2. CASE i \in call[a].list
    <3>1. letter'[i].to = Box(a)' /\ letter'[i] # NoLetter
      BY <2>2, <1>a, <1>c DEF Places
    <3> QED BY <3>1, <2>1, <2>2, <1>3 DEF Places, Shaped, Dropped, Moved, Posted, Claimed, Counted
  <2>3. CASE Posted(a)
    BY <2>3, <1>3 DEF Posted, Box
  <2>4. CASE Claimed(a)
    <3>1. PICK m \in Member : a = <<"kick", m>> /\ i \in Unread(m) /\ call'[a].phase = "claim"
      BY <2>4, <1>3 DEF Claimed
    <3>2. m \in Party /\ Box(a)' = m
      BY <3>1 DEF Party, Box
    <3>3. letter[i].to = m
      BY <3>1, <3>2 DEF Unread, Places
    <3> QED BY <3>1, <3>2, <3>3, <1>a, <1>b
  <2>5. CASE Counted(a)
    <3>1. Box(a) \in Party /\ i \in Unread(Box(a)) /\ Box(a)' = Box(a) /\ call'[a].phase = "ack"
      BY <2>5, <1>3 DEF Counted, Direct, Box
    <3>2. letter[i].to = Box(a)
      BY <3>1 DEF Unread, Places
    <3> QED BY <3>1, <3>2, <1>a, <1>b
  <2> QED BY <2>1, <2>2, <2>3, <2>4, <2>5, <1>3 DEF Shaped, Dropped, Moved
<1>4. ASSUME NEW i \in Msg, file'[i] # "absent" PROVE lock' # None /\ letter'[i].to = Box(lock)'
  <2>1. CASE lock' = lock /\ file' = file
    BY <2>1, <1>4, <1>b, <1>d DEF Places, Box
  <2>2. CASE lock' = None /\ file' = EmptyFile
    BY <2>2, <1>4 DEF EmptyFile
  <2>3. ASSUME NEW j \in Msg, NEW r \in Route, Post(j, r[1], r[2])
        PROVE  lock' # None /\ letter'[i].to = Box(lock)'
    <3>1. r[2] \in Party /\ lock' = <<"send", j>> /\ file' = inbox[r[2]]
      BY <2>3, NamesAssumption DEF Post
    <3>2. Box(lock)' = r[2]
      BY <2>3, <3>1, <1>0 DEF Post, Box, TypeOK
    <3> QED BY <3>1, <3>2, <1>4, <1>b, NoneIsNobody DEF Places
  <2>4. ASSUME NEW a \in Actor, Take(a) PROVE lock' # None /\ letter'[i].to = Box(lock)'
    <3>1. lock' = a /\ file' = inbox[Box(a)] /\ Box(a) \in Party /\ Box(a)' = Box(a)
      BY <2>4, <1>c DEF Take, Locked
    <3>2. Box(lock)' = Box(a)
      BY <3>1 DEF Box
    <3> QED BY <3>1, <3>2, <1>4, <1>b, NoneIsNobody DEF Places
  <2> QED BY <2>1, <2>2, <2>3, <2>4, TouchStep
<1>5. ASSUME NEW m \in Claude, NEW i \in Msg, answer'[m].file[i] # "absent"
      PROVE  answer'[m].id # 0 /\ letter'[i].to = letter'[answer'[m].id].to
  <2>1. CASE answer'[m].id = answer[m].id /\ answer'[m].file = answer[m].file
    <3>1. answer[m].id # 0 /\ letter[i].to = letter[answer[m].id].to
      BY <2>1, <1>5 DEF Places
    <3>4. answer[m].id \in Msg /\ letter[answer[m].id].from = m
      BY <3>1, <1>0 DEF TypeOK, Replies
    <3>2. letter[answer[m].id] # NoLetter /\ letter[answer[m].id].to \in Party
      <4>1. letter[answer[m].id] \in [from : Party, to : Party] \cup {NoLetter}
        BY <3>4, <1>0 DEF TypeOK
      <4> QED BY <3>4, <4>1, NamesAssumption DEF NoLetter, Party
    <3>3. letter'[answer[m].id] = letter[answer[m].id] /\ letter'[i].to = letter[i].to
      BY <3>1, <3>2, <3>4, <1>a, <1>b
    <3> QED BY <2>1, <3>1, <3>3
  <2>2. CASE answer'[m].id = 0 /\ answer'[m].file = EmptyFile
    BY <2>2, <1>5 DEF EmptyFile
  <2>3. ASSUME NEW f \in Party, NEW j \in Msg, ReplyRead(m, f, j)
        PROVE  answer'[m].id # 0 /\ letter'[i].to = letter'[answer'[m].id].to
    <3>1. answer'[m].id = j /\ answer'[m].file = inbox[f] /\ letter'[j].to = f
      BY <2>3, <1>0 DEF ReplyRead, TypeOK
    <3>2. letter[i].to = f
      BY <3>1, <1>5 DEF Places
    <3>3. letter'[i].to = f /\ j # 0
      BY <3>2, <1>b DEF Msg
    <3> QED BY <3>1, <3>3
  <2> QED BY <2>1, <2>2, <2>3, TouchStep
<1> QED BY <1>1, <1>2, <1>3, <1>4, <1>5 DEF Places

-----------------------------------------------------------------------------
(* Only replies written without the lock lose messages *)

\* No mailbox, no version of one that somebody has read and no other reply has
\* this message.
Unwritten(r) ==
  /\ \A k \in Party : inbox[k][r] = "absent"
  /\ file[r] = "absent"
  /\ \A m \in Claude : answer[m].file[r] = "absent"

ReplyTo(k, r) == letter[r].from \in Claude /\ letter[r].to = k

\* The version in the hands of the lock's holder has all of the mailbox, or a
\* reply has been written to the mailbox since it was read.
Overtaken(k) ==
  \/ \A i \in Msg : inbox[k][i] # "absent" => file[i] # "absent"
  \/ \E r \in Msg : ReplyTo(k, r) /\ inbox[k][r] # "absent" /\ file[r] = "absent"

LossInv ==
  /\ \A a \in Actor, i \in Msg :
       call[a].phase = "append" /\ i \in call[a].list => letter[i].from \notin Claude
  /\ \A m \in Claude : answer[m].id # 0 => Unwritten(answer[m].id)
  /\ lock # None => Overtaken(Box(lock))

Lost ==
  \A k \in Party, i \in Msg :
    inbox[k][i] # "absent" /\ inbox'[k][i] = "absent" =>
      \E r \in Msg : /\ letter[r].from \in Claude /\ letter[r].to = k
                    /\ inbox'[k][r] = "absent" <=> inbox[k][r] # "absent"

LEMMA LossInit == Init => LossInv
BY DEF Init, LossInv, NoAnswer, Rest

\* What the four steps that change a mailbox write.
LEMMA Written ==
  ASSUME TypeInv, Replies, Places, LossInv
  PROVE  /\ \A a \in Actor : Commit(a) =>
              /\ a = lock /\ lock # None /\ lock' = None /\ Box(a) \in Party
              /\ \A k \in Party : k # Box(a) => inbox'[k] = inbox[k]
              /\ \A i \in Msg : file[i] # "absent" => inbox'[Box(a)][i] # "absent"
              /\ \A i \in Msg : inbox'[Box(a)][i] # "absent" =>
                   file[i] # "absent" \/ letter[i].from \notin Claude
         /\ \A m \in Claude : ReplyWrite(m) =>
              /\ answer[m].id \in Msg /\ ReplyTo(letter[answer[m].id].to, answer[m].id)
              /\ letter[answer[m].id].to \in Party
              /\ \A k \in Party : k # letter[answer[m].id].to => inbox'[k] = inbox[k]
              /\ inbox'[letter[answer[m].id].to][answer[m].id] # "absent"
              /\ \A i \in Msg : i # answer[m].id =>
                   inbox'[letter[answer[m].id].to][i] = answer[m].file[i]
         /\ \A l \in Party, j \in Msg : Expire(l, j) =>
              \A k \in Party, i \in Msg : inbox'[k][i] = "absent" <=> inbox[k][i] = "absent"
<1>0. TypeOK
  BY DEF TypeInv
<1>1. ASSUME NEW a \in Actor, Commit(a)
      PROVE  /\ a = lock /\ lock # None /\ lock' = None /\ Box(a) \in Party
             /\ \A k \in Party : k # Box(a) => inbox'[k] = inbox[k]
             /\ \A i \in Msg : file[i] # "absent" => inbox'[Box(a)][i] # "absent"
             /\ \A i \in Msg : inbox'[Box(a)][i] # "absent" =>
                  file[i] # "absent" \/ letter[i].from \notin Claude
  <2> DEFINE op == call[a].phase
             list == call[a].list
  <2>1. a = lock /\ lock # None /\ lock' = None
    BY <1>1, NoneIsNobody DEF Commit
  <2>2. op \in Locked /\ op # "rest" /\ file \in File
    BY <2>1, <1>0 DEF TypeOK, Locked
  <2>3. Box(a) \in Party
    BY <2>2, BoxOfCall
  <2>4. inbox' = [inbox EXCEPT ![Box(a)] = Rewrite(file, op, list)]
    BY <1>1 DEF Commit
  <2>5. inbox'[Box(a)] = Rewrite(file, op, list) /\ \A k \in Party : k # Box(a) => inbox'[k] = inbox[k]
    BY <2>3, <2>4, <1>0 DEF TypeOK
  <2>6. \A i \in Msg : file[i] # "absent" => Rewrite(file, op, list)[i] # "absent"
    BY <2>2 DEF Rewrite, Mark, Locked
  <2>7. \A i \in Msg : Rewrite(file, op, list)[i] # "absent" =>
          file[i] # "absent" \/ letter[i].from \notin Claude
    BY <2>2 DEF Rewrite, LossInv
  <2> QED BY <2>1, <2>3, <2>5, <2>6, <2>7
<1>2. ASSUME NEW m \in Claude, ReplyWrite(m)
      PROVE  /\ answer[m].id \in Msg /\ ReplyTo(letter[answer[m].id].to, answer[m].id)
             /\ letter[answer[m].id].to \in Party
             /\ \A k \in Party : k # letter[answer[m].id].to => inbox'[k] = inbox[k]
             /\ inbox'[letter[answer[m].id].to][answer[m].id] # "absent"
             /\ \A i \in Msg : i # answer[m].id =>
                  inbox'[letter[answer[m].id].to][i] = answer[m].file[i]
  <2>1. answer[m].id \in Msg /\ letter[answer[m].id].from = m /\ answer[m].file \in File
    BY <1>0, <1>2 DEF ReplyWrite, TypeOK, Replies
  <2> PICK r \in Msg : r = answer[m].id /\ letter[r].from = m
    BY <2>1
  <2>2. letter[r].to \in Party
    BY <1>0, NamesAssumption DEF NoLetter, TypeOK, Party
  <2> PICK k \in Party : k = letter[r].to
    BY <2>2
  <2>3. inbox' = [inbox EXCEPT ![k] = [answer[m].file EXCEPT ![r] = "unread"]]
    BY <1>2 DEF ReplyWrite
  <2>4. inbox'[k] = [answer[m].file EXCEPT ![r] = "unread"] /\ \A l \in Party : l # k => inbox'[l] = inbox[l]
    BY <2>3, <1>0 DEF TypeOK
  <2>5. inbox'[k][r] = "unread" /\ \A i \in Msg : i # r => inbox'[k][i] = answer[m].file[i]
    BY <2>1, <2>4 DEF File
  <2> QED BY <2>1, <2>4, <2>5 DEF ReplyTo
<1>3. ASSUME NEW l \in Party, NEW j \in Msg, Expire(l, j)
      PROVE  \A k \in Party, i \in Msg : inbox'[k][i] = "absent" <=> inbox[k][i] = "absent"
  BY <1>3, <1>0 DEF Expire, TypeOK, File
<1> QED BY <1>1, <1>2, <1>3

LEMMA LossStep ==
  ASSUME TypeInv, TypeInv', Replies, Roles, Places, LossInv, [Next]_vars
  PROVE  LossInv' /\ Lost
<1>0. TypeOK /\ TypeOK'
  BY DEF TypeInv
<1>a. \A j \in Msg : letter[j] # NoLetter => letter'[j] = letter[j]
  BY LettersStay
<1>b. \A j \in Msg, k \in Party : ReplyTo(k, j) => ReplyTo(k, j)'
  BY <1>a, NamesAssumption DEF ReplyTo, NoLetter
<1>c. \A m \in Claude : answer[m].id # 0 => answer[m].id \in Msg /\ letter[answer[m].id].from \in Claude
  BY <1>0 DEF TypeOK, Replies
<1>1. ASSUME NEW a \in Actor, NEW i \in Msg, call'[a].phase = "append", i \in call'[a].list
      PROVE  letter'[i].from \notin Claude
  <2>1. Shaped(a)
    BY ShapeStep
  <2>2. CASE call'[a] = call[a]
    <3>1. letter[i].from \notin Claude /\ letter[i] # NoLetter
      BY <1>1, <2>2 DEF LossInv, Places
    <3> QED BY <3>1, <1>a
  <2>3. CASE Posted(a)
    BY <1>1, <2>3 DEF Posted
  <2> QED BY <1>1, <2>1, <2>2, <2>3 DEF Shaped, Dropped, Moved, Claimed, Counted
<1>2. ASSUME NEW m \in Claude, answer'[m].id # 0 PROVE Unwritten(answer[m].id)'
  <2>1. CASE answer'[m].id = answer[m].id /\ answer'[m].file = answer[m].file
    <3> PICK r \in Msg : r = answer[m].id /\ r = answer'[m].id
      BY <1>2, <2>1, <1>c
    <3>1. Unwritten(r) /\ letter[r].from \in Claude /\ r # 0
      BY <1>2, <2>1, <1>c DEF LossInv
    <3>2. ASSUME NEW a \in Actor, Commit(a), NEW k \in Party PROVE inbox'[k][r] = "absent"
      BY <3>1, <3>2, Written DEF Unwritten
    <3>3. ASSUME NEW n \in Claude, ReplyWrite(n), NEW k \in Party PROVE inbox'[k][r] = "absent"
      <4>1. n # m
        BY <3>1, <3>3, <1>0 DEF ReplyWrite, TypeOK
      <4>2. answer[n].id # r
        <5>1. letter[answer[m].id].from = m
          BY <1>2, <2>1 DEF Replies
        <5>2. answer[n].id # 0 => letter[answer[n].id].from = n
          BY DEF Replies
        <5> QED BY <4>1, <5>1, <5>2, <3>1
      <4> QED BY <3>1, <3>3, <4>2, Written DEF Unwritten
    <3>4. ASSUME NEW l \in Party, NEW j \in Msg, Expire(l, j), NEW k \in Party PROVE inbox'[k][r] = "absent"
      BY <3>1, <3>4, Written DEF Unwritten
    <3>5. \A k \in Party : inbox'[k][r] = "absent"
      BY <3>1, <3>2, <3>3, <3>4, TouchStep DEF Unwritten
    <3>6. file'[r] = "absent"
      <4>1. ASSUME NEW i \in Msg, NEW q \in Route, Post(i, q[1], q[2]) PROVE file'[r] = "absent"
        BY <4>1, <3>1, NamesAssumption DEF Post, Unwritten
      <4>2. ASSUME NEW a \in Actor, Take(a) PROVE file'[r] = "absent"
        BY <4>2, <3>1, BoxOfCall DEF Take, Unwritten, Locked
      <4> QED BY <4>1, <4>2, <3>1, TouchStep DEF Unwritten, EmptyFile
    <3>7. ASSUME NEW n \in Claude PROVE answer'[n].file[r] = "absent"
      <4>1. ASSUME NEW f \in Party, NEW i \in Msg, ReplyRead(n, f, i) PROVE answer'[n].file[r] = "absent"
        BY <4>1, <3>1, <1>0 DEF ReplyRead, Unwritten, TypeOK
      <4> QED BY <4>1, <3>1, TouchStep DEF Unwritten, EmptyFile
    <3> QED BY <3>5, <3>6, <3>7 DEF Unwritten
  <2>2. ASSUME NEW f \in Party, NEW i \in Msg, ReplyRead(m, f, i) PROVE Unwritten(answer[m].id)'
    <3>1. letter[i] = NoLetter /\ answer'[m].id = i /\ answer'[m].file = inbox[f]
          /\ inbox' = inbox /\ file' = file /\ \A n \in Claude : n # m => answer'[n] = answer[n]
      BY <2>2, <1>0 DEF ReplyRead, Fresh, TypeOK, section
    <3>2. \A k \in Party : inbox[k][i] = "absent"
      BY <3>1, NamesAssumption DEF Places, NoLetter
    <3>3. file[i] = "absent"
      <4>1. lock # None => Box(lock) \in Party
        BY <1>0, BoxOfCall DEF TypeOK, Locked
      <4> QED BY <3>1, <4>1, NamesAssumption DEF Places, NoLetter
    <3>4. ASSUME NEW n \in Claude PROVE answer[n].file[i] = "absent"
      <4>1. answer[n].id # 0 => letter[answer[n].id].to \in Party
        <5> SUFFICES ASSUME answer[n].id # 0 PROVE letter[answer[n].id].to \in Party
          OBVIOUS
        <5>1. answer[n].id \in Msg /\ letter[answer[n].id].from = n
          BY <1>c DEF Replies
        <5> PICK q \in Msg : q = answer[n].id /\ letter[q].from = n
          BY <5>1
        <5>2. letter[q] \in [from : Party, to : Party] \cup {NoLetter}
          BY <1>0 DEF TypeOK
        <5> QED BY <5>2, NamesAssumption DEF NoLetter, Party
      <4> QED BY <3>1, <4>1, NamesAssumption DEF Places, NoLetter
    <3>5. \A n \in Claude : answer'[n].file[i] = "absent"
      BY <3>1, <3>2, <3>4
    <3> QED BY <3>1, <3>2, <3>3, <3>5 DEF Unwritten
  <2> QED BY <2>1, <2>2, <1>2, TouchStep
<1>3. ASSUME lock' # None PROVE Overtaken(Box(lock))'
  <2>1. CASE lock' = lock /\ file' = file
    <3>1. lock \in Actor /\ call[lock].phase # "rest"
      BY <1>3, <2>1, <1>0 DEF TypeOK, Locked
    <3> PICK k \in Party : k = Box(lock) /\ Box(lock)' = k
      BY <3>1, <2>1, BoxOfCall, BoxStays DEF Box
    <3>2. Overtaken(k)
      BY <1>3, <2>1 DEF LossInv
    <3>3. CASE \A i \in Msg : inbox'[k][i] = "absent" <=> inbox[k][i] = "absent"
      BY <3>2, <3>3, <2>1, <1>b DEF Overtaken
    <3>4. ASSUME NEW m \in Claude, ReplyWrite(m), k = letter[answer[m].id].to PROVE Overtaken(k)'
      <4> PICK r \in Msg : r = answer[m].id /\ ReplyTo(k, r) /\ inbox'[k][r] # "absent"
        BY <3>4, Written
      <4>1. answer[m].id # 0
        BY <3>4 DEF ReplyWrite
      <4>2. file[r] = "absent"
        BY <4>1 DEF LossInv, Unwritten
      <4> QED BY <4>2, <2>1, <1>b DEF Overtaken
    <3>5. ASSUME NEW m \in Claude, ReplyWrite(m), k # letter[answer[m].id].to PROVE inbox'[k] = inbox[k]
      BY <3>5, Written
    <3>6. ASSUME NEW a \in Actor, Commit(a) PROVE FALSE
      BY <3>6, <1>3, Written
    <3>7. \A l \in Party, j \in Msg : Expire(l, j) =>
            \A i \in Msg : inbox'[k][i] = "absent" <=> inbox[k][i] = "absent"
      BY Written
    <3>8. Overtaken(k)'
      BY <3>3, <3>4, <3>5, <3>6, <3>7, TouchStep
    <3> QED BY <3>8, <2>1 DEF Overtaken, ReplyTo
  <2>2. ASSUME NEW i \in Msg, NEW q \in Route, Post(i, q[1], q[2]) PROVE Overtaken(Box(lock))'
    <3>1. Box(lock)' = q[2] /\ file' = inbox[q[2]] /\ inbox' = inbox
      BY <2>2, <1>0, NamesAssumption DEF Post, Box, TypeOK
    <3> QED BY <3>1 DEF Overtaken
  <2>3. ASSUME NEW a \in Actor, Take(a) PROVE Overtaken(Box(lock))'
    <3>1. Box(lock)' = Box(a)
      BY <2>3, BoxStays DEF Take, Box, Locked
    <3>2. file' = inbox[Box(a)] /\ inbox' = inbox
      BY <2>3 DEF Take, mail
    <3> QED BY <3>1, <3>2 DEF Overtaken
  <2> QED BY <2>1, <2>2, <2>3, <1>3, TouchStep
<1>4. Lost
  <2> SUFFICES ASSUME NEW k \in Party, NEW i \in Msg, inbox[k][i] # "absent", inbox'[k][i] = "absent"
               PROVE  \E r \in Msg : /\ letter[r].from \in Claude /\ letter[r].to = k
                                     /\ inbox'[k][r] = "absent" <=> inbox[k][r] # "absent"
    BY DEF Lost
  <2>1. ASSUME NEW a \in Actor, Commit(a)
        PROVE  \E r \in Msg : /\ letter[r].from \in Claude /\ letter[r].to = k
                              /\ inbox'[k][r] = "absent" <=> inbox[k][r] # "absent"
    <3>1. k = Box(lock) /\ lock # None /\ file[i] = "absent" /\ a = lock
      BY <2>1, Written
    <3>2. PICK r \in Msg : ReplyTo(k, r) /\ inbox[k][r] # "absent" /\ file[r] = "absent"
      BY <3>1 DEF LossInv, Overtaken
    <3>3. inbox'[k][r] = "absent"
      BY <2>1, <3>1, <3>2, Written DEF ReplyTo
    <3> QED BY <3>2, <3>3 DEF ReplyTo
  <2>2. ASSUME NEW m \in Claude, ReplyWrite(m)
        PROVE  \E r \in Msg : /\ letter[r].from \in Claude /\ letter[r].to = k
                              /\ inbox'[k][r] = "absent" <=> inbox[k][r] # "absent"
    <3> PICK r \in Msg : r = answer[m].id /\ ReplyTo(letter[r].to, r)
      BY <2>2, Written
    <3>1. k = letter[r].to /\ inbox'[k][r] # "absent"
      BY <2>2, Written
    <3>2. inbox[k][r] = "absent"
      BY <2>2 DEF ReplyWrite, LossInv, Unwritten
    <3> QED BY <3>1, <3>2 DEF ReplyTo
  <2>3. \A l \in Party, j \in Msg : Expire(l, j) => FALSE
    BY Written
  <2> QED BY <2>1, <2>2, <2>3, TouchStep
<1> QED BY <1>1, <1>2, <1>3, <1>4 DEF LossInv

\* What is known of every state: types, whose the replies being written are, what
\* the calls do and where the messages are.
CallInv == TypeInv /\ Replies /\ Roles /\ Places

LEMMA CallInit == Init => CallInv
<1> SUFFICES ASSUME Init PROVE CallInv
  OBVIOUS
<1>1. TypeInv /\ Replies
  BY TypeInit DEF Init, Replies, NoAnswer
<1>2. Roles
  BY DEF Init, Roles, Rest
<1>3. Places
  BY DEF Init, Places, Rest, EmptyFile, NoAnswer
<1> QED BY <1>1, <1>2, <1>3 DEF CallInv

LEMMA CallStep == CallInv /\ [Next]_vars => CallInv'
<1> SUFFICES ASSUME TypeInv, Replies, Roles, Places, [Next]_vars PROVE CallInv'
  BY DEF CallInv
<1>1. TypeInv'
  BY TypeStep
<1>2. Replies' /\ Roles' /\ Places'
  BY <1>1, RepliesStep, RolesStep, PlacesStep
<1> QED BY <1>1, <1>2 DEF CallInv

\* Whatever calls overlap, fail or are cut off by a restart, a message goes from a
\* mailbox only when a reply to it, which takes no lock, is written over a newer
\* version or overwritten with an older one.
THEOREM NothingLost == Spec => NoMailLost
<1>1. CallInv /\ LossInv /\ [Next]_vars => LossInv' /\ Lost
  BY CallStep, LossStep DEF CallInv
<1>2. CallInv /\ LossInv /\ [Next]_vars =>
        [\A k \in Party, i \in Msg :
           inbox[k][i] # "absent" /\ inbox'[k][i] = "absent" =>
             \E r \in Msg : /\ letter[r].from \in Claude /\ letter[r].to = k
                           /\ inbox'[k][r] = "absent" <=> inbox[k][r] # "absent"]_vars
  BY <1>1 DEF Lost
<1> QED
  BY <1>1, <1>2, CallInit, CallStep, LossInit, PTL DEF Spec, NoMailLost
-----------------------------------------------------------------------------
(* Read means seen *)

LEMMA Below == IsWellFoundedOn({p \in Nat \X Nat : p[1] < p[2]}, Nat)
BY NatLessThanWellFounded DEF OpToRel

\* A set of messages has a newest.
LEMMA Newest ==
  ASSUME NEW S \in SUBSET Msg, S # {}
  PROVE  \E i \in S : \A j \in S : j <= i
<1> DEFINE R == {p \in Nat \X Nat : p[1] < p[2]}
           T == {MaxMessages - i : i \in S}
<1>1. S \subseteq 1 .. MaxMessages /\ MaxMessages \in Nat
  BY BoundsAssumption DEF Msg
<1>2. T \in SUBSET Nat /\ T # {}
  <2>1. \A i \in S : MaxMessages - i \in Nat
    BY <1>1
  <2> QED BY <2>1
<1>3. IsWellFoundedOn(R, Nat)
  BY Below
<1>4. PICK n \in T : \A m \in T : ~(<<m, n>> \in R)
  <2> HIDE DEF R, T
  <2> QED BY <1>2, <1>3, WFMin
<1>a. \A m \in T : n \in Nat /\ m \in Nat
  <2> HIDE DEF T
  <2> QED BY <1>2
<1>b. \A m \in T : ~(m < n)
  <2> HIDE DEF T
  <2> QED BY <1>4, <1>a
<1>5. \A m \in T : n <= m
  <2> HIDE DEF T
  <2> QED BY <1>a, <1>b
<1> PICK i \in S : n = MaxMessages - i
  OBVIOUS
<1>6. \A j \in S : MaxMessages - i <= MaxMessages - j
  BY <1>5
<1> QED BY <1>1, <1>6

LEMMA Counts ==
  ASSUME NEW S \in SUBSET Msg
  PROVE  /\ Cardinality(S) \in Nat
         /\ \A T \in SUBSET S : Cardinality(T) <= Cardinality(S) /\ Cardinality(T) \in Nat
<1>1. IsFiniteSet(Msg)
  BY FS_Interval, BoundsAssumption DEF Msg
<1>2. IsFiniteSet(S)
  BY <1>1, FS_Subset
<1>3. \A T \in SUBSET S : IsFiniteSet(T) /\ Cardinality(T) <= Cardinality(S)
  BY <1>2, FS_Subset
<1> QED BY <1>2, <1>3, FS_CardinalityType

\* A message that is not among the latest n of a set has n of those after it.
LEMMA LatestAreAfter ==
  ASSUME NEW A \in SUBSET Msg, NEW n \in Nat, NEW i \in A \ Latest(A, n)
  PROVE  Cardinality({j \in Latest(A, n) : j > i}) >= n
<1> DEFINE After(x) == {j \in A : j > x}
           L == Latest(A, n)
<1>1. \A x \in A : After(x) \in SUBSET Msg /\ Cardinality(After(x)) \in Nat
  BY Counts
<1>2. \A x \in A \ L : Cardinality(After(x)) >= n
  BY <1>1 DEF Latest
<1>3. A \ L \in SUBSET Msg /\ i \in A \ L
  OBVIOUS
<1> HIDE DEF L
<1>4. PICK x \in A \ L : \A y \in A \ L : y <= x
  BY <1>3, Newest
<1>5. After(x) \subseteq {j \in L : j > i}
  <2> SUFFICES ASSUME NEW j \in A, j > x PROVE j \in L /\ j > i
    OBVIOUS
  <2>1. j \in Nat /\ x \in Nat /\ i \in Nat
    BY <1>3 DEF Msg
  <2>2. i <= x
    BY <1>3, <1>4
  <2>3. j \in L
    BY <1>4, <2>1
  <2> QED BY <2>1, <2>2, <2>3
<1>6. {j \in L : j > i} \in SUBSET Msg
  BY LatestType DEF L
<1>7. Cardinality(After(x)) <= Cardinality({j \in L : j > i}) /\ Cardinality({j \in L : j > i}) \in Nat
  BY <1>5, <1>6, Counts
<1>8. Cardinality(After(x)) >= n /\ Cardinality(After(x)) \in Nat
  BY <1>1, <1>2
<1> HIDE DEF After
<1>9. Cardinality({j \in L : j > i}) >= n
  BY <1>7, <1>8
<1> QED BY <1>9 DEF L

\* So many newer messages were shown to the captain that its status calls had no
\* place for this one.
Crowded(i) ==
  /\ letter[i].to = Captain
  /\ Cardinality({j \in shown : j > i /\ letter[j].to = Captain}) >= InboxWindow

\* What a recipient was shown or told of, and what a status call overlooks.
Seen == {i \in Msg : i \in shown \cup noticed \cup late \/ Crowded(i)}

\* Nothing of it is forgotten.
LEMMA SeenGrows ==
  ASSUME TypeInv, TypeInv', [Next]_vars
  PROVE  Seen \subseteq Seen' /\ shown \subseteq shown' /\ noticed \subseteq noticed' /\ late \subseteq late'
<1>1. shown \subseteq shown' /\ noticed \subseteq noticed' /\ late \subseteq late'
  BY DEF Next, vars, seen, Show, Report, Post, SteerReport, LeaveInMailbox, Take, Commit, DeliverAccepted, DeliverRejected,
     KickReadsMail, MemberIdle, CliAnswers, CliFails, ReplyWrite, ReplyDone, ReplyRead, CaptainTurn, CaptainIdle,
     ListenerReads, CaptainAsks, CaptainReads, MemberReads, MemberRereads, FileError, Expire, Crash
<1>2. ASSUME NEW i \in Msg, Crowded(i) PROVE Crowded(i)'
  <2> DEFINE S == {j \in shown : j > i /\ letter[j].to = Captain}
             T == {j \in shown' : j > i /\ letter'[j].to = Captain}
  <2>1. \A j \in Msg : letter[j].to = Captain => letter'[j].to = Captain
    BY LettersStay, NamesAssumption DEF NoLetter, Party
  <2>2. S \subseteq T /\ T \in SUBSET Msg
    BY <1>1, <2>1 DEF TypeInv, TypeOK
  <2>3. Cardinality(S) <= Cardinality(T) /\ Cardinality(S) \in Nat /\ Cardinality(T) \in Nat
    BY <2>2, Counts
  <2>4. Cardinality(S) >= InboxWindow /\ letter'[i].to = Captain
    BY <1>2, <2>1 DEF Crowded
  <2> HIDE DEF S, T
  <2>5. Cardinality(T) >= InboxWindow
    BY <2>3, <2>4, BoundsAssumption
  <2> QED BY <2>4, <2>5 DEF Crowded, T
<1> QED BY <1>1, <1>2 DEF Seen

\* What a status call is about to acknowledge it is about to show and to count,
\* or it has overlooked it.
ViewInv ==
  \A k \in Viewer : LET a == <<"view", k>> IN
    call[a].phase = "ack" =>
      IF k = Captain THEN call[a].seen = Latest(call[a].list, InboxWindow)
                     ELSE call[a].list \subseteq call[a].seen \cup late

LEMMA ViewInit == Init => ViewInv
BY Actors DEF Init, ViewInv, Rest

LEMMA ViewStep ==
  ASSUME TypeInv, TypeInv', Roles, Places, ViewInv, [Next]_vars
  PROVE  ViewInv'
<1> SUFFICES ASSUME NEW k \in Viewer, call'[<<"view", k>>].phase = "ack"
             PROVE  IF k = Captain
                    THEN call'[<<"view", k>>].seen = Latest(call'[<<"view", k>>].list, InboxWindow)
                    ELSE call'[<<"view", k>>].list \subseteq call'[<<"view", k>>].seen \cup late'
  BY DEF ViewInv, Latest
<1> PICK a \in Actor : a = <<"view", k>>
  BY Actors
<1>1. Shaped(a) /\ a[1] = "view" /\ a[2] = k /\ ~Direct(a)
  BY ShapeStep DEF Direct
<1>2. CASE call'[a] = call[a]
  BY <1>2, SeenGrows DEF ViewInv
<1>3. CASE Counted(a) /\ k = Captain
  <2>1. CaptainReads
    BY <1>1, <1>3 DEF Counted
  <2> DEFINE r == [phase |-> "ack", list |-> Unread(Captain), seen |-> Latest(Unread(Captain), InboxWindow)]
  <2>2. r.seen = Latest(r.list, InboxWindow)
    OBVIOUS
  <2>3. call' = [call EXCEPT ![a] = Rest] \/ call' = [call EXCEPT ![a] = r]
    BY <2>1, <1>3 DEF CaptainReads, Acknowledge
  <2> HIDE DEF r
  <2>4. call'[a] = Rest \/ call'[a] = r
    BY <2>3 DEF TypeInv, TypeOK
  <2> QED BY <2>2, <2>4, <1>3 DEF Rest
<1>4. CASE Counted(a) /\ k # Captain
  <2>1. MemberRereads(k)
    BY <1>1, <1>4 DEF Counted
  <2> DEFINE r == [phase |-> "ack", list |-> Unread(k), seen |-> call[a].seen]
  <2>2. r.list \subseteq r.seen \cup late'
    BY <2>1 DEF MemberRereads
  <2>3. call' = [call EXCEPT ![a] = Rest] \/ call' = [call EXCEPT ![a] = r]
    BY <2>1 DEF MemberRereads, Acknowledge
  <2> HIDE DEF r
  <2>4. call'[a] = Rest \/ call'[a] = r
    BY <2>3 DEF TypeInv, TypeOK
  <2> QED BY <2>2, <2>4, <1>4 DEF Rest
<1> QED BY <1>1, <1>2, <1>3, <1>4 DEF Shaped, Dropped, Moved, Posted, Claimed

\* So whatever a status call acknowledges is seen, or overlooked.
LEMMA ViewCommits ==
  ASSUME TypeInv, TypeInv', Places, ViewInv, [Next]_vars,
         NEW a \in Actor, Commit(a), a[1] = "view", call[a].phase = "ack"
  PROVE  call[a].list \subseteq Seen'
<1>1. PICK k \in Viewer : a = <<"view", k>>
  BY ActorKinds
<1>2. call[a].list \in SUBSET Msg /\ call[a].seen \in SUBSET Msg /\ a[2] = k
  BY <1>1 DEF TypeInv, TypeOK, Call
<1>3. Report(a)
  BY DEF Commit
<1> SUFFICES ASSUME NEW i \in Msg, i \in call[a].list PROVE i \in Seen'
  BY <1>2
<1>4. CASE i \in call[a].seen
  BY <1>3, <1>4 DEF Report, Seen
<1>5. CASE i \in late
  BY <1>5, SeenGrows DEF Seen
<1>6. CASE k # Captain
  BY <1>1, <1>4, <1>5, <1>6 DEF ViewInv
<1>7. CASE k = Captain /\ i \notin call[a].seen
  <2> DEFINE A == call[a].list
             S == {j \in Latest(A, InboxWindow) : j > i}
             T == {j \in shown' : j > i /\ letter'[j].to = Captain}
  <2>1. call[a].seen = Latest(A, InboxWindow) /\ i \in A \ Latest(A, InboxWindow)
    BY <1>1, <1>7 DEF ViewInv
  <2>2. Cardinality(S) >= InboxWindow
    <3> HIDE DEF A
    <3> QED BY <2>1, <1>2, LatestAreAfter, BoundsAssumption DEF A
  <2>3. \A j \in A : letter[j].to = Captain /\ letter'[j].to = Captain
    <3>1. Box(a) = Captain
      BY <1>1, <1>7 DEF Box
    <3> QED BY <3>1, <1>2, LettersStay DEF Places
  <2>4. S \subseteq T /\ T \in SUBSET Msg
    BY <1>2, <1>3, <1>7, <2>1, <2>3, LatestType DEF Report, TypeInv, TypeOK
  <2>5. Cardinality(S) <= Cardinality(T) /\ Cardinality(S) \in Nat /\ Cardinality(T) \in Nat
    BY <2>4, Counts
  <2> HIDE DEF S, T
  <2>6. Cardinality(T) >= InboxWindow
    BY <2>2, <2>5, BoundsAssumption
  <2>7. Crowded(i)'
    BY <2>3, <2>6 DEF Crowded, T
  <2> QED BY <2>7 DEF Seen
<1> QED BY <1>4, <1>6, <1>7

FileSeen(f) == \A i \in Msg : f[i] = "read" => i \in Seen

\* What is marked read in any version of a file, and what a direct call is about
\* to mark read, has been seen.
SeenInv ==
  /\ \A k \in Party : FileSeen(inbox[k])
  /\ FileSeen(file)
  /\ \A m \in Claude : FileSeen(answer[m].file)
  /\ \A a \in Actor : Direct(a) /\ call[a].phase \in Done => call[a].list \subseteq Seen

LEMMA SeenInit == Init => SeenInv
BY Actors DEF Init, SeenInv, FileSeen, EmptyFile, Rest, NoAnswer, Done

\* What an update of the calls has to respect.
CallsKept ==
  \A a \in Actor : Direct(a) /\ call'[a].phase \in Done =>
    \/ call'[a].list \subseteq Seen'
    \/ call'[a].list = call[a].list /\ call[a].phase \in Done

\* Nothing seen is forgotten, and files are rewritten only with what was seen.
LEMMA SeenKept ==
  ASSUME SeenInv, Seen \subseteq Seen',
         \A k \in Party : inbox'[k] = inbox[k] \/ FileSeen(inbox[k])',
         file' = file \/ FileSeen(file)',
         \A m \in Claude : answer'[m].file = answer[m].file \/ FileSeen(answer[m].file)',
         CallsKept
  PROVE  SeenInv'
<1>1. \A k \in Party : FileSeen(inbox[k])'
  BY DEF SeenInv, FileSeen
<1>2. FileSeen(file)'
  BY DEF SeenInv, FileSeen
<1>3. \A m \in Claude : FileSeen(answer[m].file)'
  BY DEF SeenInv, FileSeen
<1>4. \A a \in Actor : Direct(a) /\ call'[a].phase \in Done => call'[a].list \subseteq Seen'
  BY DEF SeenInv, CallsKept
<1> QED
  BY <1>1, <1>2, <1>3, <1>4 DEF SeenInv, Direct, Done

\* A step that reads or forgets files, moves calls and shows nothing.
LEMMA QuietStep ==
  ASSUME SeenInv, Seen \subseteq Seen', UNCHANGED inbox,
         file' = file \/ file' = EmptyFile \/ \E k \in Party : file' = inbox[k],
         \A m \in Claude : \/ answer'[m].file = answer[m].file
                          \/ answer'[m].file = EmptyFile
                          \/ \E k \in Party : answer'[m].file = inbox[k],
         CallsKept
  PROVE  SeenInv'
<1>1. \A f : FileSeen(f) => \A i \in Msg : f[i] = "read" => i \in Seen'
  BY DEF FileSeen
<1>2. FileSeen(file)' \/ file' = file
  BY <1>1 DEF SeenInv, FileSeen, EmptyFile
<1>3. \A m \in Claude : answer'[m].file = answer[m].file \/ FileSeen(answer[m].file)'
  BY <1>1 DEF SeenInv, FileSeen, EmptyFile
<1> QED
  BY <1>1, <1>2, <1>3, SeenKept

\* One call moves to another phase, or is set anew.
LEMMA OneCall ==
  ASSUME TypeInv, NEW a \in Actor, NEW r \in Call, call' = [call EXCEPT ![a] = r],
         Direct(a) /\ r.phase \in Done =>
           r.list \subseteq Seen' \/ (r.list = call[a].list /\ call[a].phase \in Done)
  PROVE  CallsKept
BY DEF CallsKept, TypeInv, TypeOK

LEMMA OneEnters ==
  ASSUME TypeInv, NEW a \in Actor, NEW p \in Phase, Enter(a, p),
         Direct(a) /\ p \in Done =>
           call[a].list \subseteq Seen' \/ call[a].phase \in Done
  PROVE  CallsKept
BY DEF CallsKept, TypeInv, TypeOK, Enter, Call

LEMMA OneLeaves ==
  ASSUME TypeInv, NEW a \in Actor, Leave(a)
  PROVE  CallsKept
BY DEF CallsKept, TypeInv, TypeOK, Leave, Rest, Done

LEMMA SeenStep ==
  ASSUME SeenInv, TypeInv, TypeInv', Places, ViewInv, [Next]_vars
  PROVE  SeenInv'
<1> USE Actors
<1>0. TypeOK
  BY DEF TypeInv
<1>b. Seen \subseteq Seen'
  BY SeenGrows
<1>a. ASSUME UNCHANGED call PROVE CallsKept
  BY <1>a DEF CallsKept
<1>c. \A a \in Actor : call[a].list \subseteq shown' \cup noticed' => call[a].list \subseteq Seen'
  BY <1>0 DEF TypeOK, Call, Seen
<1>1. ASSUME NEW i \in Msg, NEW r \in Route, Post(i, r[1], r[2]) PROVE SeenInv'
  <2> DEFINE c == [phase |-> "append", list |-> {i}, seen |-> {}]
  <2>1. c \in Call /\ c.phase \notin Done /\ r[2] \in Party
    BY NamesAssumption DEF Call, Phase, Done
  <2>2. CallsKept
    BY <1>1, <2>1, OneCall DEF Post
  <2> QED
    BY <1>1, <2>1, <2>2, <1>b, QuietStep DEF Post
<1>2. ASSUME NEW i \in Msg, SteerReport(i) PROVE SeenInv'
  <2>1. Seen \subseteq Seen' /\ UNCHANGED <<inbox, file, answer>>
    BY <1>b, <1>2 DEF SteerReport, mail
  <2>2. CallsKept
    <3>1. CASE Show(call[<<"send", i>>].list) /\ Enter(<<"send", i>>, "ack")
      BY <3>1, <1>c, OneEnters DEF Show, Phase
    <3>2. CASE Enter(<<"send", i>>, "release")
      BY <3>2, OneEnters DEF Phase, Done
    <3> QED BY <3>1, <3>2, <1>2 DEF SteerReport
  <2> QED
    BY <2>1, <2>2, SeenKept
<1>3. ASSUME NEW i \in Msg, LeaveInMailbox(i) PROVE SeenInv'
  <2>1. CallsKept
    BY <1>3, OneEnters DEF LeaveInMailbox, Phase, Done
  <2> QED BY <1>3, <2>1, <1>b, QuietStep DEF LeaveInMailbox, mail
<1>4. ASSUME NEW a \in Actor, Take(a) PROVE SeenInv'
  BY <1>4, <1>a, <1>b, QuietStep, BoxOfCall DEF Take, mail, Locked
<1>5. ASSUME NEW a \in Actor, Commit(a) PROVE SeenInv'
  <2> DEFINE op == call[a].phase
             list == call[a].list
  <2>1. op \in Locked /\ op # "rest" /\ call[a] \in Call /\ file \in File
    BY <1>0, <1>5, NoneIsNobody DEF Commit, TypeOK, Locked
  <2>2. Seen \subseteq Seen' /\ (op = "ack" => list \subseteq Seen')
    <3>1. CASE op = "ack" /\ Direct(a)
      BY <3>1, <1>b DEF SeenInv, Done
    <3>2. CASE op # "ack"
      BY <3>2, <1>b
    <3>3. CASE op = "ack" /\ ~Direct(a)
      <4>1. a[1] \in {"wake", "view"}
        BY <3>3, ActorKinds DEF Direct
      <4>2. CASE a[1] = "view"
        BY <3>3, <4>2, <1>5, <1>b, ViewCommits
      <4>3. CASE a[1] = "wake"
        BY <3>3, <4>3, <1>5, <1>b, <1>c DEF Commit
      <4> QED BY <4>1, <4>2, <4>3
    <3> QED BY <3>1, <3>2, <3>3
  <2>3. \A i \in Msg : Rewrite(file, op, list)[i] = "read" => i \in Seen'
    <3>1. \A i \in Msg : Rewrite(file, op, list)[i] = "read" =>
            file[i] = "read" \/ (op = "ack" /\ i \in list)
      BY <2>1 DEF Rewrite, Mark, Locked
    <3> QED BY <3>1, <2>2 DEF FileSeen, SeenInv
  <2>4. \A k \in Party : inbox'[k] = inbox[k] \/ FileSeen(inbox[k])'
    <3>1. \A k \in Party : inbox'[k] = inbox[k] \/ inbox'[k] = Rewrite(file, op, list)
      BY <1>5 DEF Commit, TypeOK
    <3> QED BY <3>1, <2>3 DEF FileSeen
  <2>5. FileSeen(file)'
    BY <1>5 DEF Commit, FileSeen, EmptyFile
  <2>6. CallsKept
    BY <1>5, <2>1, OneEnters, OneLeaves DEF Commit, Phase, Done
  <2> QED
    BY <1>5, <2>2, <2>4, <2>5, <2>6, SeenKept DEF Commit
<1>6. ASSUME NEW a \in Actor, DeliverAccepted(a) PROVE SeenInv'
  <2>1. Seen \subseteq Seen' /\ call[a].list \subseteq Seen'
    BY <1>6, <1>b, <1>c DEF DeliverAccepted, Show
  <2>2. CallsKept
    BY <1>6, <2>1, OneEnters DEF DeliverAccepted, Phase
  <2> QED
    BY <1>6, <2>1, <2>2, SeenKept DEF DeliverAccepted, mail
<1>7. ASSUME NEW a \in Actor, DeliverRejected(a) PROVE SeenInv'
  <2>1. CallsKept
    BY <1>7, OneEnters DEF DeliverRejected, Phase, Done
  <2> QED BY <1>7, <2>1, <1>b, QuietStep DEF DeliverRejected, mail
<1>8. ASSUME NEW m \in Member, KickReadsMail(m) PROVE SeenInv'
  <2> DEFINE r == [phase |-> "claim", list |-> Unread(m), seen |-> {}]
  <2>1. r \in Call /\ r.phase \notin Done
    BY DEF Call, Phase, Unread, Done
  <2>2. CASE call' = [call EXCEPT ![<<"kick", m>>] = r]
    <3> HIDE DEF r
    <3>1. CallsKept
      BY <2>1, <2>2, OneCall
    <3> QED BY <3>1, <1>8, <1>b, QuietStep DEF KickReadsMail, mail
  <2>3. CASE call' = call
    BY <2>3, <1>a, <1>8, <1>b, QuietStep DEF KickReadsMail, mail
  <2> QED BY <2>2, <2>3, <1>8 DEF KickReadsMail
<1>9. ASSUME NEW m \in Member, MemberIdle(m) PROVE SeenInv'
  BY <1>9, <1>a, <1>b, QuietStep DEF MemberIdle, mail, section
<1>10. ASSUME NEW m \in Claude, CliAnswers(m) PROVE SeenInv'
  <2> DEFINE a == <<"kick", m>>
  <2>1. Seen \subseteq Seen' /\ call[a].list \subseteq Seen' /\ a \in Actor
    BY <1>10, <1>b, <1>c, NamesAssumption DEF CliAnswers, Show
  <2>2. CallsKept
    BY <1>10, <2>1, OneEnters DEF CliAnswers, Phase
  <2>3. \A n \in Claude : answer'[n].file = answer[n].file
    BY <1>10 DEF CliAnswers, TypeOK
  <2> QED
    BY <1>10, <2>1, <2>2, <2>3, SeenKept DEF CliAnswers, mail
<1>11. ASSUME NEW m \in Claude, CliFails(m) PROVE SeenInv'
  <2>1. CallsKept
    BY <1>11, OneEnters, NamesAssumption DEF CliFails, Phase, Done
  <2> QED BY <1>11, <2>1, <1>b, QuietStep DEF CliFails, mail
<1>12. ASSUME NEW m \in Claude, ReplyWrite(m) PROVE SeenInv'
  <2>1. answer[m].file \in File /\ FileSeen(answer[m].file)
    BY <1>0 DEF TypeOK, SeenInv
  <2>2. Seen \subseteq Seen' /\ CallsKept
    BY <1>12, <1>a, <1>b DEF ReplyWrite, section
  <2>3. \A k \in Party : inbox'[k] = inbox[k] \/ FileSeen(inbox[k])'
    BY <1>12, <2>1, <2>2 DEF ReplyWrite, TypeOK, FileSeen, File
  <2>4. \A n \in Claude : answer'[n].file = answer[n].file \/ FileSeen(answer[n].file)'
    BY <1>12, <1>0 DEF ReplyWrite, TypeOK, FileSeen, EmptyFile
  <2> QED
    BY <1>12, <2>2, <2>3, <2>4, SeenKept DEF ReplyWrite, section
<1>13. ASSUME NEW m \in Claude, ReplyDone(m) PROVE SeenInv'
  <2>1. CallsKept
    BY <1>13, OneEnters, NamesAssumption DEF ReplyDone, Phase, Done
  <2>2. \A n \in Claude : answer'[n].file = answer[n].file \/ answer'[n].file = EmptyFile
    BY <1>13 DEF ReplyDone, NoAnswer
  <2> QED BY <1>13, <2>1, <2>2, <1>b, QuietStep DEF ReplyDone, mail
<1>14. ASSUME NEW m \in Claude, NEW f \in Party, NEW i \in Msg, ReplyRead(m, f, i) PROVE SeenInv'
  <2>1. \A n \in Claude : answer'[n].file = answer[n].file \/ answer'[n].file = inbox[f]
    BY <1>14 DEF ReplyRead, TypeOK
  <2> QED BY <1>14, <2>1, <1>a, <1>b, QuietStep DEF ReplyRead, section
<1>15. ASSUME CaptainTurn PROVE SeenInv'
  BY <1>15, <1>a, <1>b, QuietStep DEF CaptainTurn, mail, section
<1>16. ASSUME CaptainIdle PROVE SeenInv'
  <2>1. CallsKept
    <3>1. ASSUME NEW l \in Listener, call' = [call EXCEPT ![<<"wake", l>>].phase = "read"]
          PROVE  CallsKept
      BY <3>1, OneEnters DEF Enter, Phase, Done
    <3> QED BY <3>1, <1>a, <1>16 DEF CaptainIdle
  <2> QED BY <1>16, <2>1, <1>b, QuietStep DEF CaptainIdle, mail
<1>17. ASSUME NEW l \in Listener, ListenerReads(l) PROVE SeenInv'
  <2> DEFINE a == <<"wake", l>>
             r == [phase |-> "ack", list |-> Unread(Captain), seen |-> {}]
  <2>1. r \in Call /\ ~Direct(a) /\ a \in Actor
    BY DEF Call, Phase, Unread, Direct
  <2>2. CASE call' = [call EXCEPT ![a] = r]
    <3> HIDE DEF r, a
    <3>1. CallsKept
      BY <2>1, <2>2, OneCall
    <3> QED BY <3>1, <1>17, <1>b, QuietStep DEF ListenerReads, mail
  <2>3. CASE Leave(a)
    BY <2>1, <2>3, OneLeaves, <1>17, <1>b, QuietStep DEF ListenerReads, mail
  <2> QED BY <2>2, <2>3, <1>17 DEF ListenerReads
<1>18. ASSUME CaptainAsks PROVE SeenInv'
  <2>1. CallsKept
    BY <1>18, OneEnters DEF CaptainAsks, Phase, Done
  <2> QED BY <1>18, <2>1, <1>b, QuietStep DEF CaptainAsks, mail
<1>19. ASSUME NEW k \in Viewer, NEW r \in Call, call' = [call EXCEPT ![<<"view", k>>] = r],
             UNCHANGED <<mail, lock, file, answer>>
      PROVE  SeenInv'
  <2>1. CallsKept
    BY <1>19, OneCall DEF Direct
  <2> QED BY <1>19, <2>1, <1>b, QuietStep DEF mail
<1>20. ASSUME CaptainReads PROVE SeenInv'
  <2> DEFINE r == IF Unread(Captain) = {} THEN Rest
                  ELSE [phase |-> "ack", list |-> Unread(Captain),
                        seen |-> Latest(Unread(Captain), InboxWindow)]
  <2>1. r \in Call /\ Captain \in Viewer
    BY <1>20 DEF Call, Phase, Rest, Unread, Latest, CaptainReads, Actor
  <2> QED
    BY <1>19, <1>20, <2>1 DEF CaptainReads, Acknowledge
<1>21. ASSUME NEW m \in Viewer \cap Member, MemberReads(m) PROVE SeenInv'
  <2>1. [phase |-> "reread", list |-> {}, seen |-> Unread(m)] \in Call
    BY DEF Call, Phase, Unread, Latest
  <2> QED
    BY <1>19, <1>21, <2>1 DEF MemberReads
<1>22. ASSUME NEW m \in Viewer \cap Member, MemberRereads(m) PROVE SeenInv'
  <2> DEFINE r == IF Unread(m) = {} THEN Rest
                  ELSE [phase |-> "ack", list |-> Unread(m), seen |-> call[<<"view", m>>].seen]
  <2>1. r \in Call
    <3>1. call[<<"view", m>>].seen \in SUBSET Msg
      BY <1>0 DEF TypeOK, Call
    <3> QED BY <3>1 DEF Call, Phase, Rest, Unread
  <2> QED
    BY <1>19, <1>22, <2>1 DEF MemberRereads, Acknowledge
<1>23. ASSUME NEW a \in Actor, FileError(a) PROVE SeenInv'
  <2>1. CallsKept
    BY <1>23, OneLeaves DEF FileError
  <2>2. \A m \in Claude : answer'[m].file = answer[m].file \/ answer'[m].file = EmptyFile
    BY <1>23 DEF FileError, NoAnswer
  <2> QED BY <1>23, <2>1, <2>2, <1>b, QuietStep DEF FileError, mail
<1>24. ASSUME NEW k \in Party, NEW i \in Msg, Expire(k, i) PROVE SeenInv'
  <2>1. Seen \subseteq Seen' /\ CallsKept
    BY <1>24, <1>a, <1>b DEF Expire, section
  <2>2. \A l \in Party : FileSeen(inbox[l])'
    BY <1>24, <2>1 DEF Expire, TypeOK, FileSeen, SeenInv, File
  <2> QED
    BY <1>24, <2>1, <2>2, SeenKept DEF Expire, section
<1>25. ASSUME Crash PROVE SeenInv'
  <2>1. CallsKept
    BY <1>25 DEF Crash, CallsKept, Rest, Done
  <2>2. \A m \in Claude : answer'[m].file = EmptyFile
    BY <1>25 DEF Crash, NoAnswer
  <2> QED BY <1>25, <2>1, <2>2, <1>b, QuietStep DEF Crash, mail
<1>26. ASSUME UNCHANGED vars PROVE SeenInv'
  BY <1>26, <1>a, <1>b, QuietStep DEF vars, mail, section
<1> QED
  BY <1>1, <1>2, <1>3, <1>4, <1>5, <1>6, <1>7, <1>8, <1>9, <1>10, <1>11, <1>12, <1>13,
     <1>14, <1>15, <1>16, <1>17, <1>18, <1>20, <1>21, <1>22, <1>23, <1>24, <1>25, <1>26 DEF Next

\* Whatever fails and whoever overwrites whose version of a mailbox, a message is
\* marked read only after its recipient got it or a count that has it, except by a
\* status call whose member's second reading found it or whose result had no
\* place for it beside InboxWindow newer messages the captain got.
THEOREM ReadMeansSeen == Spec => []ReadWasSeen
<1>1. SeenInv => ReadWasSeen
  BY DEF SeenInv, ReadWasSeen, FileSeen, Seen, Crowded, Overlooked
<1>2. CallInv /\ ViewInv /\ SeenInv /\ [Next]_vars => ViewInv' /\ SeenInv'
  BY CallStep, ViewStep, SeenStep DEF CallInv
<1> QED
  BY <1>1, <1>2, CallInit, CallStep, ViewInit, SeenInit, PTL DEF Spec
-----------------------------------------------------------------------------
(* A message is handed over once *)

\* The holder of the lock has the mailbox as it is before it, as long as the
\* mailbox is written under the lock.
FileIs == lock # None /\ UnderLock(Box(lock)) => file = inbox[Box(lock)]

LEMMA FileStep ==
  ASSUME TypeInv, TypeInv', Replies, Places, FileIs, [Next]_vars
  PROVE  FileIs'
<1> USE Actors
<1>0. TypeOK /\ TypeOK'
  BY DEF TypeInv
<1> SUFFICES ASSUME lock' # None, UnderLock(Box(lock))' PROVE file' = inbox'[Box(lock)']
  BY DEF FileIs
<1>1. CASE lock' = lock /\ file' = file
  <2>1. lock \in Actor /\ call[lock].phase # "rest"
    BY <1>1, <1>0 DEF TypeOK, Locked
  <2>2. Box(lock) \in Party /\ Box(lock)' = Box(lock)
    BY <2>1, <1>1, BoxStays, BoxOfCall DEF Box
  <2>3. UnderLock(Box(lock))
    BY <2>2, LocksGoBack DEF UnderLock
  <2>4. file = inbox[Box(lock)]
    BY <2>3, <1>1 DEF FileIs
  <2>5. ASSUME NEW a \in Actor, Commit(a) PROVE FALSE
    BY <2>5, <1>1 DEF Commit
  <2>6. ASSUME NEW m \in Claude, ReplyWrite(m) PROVE inbox'[Box(lock)] = inbox[Box(lock)]
    <3>1. answer[m].id \in Msg /\ letter[answer[m].id].from = m
      BY <2>6, <1>0 DEF ReplyWrite, TypeOK, Replies
    <3>2. letter[answer[m].id].to # Box(lock)
      BY <3>1, <2>3 DEF UnderLock
    <3> QED BY <2>2, <2>6, <3>2, <1>0 DEF ReplyWrite, TypeOK
  <2>7. ASSUME NEW k \in Party, NEW i \in Msg, Expire(k, i) PROVE inbox'[Box(lock)] = inbox[Box(lock)]
    BY <2>2, <2>7, <1>1, <1>0 DEF Expire, TypeOK
  <2>8. inbox'[Box(lock)] = inbox[Box(lock)]
    BY <2>5, <2>6, <2>7, TouchStep
  <2> QED BY <2>2, <2>4, <2>8, <1>1
<1>2. ASSUME NEW i \in Msg, NEW r \in Route, Post(i, r[1], r[2]) PROVE file' = inbox'[Box(lock)']
  <2>1. Box(lock)' = r[2]
    BY <1>2, <1>0, NamesAssumption DEF Post, Box, TypeOK
  <2> QED BY <2>1, <1>2 DEF Post
<1>3. ASSUME NEW a \in Actor, Take(a) PROVE file' = inbox'[Box(lock)']
  <2>1. Box(lock)' = Box(a)
    BY <1>3, BoxStays DEF Take, Box, Locked
  <2> QED BY <2>1, <1>3 DEF Take, mail
<1> QED BY <1>1, <1>2, <1>3, TouchStep

\* A direct call has the message in hand; which records go with its phase.
Holds(a, i) == Direct(a) /\ i \in call[a].list
Fits(p, r) ==
  \/ p = "append" /\ r = "absent"
  \/ p = "claim" /\ r \in {"unread", "read"}
  \/ p \in {"deliver", "reply", "ack", "release"} /\ r \in {"claimed", "read"}

Record(i) == inbox[letter[i].to][i]

\* A message told as often as it may be is marked read, or about to be, by
\* whoever has it in hand.
Spent(i) ==
  /\ Record(i) = "read" \/ \E a \in Actor : Holds(a, i) /\ call[a].phase \in Done
  /\ \A a \in Actor : Holds(a, i) => call[a].phase \in Done

Once(i) ==
  /\ \A a, b \in Actor : Holds(a, i) /\ Holds(b, i) => a = b
  /\ \A a \in Actor : Holds(a, i) => Fits(call[a].phase, Record(i))
  /\ told[i] <= 1 + breaks
  /\ told[i] <= breaks \/ Spent(i)

OnceInv == \A i \in Msg : letter[i] # NoLetter /\ UnderLock(letter[i].to) => Once(i)

\* The message's record stays, it is not told, and whoever has it in hand keeps
\* it, drops it or goes on without having told it; unless something broke a call
\* that is about to mark it read stays so.
LEMMA OnceKept ==
  ASSUME NEW i \in Msg, TypeInv, TypeInv', Once(i), Record(i)' = Record(i), told'[i] = told[i],
         \A a \in Actor : Holds(a, i)' =>
           /\ Holds(a, i)
           /\ \/ call'[a].phase = call[a].phase
              \/ call[a].phase = "deliver" /\ call'[a].phase = "release"
              \/ call[a].phase = "reply" /\ call'[a].phase = "ack",
         \/ breaks' = breaks + 1
         \/ breaks' = breaks /\ \A a \in Actor :
              Holds(a, i) /\ call[a].phase \in Done => Holds(a, i)' /\ call'[a].phase \in Done
  PROVE  Once(i)'
<1>0. told[i] \in Nat /\ breaks \in Nat
  BY BoundsAssumption DEF TypeInv, TypeOK
<1>1. \A a, b \in Actor : Holds(a, i)' /\ Holds(b, i)' => a = b
  BY DEF Once
<1>2. ASSUME NEW a \in Actor, Holds(a, i)' PROVE Fits(call'[a].phase, Record(i)')
  <2>1. Fits(call[a].phase, Record(i))
    BY <1>2 DEF Once
  <2> QED BY <1>2, <2>1 DEF Fits
<1>3. told'[i] <= 1 + breaks'
  BY <1>0 DEF Once
<1>4. told'[i] <= breaks' \/ Spent(i)'
  <2>1. CASE breaks' = breaks + 1
    BY <2>1, <1>0 DEF Once
  <2>2. CASE breaks' = breaks /\ told[i] <= breaks
    BY <2>2
  <2>3. CASE Spent(i) /\ \A a \in Actor :
               Holds(a, i) /\ call[a].phase \in Done => Holds(a, i)' /\ call'[a].phase \in Done
    <3>1. \A a \in Actor : Holds(a, i)' => call'[a].phase \in Done
      BY <2>3 DEF Spent
    <3>2. Record(i)' = "read" \/ \E a \in Actor : Holds(a, i)' /\ call'[a].phase \in Done
      BY <2>3 DEF Spent
    <3> QED BY <3>1, <3>2 DEF Spent, Done
  <2> QED BY <2>1, <2>2, <2>3 DEF Once
<1> QED
  BY <1>1, <1>2, <1>3, <1>4 DEF Once

\* One call moves on, others stay.
LEMMA OnceMoves ==
  ASSUME NEW i \in Msg, TypeInv, TypeInv', Once(i), Record(i)' = Record(i),
         told'[i] = told[i], breaks' = breaks,
         NEW a \in Actor, NEW p, Enter(a, p),
         \/ i \notin call[a].list
         \/ call[a].phase = "deliver" /\ p = "release"
         \/ call[a].phase = "reply" /\ p = "ack"
  PROVE  Once(i)'
<1>1. call'[a].phase = p /\ call'[a].list = call[a].list
      /\ \A b \in Actor : b # a => call'[b] = call[b]
  BY EnterShape
<1>2. \A b \in Actor : Holds(b, i)' <=> Holds(b, i)
  BY <1>1 DEF Holds, Direct
<1> QED
  BY <1>1, <1>2, OnceKept DEF Holds, Done

\* The recipient is told: whoever tells it goes on to mark it read.
LEMMA OnceTold ==
  ASSUME NEW i \in Msg, TypeInv, TypeInv', Roles, Once(i), Record(i)' = Record(i), breaks' = breaks,
         NEW a \in Actor, call[a].phase = "deliver", Told(call[a].list),
         NEW p \in Done, Enter(a, p)
  PROVE  Once(i)'
<1>0. told[i] \in Nat /\ breaks \in Nat /\ Direct(a)
  BY BoundsAssumption DEF TypeInv, TypeOK, Roles
<1>1. call'[a].phase = p /\ call'[a].list = call[a].list
      /\ \A b \in Actor : b # a => call'[b] = call[b]
  BY EnterShape
<1>2. CASE i \notin call[a].list
  <2>1. told'[i] = told[i]
    BY <1>2 DEF Told
  <2> QED BY <1>2, <2>1, OnceMoves
<1>3. CASE i \in call[a].list
  <2>1. \A b \in Actor : Holds(b, i)' <=> Holds(b, i)
    BY <1>1 DEF Holds, Direct
  <2>2. Holds(a, i) /\ \A b \in Actor : Holds(b, i) => b = a
    BY <1>0, <1>3 DEF Holds, Once
  <2>3. told[i] <= breaks
    BY <2>2 DEF Once, Spent, Done
  <2>4. told'[i] <= 1 + breaks
    <3>1. told'[i] = told[i] \/ told'[i] = told[i] + 1
      BY DEF Told
    <3> QED BY <3>1, <2>3, <1>0
  <2>5. Spent(i)'
    BY <1>1, <2>1, <2>2 DEF Spent, Done
  <2>6. Fits(p, Record(i))
    BY <2>2 DEF Once, Fits, Done
  <2> QED
    BY <1>1, <2>1, <2>2, <2>4, <2>5, <2>6 DEF Once
<1> QED BY <1>2, <1>3

\* No call that may have the message in hand changes.
LEMMA OnceStays ==
  ASSUME NEW i \in Msg, TypeInv, TypeInv', Once(i), Record(i)' = Record(i),
         told'[i] = told[i], breaks' = breaks,
         \A a \in Actor : Direct(a) => call'[a] = call[a]
  PROVE  Once(i)'
BY OnceKept DEF Holds, Direct

\* A call ends that has not the message in hand, or something broke.
LEMMA OnceLeaves ==
  ASSUME NEW i \in Msg, TypeInv, TypeInv', Once(i), Record(i)' = Record(i), told'[i] = told[i],
         NEW a \in Actor, Leave(a),
         breaks' = breaks + 1 \/ (breaks' = breaks /\ ~Holds(a, i))
  PROVE  Once(i)'
<1>1. call'[a].list = {} /\ \A b \in Actor : b # a => call'[b] = call[b]
  BY LeaveShape
<1>2. \A b \in Actor : Holds(b, i)' => Holds(b, i) /\ call'[b] = call[b]
  BY <1>1 DEF Holds, Direct
<1>3. ~Holds(a, i) => \A b \in Actor : Holds(b, i) => Holds(b, i)' /\ call'[b] = call[b]
  BY <1>1 DEF Holds, Direct
<1> QED BY <1>2, <1>3, OnceKept

\* A new message is claimed by the call that appends it.
LEMMA OnceBegins ==
  ASSUME TypeInv, TypeInv', Roles, Places, [Next]_vars, NEW i \in Msg,
         letter[i] = NoLetter, letter'[i] # NoLetter, UnderLock(letter[i].to)'
  PROVE  Once(i)'
<1> USE Actors
<1>0. TypeOK
  BY DEF TypeInv
<1>1. ASSUME NEW m \in Claude, NEW f \in Party, NEW j \in Msg, ReplyRead(m, f, j) PROVE FALSE
  <2>1. i = j /\ letter'[i].from = m
    BY <1>1, <1>0 DEF ReplyRead, TypeOK
  <2> QED BY <2>1 DEF UnderLock
<1>2. ASSUME NEW j \in Msg, NEW r \in Route, Post(j, r[1], r[2]) PROVE Once(i)'
  <2> DEFINE c == [phase |-> "append", list |-> {j}, seen |-> {}]
  <2>1. i = j /\ letter'[i].to = r[2] /\ r[2] \in Party
    BY <1>2, <1>0, NamesAssumption DEF Post, TypeOK
  <2>2. c.phase = "append" /\ c.list = {i} /\ call' = [call EXCEPT ![<<"send", i>>] = c]
    BY <1>2, <2>1 DEF Post
  <2> HIDE DEF c
  <2>3. call'[<<"send", i>>] = c /\ \A b \in Actor : b # <<"send", i>> => call'[b] = call[b]
    BY <2>2, SetShape
  <2>4. \A a \in Actor : Holds(a, i)' <=> a = <<"send", i>>
    BY <2>2, <2>3 DEF Holds, Direct, Places
  <2>5. inbox' = inbox /\ breaks' = breaks /\ told' = told
    BY <1>2 DEF Post, seen
  <2>6. Record(i)' = "absent"
    <3>1. letter[i].to # r[2]
      BY <2>1, NamesAssumption DEF NoLetter
    <3> QED BY <2>1, <2>5, <3>1 DEF Record, Places
  <2>7. told'[i] = 0 /\ breaks' \in Nat
    BY <2>5, <1>0, BoundsAssumption DEF Places, TypeOK
  <2>8. \A a \in Actor : Holds(a, i)' => Fits(call'[a].phase, Record(i)')
    BY <2>2, <2>3, <2>4, <2>6 DEF Fits
  <2>9. \A a, b \in Actor : Holds(a, i)' /\ Holds(b, i)' => a = b
    BY <2>4
  <2>10. told'[i] <= breaks' /\ told'[i] <= 1 + breaks'
    BY <2>7
  <2> QED
    BY <2>8, <2>9, <2>10 DEF Once
<1>3. \/ \E j \in Msg, r \in Route : Post(j, r[1], r[2])
      \/ \E m \in Claude, f \in Party, j \in Msg : ReplyRead(m, f, j)
  BY DEF Next, vars, mail, SteerReport, LeaveInMailbox, Take, Commit, DeliverAccepted, DeliverRejected,
     KickReadsMail, MemberIdle, CliAnswers, CliFails, ReplyWrite, ReplyDone, CaptainTurn, CaptainIdle,
     ListenerReads, CaptainAsks, CaptainReads, MemberReads, MemberRereads, FileError, Expire, Crash
<1> QED BY <1>1, <1>2, <1>3

\* A locked section: it claims what it appends, takes what is unread, marks read
\* or releases what it has in hand; an acknowledgement of listener or status
\* call marks what others have in hand.
LEMMA OnceCommits ==
  ASSUME TypeInv, TypeInv', Roles, Places, FileIs, NEW i \in Msg, Once(i),
         letter[i] # NoLetter, UnderLock(letter[i].to), NEW a \in Actor, Commit(a)
  PROVE  Once(i)'
<1> DEFINE op == call[a].phase
           list == call[a].list
           k == letter[i].to
<1>0. TypeOK /\ op \in Locked /\ op # "rest" /\ lock = a /\ a # None /\ Box(a) \in Party
  BY NoneIsNobody, BoxOfCall DEF Commit, TypeOK, Locked, TypeInv
<1>1. letter' = letter /\ told' = told /\ breaks' = breaks /\ k \in Party
      /\ inbox' = [inbox EXCEPT ![Box(a)] = Rewrite(file, op, list)]
  BY <1>0 DEF Commit, TypeOK, NoLetter
<1>2. Record(i)' = inbox'[k][i]
  BY <1>1 DEF Record
<1>3. Box(a) = k => file[i] = Record(i) /\ Record(i)' = Rewrite(file, op, list)[i]
  BY <1>0, <1>1, <1>2 DEF FileIs, Record, TypeOK
<1>4. Box(a) # k => Record(i)' = Record(i)
  BY <1>0, <1>1, <1>2 DEF Record, TypeOK
<1>5. i \in list => Box(a) = k
  BY DEF Places
<1>6. told[i] \in Nat /\ breaks \in Nat
  BY <1>0, BoundsAssumption DEF TypeOK
<1>7. /\ \A b \in Actor : b # a => call'[b] = call[b]
      /\ \/ op \in {"append", "claim"} /\ call'[a].phase = "deliver" /\ call'[a].list = list
         \/ op \in {"ack", "release"} /\ call'[a].list = {}
  <2>1. CASE op \in {"append", "claim"}
    BY <2>1, EnterShape DEF Commit
  <2>2. CASE op \in {"ack", "release"}
    BY <2>2, LeaveShape DEF Commit
  <2> QED BY <2>1, <2>2, <1>0 DEF Locked
<1>8. CASE i \notin list
  <2>1. Record(i)' = Record(i)
    BY <1>3, <1>4, <1>8 DEF Rewrite
  <2>2. \A b \in Actor : Holds(b, i)' <=> Holds(b, i) /\ b # a
    BY <1>7, <1>8 DEF Holds, Direct
  <2>3. ~Holds(a, i)
    BY <1>8 DEF Holds
  <2> QED BY <1>1, <1>7, <2>1, <2>2, <2>3, OnceKept
<1>9. CASE i \in list /\ Direct(a)
  <2>1. Holds(a, i) /\ (\A b \in Actor : Holds(b, i) => b = a) /\ Fits(op, Record(i))
    BY <1>9 DEF Holds, Once
  <2>2. Record(i)' = IF op # "append" /\ Record(i) \in {"absent", "read"} THEN Record(i) ELSE Mark[op]
    BY <1>3, <1>5, <1>9 DEF Rewrite
  <2>3. CASE op \in {"append", "claim"}
    <3>1. \A b \in Actor : Holds(b, i)' <=> b = a
      BY <1>7, <1>9, <2>1, <2>3 DEF Holds, Direct
    <3>2. Record(i)' \in {"claimed", "read"} /\ call'[a].phase = "deliver"
      BY <1>7, <2>1, <2>2, <2>3 DEF Mark, Fits
    <3>3. told[i] <= breaks
      BY <2>1, <2>3 DEF Once, Spent, Done
    <3>4. told'[i] <= breaks' /\ told'[i] <= 1 + breaks'
      BY <1>1, <1>6, <3>3
    <3>5. \A b \in Actor : Holds(b, i)' => Fits(call'[b].phase, Record(i)')
      BY <3>1, <3>2 DEF Fits
    <3> QED BY <3>1, <3>4, <3>5 DEF Once
  <2>4. CASE op \in {"ack", "release"}
    <3>1. \A b \in Actor : ~Holds(b, i)'
      BY <1>7, <2>1, <2>4 DEF Holds, Direct
    <3>2. CASE op = "ack"
      <4>1. Record(i)' = "read"
        BY <2>1, <2>2, <3>2 DEF Mark, Fits
      <4>2. told'[i] <= 1 + breaks'
        BY <1>1 DEF Once
      <4> QED BY <3>1, <4>1, <4>2 DEF Once, Spent
    <3>3. CASE op = "release"
      <4>1. told[i] <= breaks
        BY <2>1, <3>3 DEF Once, Spent, Done
      <4>2. told'[i] <= breaks' /\ told'[i] <= 1 + breaks'
        BY <1>1, <1>6, <4>1
      <4> QED BY <3>1, <4>2 DEF Once
    <3> QED BY <2>4, <3>2, <3>3
  <2> QED BY <2>3, <2>4, <1>0 DEF Locked
<1>10. CASE i \in list /\ ~Direct(a)
  <2>1. op = "ack"
    BY <1>0, <1>10 DEF Roles, Locked
  <2>2. Record(i)' = IF Record(i) = "absent" THEN Record(i) ELSE "read"
    BY <1>3, <1>5, <1>10, <2>1 DEF Rewrite, Mark
  <2>3. \A b \in Actor : Holds(b, i)' <=> Holds(b, i)
    BY <1>7, <1>10 DEF Holds, Direct
  <2>4. \A b \in Actor : Holds(b, i) => call'[b] = call[b]
    BY <1>7, <1>10 DEF Holds
  <2>5. CASE Record(i) = "absent"
    <3>1. Record(i)' = Record(i)
      BY <2>2, <2>5
    <3> QED BY <1>1, <2>3, <2>4, <3>1, OnceKept
  <2>6. CASE Record(i) # "absent"
    <3>1. Record(i)' = "read"
      BY <2>2, <2>6
    <3>2. ASSUME NEW b \in Actor, Holds(b, i) PROVE Fits(call'[b].phase, "read")
      BY <3>2, <2>4, <2>6 DEF Once, Fits
    <3>3. told'[i] <= breaks' \/ Spent(i)'
      BY <1>1, <2>3, <2>4, <3>1 DEF Once, Spent, Done
    <3>4. told'[i] <= 1 + breaks'
      BY <1>1 DEF Once
    <3> QED BY <2>3, <3>1, <3>2, <3>3, <3>4 DEF Once
  <2> QED BY <2>5, <2>6
<1> QED BY <1>8, <1>9, <1>10

\* A kick finds unread messages, which nobody else has in hand.
LEMMA OnceClaims ==
  ASSUME TypeInv, TypeInv', Roles, Places, NEW i \in Msg, Once(i),
         letter[i] # NoLetter, NEW m \in Member, KickReadsMail(m)
  PROVE  Once(i)'
<1> DEFINE a == <<"kick", m>>
           c == [phase |-> "claim", list |-> Unread(m), seen |-> {}]
<1>0. TypeOK /\ a \in Actor /\ m \in Party /\ told[i] \in Nat /\ breaks \in Nat
  BY Actors, BoundsAssumption DEF Party, TypeInv, TypeOK
<1>1. Record(i)' = Record(i) /\ told' = told /\ breaks' = breaks /\ letter' = letter /\ inbox' = inbox
  BY DEF KickReadsMail, mail, seen, Record
<1>2. CASE call' = call
  BY <1>1, <1>2, OnceStays
<1>3. CASE call' = [call EXCEPT ![a] = c]
  <2>1. c.phase = "claim" /\ c.list = Unread(m)
    OBVIOUS
  <2> HIDE DEF c
  <2>2. call'[a] = c /\ \A b \in Actor : b # a => call'[b] = call[b]
    BY <1>0, <1>3, SetShape
  <2>3. ~Holds(a, i)
    BY <1>0 DEF Holds, Places, KickReadsMail
  <2>4. CASE i \notin Unread(m)
    <3>1. ~Holds(a, i)'
      BY <2>1, <2>2, <2>4 DEF Holds
    <3> QED BY <1>1, <2>2, <2>3, <3>1, OnceKept DEF Holds, Direct
  <2>5. CASE i \in Unread(m)
    <3>1. letter[i].to = m /\ Record(i) = "unread"
      BY <1>0, <2>5 DEF Unread, Places, Record
    <3>2. ASSUME NEW b \in Actor, Holds(b, i) PROVE FALSE
      <4>1. call[b].phase = "claim" /\ Direct(b) /\ Box(b) = m
        BY <3>1, <3>2 DEF Holds, Once, Fits, Places
      <4>2. b[1] # "send"
        BY <4>1 DEF Roles
      <4>3. b = a
        BY <4>1, <4>2, ActorKinds DEF Direct, Box
      <4> QED BY <4>3, <3>2, <2>3
    <3>3. told[i] <= breaks
      BY <3>1, <3>2 DEF Once, Spent
    <3>4. \A b \in Actor : Holds(b, i)' => b = a
      BY <2>2, <3>2 DEF Holds, Direct
    <3>5. Fits(call'[a].phase, Record(i)')
      BY <1>1, <2>1, <2>2, <3>1 DEF Fits
    <3>6. told'[i] <= 1 + breaks' /\ told'[i] <= breaks'
      BY <1>0, <1>1, <3>3
    <3> QED BY <3>4, <3>5, <3>6 DEF Once
  <2> QED BY <2>4, <2>5
<1> QED BY <1>2, <1>3 DEF KickReadsMail

LEMMA OnceStep ==
  ASSUME "slow" \notin Faults, TypeInv, TypeInv', Replies, Roles, Places, FileIs, [Next]_vars,
         NEW i \in Msg, Once(i), letter[i] # NoLetter, UnderLock(letter[i].to)
  PROVE  Once(i)'
<1> USE Actors
<1> DEFINE k == letter[i].to
<1>0. TypeOK /\ k \in Party /\ told[i] \in Nat /\ breaks \in Nat
  BY BoundsAssumption DEF TypeInv, TypeOK, NoLetter
<1>a. letter'[i] = letter[i]
  BY LettersStay
<1>b. inbox' = inbox => Record(i)' = Record(i)
  BY <1>a DEF Record
<1>1. ASSUME NEW j \in Msg, NEW r \in Route, Post(j, r[1], r[2]) PROVE Once(i)'
  <2> DEFINE c == [phase |-> "append", list |-> {j}, seen |-> {}]
  <2>1. i # j /\ c.list = {j} /\ call' = [call EXCEPT ![<<"send", j>>] = c]
    BY <1>1 DEF Post, Fresh
  <2> HIDE DEF c
  <2>2. call'[<<"send", j>>] = c /\ \A b \in Actor : b # <<"send", j>> => call'[b] = call[b]
    BY <2>1, SetShape
  <2>3. ~Holds(<<"send", j>>, i) /\ ~Holds(<<"send", j>>, i)'
    BY <2>1, <2>2 DEF Holds, Roles
  <2>4. told'[i] = told[i] /\ breaks' = breaks /\ Record(i)' = Record(i)
    BY <1>1, <1>b DEF Post, seen
  <2> QED
    BY <2>2, <2>3, <2>4, OnceKept DEF Holds, Direct
<1>2. ASSUME NEW j \in Msg, SteerReport(j) PROVE Once(i)'
  <2>1. Record(i)' = Record(i) /\ breaks' = breaks
    BY <1>2, <1>b DEF SteerReport, mail
  <2>2. CASE Show(call[<<"send", j>>].list) /\ Enter(<<"send", j>>, "ack")
    BY <2>1, <2>2, <1>2, OnceTold DEF Show, SteerReport, Delivering, Done
  <2>3. CASE UNCHANGED seen /\ Enter(<<"send", j>>, "release")
    BY <2>1, <2>3, <1>2, OnceMoves DEF seen, SteerReport, Delivering
  <2> QED BY <2>2, <2>3, <1>2 DEF SteerReport
<1>3. ASSUME NEW j \in Msg, LeaveInMailbox(j) PROVE Once(i)'
  BY <1>3, <1>b, OnceMoves DEF LeaveInMailbox, Delivering, mail, seen
<1>4. ASSUME NEW a \in Actor, Take(a) PROVE Once(i)'
  BY <1>4, <1>b, OnceStays DEF Take, mail, seen
<1>5. ASSUME NEW a \in Actor, Commit(a) PROVE Once(i)'
  BY <1>5, OnceCommits
<1>6. ASSUME NEW a \in Actor, DeliverAccepted(a) PROVE Once(i)'
  BY <1>6, <1>b, OnceTold DEF DeliverAccepted, Delivering, Show, mail, Done
<1>7. ASSUME NEW a \in Actor, DeliverRejected(a) PROVE Once(i)'
  BY <1>7, <1>b, OnceMoves DEF DeliverRejected, Delivering, mail, seen
<1>8. ASSUME NEW m \in Member, KickReadsMail(m) PROVE Once(i)'
  BY <1>8, OnceClaims
<1>9. ASSUME UNCHANGED <<call, inbox, told, breaks>> PROVE Once(i)'
  BY <1>9, <1>b, OnceStays
<1>10. CASE (\E m \in Member : MemberIdle(m)) \/ CaptainTurn \/ UNCHANGED vars
            \/ \E m \in Claude, f \in Party, j \in Msg : ReplyRead(m, f, j)
  BY <1>9, <1>10 DEF MemberIdle, CaptainTurn, ReplyRead, vars, mail, section, seen
<1>11. ASSUME NEW m \in Claude, CliAnswers(m) \/ CliFails(m) \/ ReplyDone(m) PROVE Once(i)'
  <2>1. <<"kick", m>> \in Actor
    BY NamesAssumption
  <2>2. Record(i)' = Record(i) /\ breaks' = breaks
    BY <1>11, <1>b DEF CliAnswers, CliFails, ReplyDone, mail
  <2>3. CASE CliAnswers(m)
    BY <2>1, <2>2, <2>3, OnceTold DEF CliAnswers, Delivering, Show, Done
  <2>4. CASE CliFails(m)
    BY <2>1, <2>2, <2>4, OnceMoves DEF CliFails, Delivering, seen
  <2>5. CASE ReplyDone(m)
    BY <2>1, <2>2, <2>5, OnceMoves DEF ReplyDone, seen
  <2> QED BY <1>11, <2>3, <2>4, <2>5
<1>12. ASSUME NEW m \in Claude, ReplyWrite(m) PROVE Once(i)'
  <2>1. answer[m].id \in Msg /\ letter[answer[m].id].from = m
    BY <1>12, <1>0 DEF ReplyWrite, TypeOK, Replies
  <2>2. letter[answer[m].id].to # k
    BY <2>1 DEF UnderLock
  <2>3. inbox'[k] = inbox[k]
    BY <1>12, <2>2, <1>0 DEF ReplyWrite, TypeOK
  <2>4. Record(i)' = Record(i)
    BY <2>3, <1>a DEF Record
  <2> QED BY <1>12, <2>4, OnceStays DEF ReplyWrite, section, seen
<1>13. CASE CaptainIdle
  <2>1. \A a \in Actor : Direct(a) => call'[a] = call[a]
    <3>1. ASSUME NEW l \in Listener, Enter(<<"wake", l>>, "read")
          PROVE  \A a \in Actor : Direct(a) => call'[a] = call[a]
      BY <3>1, EnterShape DEF Direct
    <3> QED BY <1>13, <3>1 DEF CaptainIdle, Enter
  <2> QED BY <1>13, <2>1, <1>b, OnceStays DEF CaptainIdle, mail, seen
<1>14. ASSUME NEW l \in Listener, ListenerReads(l) PROVE Once(i)'
  <2>1. \A a \in Actor : Direct(a) => call'[a] = call[a]
    BY <1>14, <1>0 DEF ListenerReads, Direct, TypeOK, Leave
  <2> QED BY <1>14, <2>1, <1>b, OnceStays DEF ListenerReads, mail, seen
<1>15. ASSUME NEW v \in Party, NEW r, call' = [call EXCEPT ![<<"view", v>>] = r],
              UNCHANGED <<inbox, told, breaks>>
       PROVE  Once(i)'
  <2>1. \A a \in Actor : Direct(a) => call'[a] = call[a]
    BY <1>15, <1>0 DEF Direct, TypeOK
  <2> QED BY <1>15, <2>1, <1>b, OnceStays
<1>16. CASE CaptainAsks \/ CaptainReads
  <2>1. Captain \in Party
    BY DEF Party
  <2> QED BY <1>15, <1>16, <2>1 DEF CaptainAsks, CaptainReads, Acknowledge, Enter, mail, seen
<1>17. ASSUME NEW m \in Viewer \cap Member, MemberReads(m) \/ MemberRereads(m) PROVE Once(i)'
  <2>1. m \in Party
    BY DEF Party
  <2> QED BY <1>15, <1>17, <2>1 DEF MemberReads, MemberRereads, Acknowledge, mail, seen
<1>18. ASSUME NEW a \in Actor, FileError(a) PROVE Once(i)'
  BY <1>18, <1>b, OnceLeaves DEF FileError, Break, mail, seen
<1>19. ASSUME NEW l \in Party, NEW j \in Msg, Expire(l, j) PROVE Once(i)'
  <2>1. UNCHANGED <<letter, call, told, breaks>>
    BY <1>19 DEF Expire, section, seen
  <2>2. CASE l = k /\ j = i
    <3>1. (\A a \in Actor : ~Holds(a, i)) /\ Record(i) = "claimed"
      BY <1>19, <2>2 DEF Expire, Holds, Record
    <3>2. told[i] <= breaks
      BY <3>1 DEF Once, Spent
    <3>3. (\A a \in Actor : ~Holds(a, i)') /\ told'[i] <= breaks' /\ told'[i] <= 1 + breaks'
      BY <2>1, <3>1, <3>2, <1>0 DEF Holds, Direct
    <3> QED BY <3>3 DEF Once
  <2>3. CASE ~(l = k /\ j = i)
    <3>1. inbox'[k][i] = inbox[k][i]
      BY <1>19, <2>3, <1>0 DEF Expire, TypeOK, File
    <3>2. Record(i)' = Record(i)
      BY <3>1, <1>a DEF Record
    <3> QED BY <2>1, <3>2, OnceStays
  <2> QED BY <2>2, <2>3
<1>20. CASE Crash
  <2>1. \A a \in Actor : ~Holds(a, i)'
    BY <1>20 DEF Crash, Holds, Rest
  <2> QED BY <1>20, <2>1, <1>b, OnceKept DEF Crash, Break, mail, seen
<1> QED
  BY <1>1, <1>2, <1>3, <1>4, <1>5, <1>6, <1>7, <1>8, <1>10, <1>11, <1>12, <1>13, <1>14, <1>16,
     <1>17, <1>18, <1>19, <1>20 DEF Next

MailInv == CallInv /\ FileIs /\ OnceInv

LEMMA MailInit == Init => MailInv
<1> SUFFICES ASSUME Init PROVE MailInv
  OBVIOUS
<1>1. CallInv
  BY CallInit
<1>2. FileIs /\ OnceInv
  BY DEF Init, FileIs, OnceInv
<1> QED BY <1>1, <1>2 DEF MailInv

LEMMA MailStep ==
  ASSUME "slow" \notin Faults
  PROVE  MailInv /\ [Next]_vars => MailInv'
<1> SUFFICES ASSUME MailInv, [Next]_vars PROVE MailInv'
  OBVIOUS
<1>1. TypeInv /\ Replies /\ Roles /\ Places /\ FileIs /\ OnceInv
  BY DEF MailInv, CallInv
<1>2. CallInv' /\ TypeInv'
  BY CallStep DEF MailInv, CallInv
<1>3. FileIs'
  BY <1>1, <1>2, FileStep
<1>4. ASSUME NEW i \in Msg, (letter[i] # NoLetter)', UnderLock(letter[i].to)' PROVE Once(i)'
  <2>1. CASE letter[i] = NoLetter
    BY <1>1, <1>2, <1>4, <2>1, OnceBegins
  <2>2. CASE letter[i] # NoLetter
    <3>1. letter'[i] = letter[i] /\ letter[i].to \in Party
      BY <1>1, <2>2, LettersStay DEF TypeInv, TypeOK, NoLetter
    <3> PICK k \in Party : k = letter[i].to
      BY <3>1
    <3>2. UnderLock(k)'
      BY <1>4, <3>1 DEF UnderLock
    <3>3. UnderLock(letter[i].to)
      BY <1>1, <3>2, LocksGoBack DEF UnderLock
    <3> QED BY <1>1, <1>2, <2>2, <3>3, OnceStep DEF OnceInv
  <2> QED BY <2>1, <2>2
<1>5. OnceInv'
  BY <1>4 DEF OnceInv
<1> QED BY <1>2, <1>3, <1>5 DEF MailInv

\* Unless a delivery takes longer than its claim, the direct delivery and the
\* fallback hand a message to its live recipient once, and once more for each
\* restart or failing file operation.
THEOREM HandedOverOnce ==
  ASSUME "slow" \notin Faults
  PROVE  Spec => []DeliveredOnce
<1>1. MailInv => DeliveredOnce
  <2> SUFFICES ASSUME MailInv, NEW i \in Msg, UnderLock(letter[i].to) PROVE told[i] <= 1 + breaks
    BY DEF DeliveredOnce
  <2>1. CASE letter[i] = NoLetter
    <3>1. told[i] = 0 /\ breaks \in Nat
      BY <2>1, BoundsAssumption DEF MailInv, CallInv, Places, TypeInv, TypeOK
    <3> QED BY <3>1
  <2>2. CASE letter[i] # NoLetter
    BY <2>2 DEF MailInv, OnceInv, Once
  <2> QED BY <2>1, <2>2
<1> QED
  BY <1>1, MailInit, MailStep, PTL DEF Spec
=============================================================================
