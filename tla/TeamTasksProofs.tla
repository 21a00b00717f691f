---------------------------- MODULE TeamTasksProofs ----------------------------
(*****************************************************************************)
(* Proofs about TeamTasks, for every set of members, every bound, every mix  *)
(* of tools and faults and any number of restarts.                           *)
(*                                                                           *)
(* The argument.  TypeOK is inductive.  Every step has one of a few shapes   *)
(* (StepHasShape): it grants one task to someone under a fresh capability,   *)
(* or it keeps, frees, works on, creates or overruns each of them.  The      *)
(* invariants are proved of the shapes, not of the twenty-odd actions:       *)
(* Sound, which holds whatever fails, and Ledger, which holds where nothing  *)
(* overruns a task (Plain), and which gives the refinement of TaskOwnership. *)
(*****************************************************************************)
EXTENDS TeamTasks, WellFoundedInduction, TLAPS

--------------------------------------------------------------------------------
(* Type correctness.                                                         *)

\* activateTaskAttempt leaves a task a task.
LEMMA ActivatedType ==
  ASSUME NEW r \in TaskRecord, NEW a \in Member \cup {Captain}, NEW id \in Nat
  PROVE  Activated(r, a, id) \in TaskRecord
BY DEF Activated, TaskRecord, TaskStatus, Open, Id

\* beginTaskAttempt leaves a task a task.
LEMMA BegunType ==
  ASSUME NEW r \in TaskRecord, NEW a \in Member \cup {Captain}, NEW id \in Nat
  PROVE  Begun(r, a, id) \in TaskRecord
<1> DEFINE q == [r EXCEPT !.attempt = @ + 1]
<1>1. q \in TaskRecord
  BY DEF TaskRecord
<1> HIDE DEF q
<1>2. Activated(q, a, id) \in TaskRecord
  BY <1>1, ActivatedType
<1> QED BY <1>2 DEF Begun, q

\* invalidateTaskAttempt leaves a task a task.
LEMMA InvalidatedType ==
  ASSUME NEW r \in TaskRecord, NEW next \in Member \cup {Captain, None},
         NEW flag \in BOOLEAN, NEW id \in Nat
  PROVE  Invalidated(r, next, flag, id) \in TaskRecord
BY DEF Invalidated, TaskRecord, TaskStatus, Id

\* Giving back the unfinished tasks of removed members leaves a task list.
LEMMA RequeuedType ==
  ASSUME TypeOK, NEW S PROVE Requeued(S) \in [Task -> TaskRecord]
<1>1. \A t \in Task : task[t] \in TaskRecord
  BY DEF TypeOK
<1>2. nextId + 1 \in Nat
  BY DEF TypeOK, Id
<1>3. \A t \in Task : Invalidated(task[t], None, FALSE, nextId + 1) \in TaskRecord
  BY <1>1, <1>2, InvalidatedType
<1> QED BY <1>1, <1>3 DEF Requeued

\* update_task: a new status and output.
LEMMA WrittenType ==
  ASSUME NEW r \in TaskRecord, NEW s \in TaskStatus, NEW o \in Nat
  PROVE  [r EXCEPT !.status = s, !.output = o] \in TaskRecord
BY DEF TaskRecord, Id

\* The plugin gives up on an attempt.
LEMMA FailedType ==
  ASSUME NEW r \in TaskRecord
  PROVE  Failed(r) \in TaskRecord
BY DEF Failed, TaskRecord, TaskStatus, Terminal, Id

\* A refused delivery puts the task back.
LEMMA RolledBackType ==
  ASSUME NEW r \in TaskRecord, NEW a \in Member \cup {Captain, None}
  PROVE  [r EXCEPT !.status = "pending", !.assignee = a, !.attemptId = 0,
                   !.handoffId = 0, !.reassigning = FALSE] \in TaskRecord
BY DEF TaskRecord, TaskStatus, Id

\* A tool receipt is recorded.
LEMMA ReceivedType ==
  ASSUME NEW r \in TaskRecord
  PROVE  [r EXCEPT !.receipts = r.attemptId] \in TaskRecord
BY DEF TaskRecord

\* reassign_task clears its mark.
LEMMA UnmarkedType ==
  ASSUME NEW r \in TaskRecord
  PROVE  [r EXCEPT !.reassigning = FALSE] \in TaskRecord
BY DEF TaskRecord

\* create_task and submit_task append a task.
LEMMA NewTaskType ==
  ASSUME NEW a \in Member \cup {None}, NEW D \in SUBSET Task, NEW needs \in BOOLEAN
  PROVE  NewTask(a, D, needs) \in TaskRecord
BY DEF NewTask, NoTask, TaskRecord, TaskStatus, Id

\* What TypeOK says of the parts the actions read.
LEMMA TypedParts ==
  ASSUME TypeOK
  PROVE  /\ \A t \in Task :
              /\ task[t] \in TaskRecord
              /\ task[t].status \in TaskStatus \cup {"absent"}
              /\ task[t].assignee \in Member \cup {Captain, None}
              /\ task[t].attemptId \in Nat /\ task[t].output \in Nat
         /\ nextId \in Nat /\ nextId + 1 \in Nat \ {0}
         /\ \A m \in Member : held[m] \in Nat /\ prompt[m] \in Nat
         /\ \A m \in Member : ticket[m] # NoTicket =>
              /\ ticket[m] \in Ticket
              /\ ticket[m].task \in Task /\ ticket[m].attemptId \in Nat \ {0}
              /\ ticket[m].previousAssignee \in Member \cup {Captain, None}
         /\ \A h \in handoffs :
              /\ h \in Handoff /\ h.task \in Task
              /\ h.target \in Member \cup {Captain}
         /\ ActiveMembers \subseteq Member
<1>1. \A t \in Task : task[t] \in TaskRecord
  BY DEF TypeOK
<1>2. \A m \in Member : ticket[m] # NoTicket => ticket[m] \in Ticket
  BY DEF TypeOK
<1>3. \A h \in handoffs : h \in Handoff
  BY DEF TypeOK
<1> QED BY <1>1, <1>2, <1>3
        DEF TypeOK, TaskRecord, Ticket, Handoff, Id, ActiveMembers

\* A new team is well typed.
THEOREM TypeInit == Init => TypeOK
<1>1. NoTask \in TaskRecord
  BY DEF NoTask, TaskRecord, TaskStatus, Id
<1> QED BY <1>1, NamesAssumption, BoundsAssumption DEF Init, TypeOK, Id

\* Every tool, scheduler step and observer leaves the team well typed.
LEMMA TypeStep == TypeOK /\ [Next]_vars => TypeOK'
<1> SUFFICES ASSUME TypeOK, [Next]_vars PROVE TypeOK'
  OBVIOUS
<1> USE DEF teamVars, hostVars, callVars
<1>r. \A t \in Task : task[t] \in TaskRecord
  BY TypedParts
<1>n. nextId + 1 \in Nat /\ nextId + 1 \in Nat \ {0}
  BY TypedParts
<1>k. task \in [Task -> TaskRecord]
  BY DEF TypeOK
<1>1. ASSUME NEW m \in Member, AddMember(m) PROVE TypeOK'
  BY <1>1 DEF AddMember, Kicked, TypeOK
<1>2. ASSUME NEW a \in Member \cup {None}, NEW D \in SUBSET Task,
             NEW needs \in BOOLEAN, CreateTask(a, D, needs)
      PROVE  TypeOK'
  <2>1. taskSeq' \in 0 .. MaxTasks /\ taskSeq + 1 \in Task
    BY <1>2, BoundsAssumption DEF CreateTask, TypeOK, Task
  <2>2. task' \in [Task -> TaskRecord]
    BY <1>2, <1>k, <2>1, NewTaskType DEF CreateTask
  <2> QED BY <1>2, <2>1, <2>2 DEF CreateTask, Kicked, ActiveMembers, TypeOK
<1>3. ASSUME NEW a \in Member, NEW needs \in BOOLEAN, SubmitTask(a, needs)
      PROVE  TypeOK'
  <2>1. taskSeq' \in 0 .. MaxTasks /\ taskSeq + 1 \in Task
    BY <1>3, BoundsAssumption DEF SubmitTask, TypeOK, Task
  <2>2. task' \in [Task -> TaskRecord]
    BY <1>3, <1>k, <2>1, NewTaskType DEF SubmitTask
  <2> QED BY <1>3, <2>1, <2>2 DEF SubmitTask, ActiveMembers, TypeOK
<1>4. CASE StartTeam
  BY <1>4 DEF StartTeam, ActiveMembers, TypeOK
<1>5. CASE KickTeam
  BY <1>5 DEF KickTeam, Kicked, ActiveMembers, TypeOK
<1>6. ASSUME NEW t \in Task, NEW a \in Member \cup {Captain}, ReassignBegin(t, a)
      PROVE  TypeOK'
  <2>1. Invalidated(task[t], a, TRUE, nextId + 1) \in TaskRecord
    BY <1>r, <1>n, InvalidatedType
  <2>2. task' \in [Task -> TaskRecord] /\ nextId' \in Id
    BY <1>6, <1>k, <1>n, <2>1 DEF ReassignBegin, Id
  <2>3. [task |-> t, target |-> a, handoffId |-> nextId + 1,
         previous |-> IF IsOpen(t) /\ task[t].assignee \in ActiveMembers
                      THEN task[t].assignee ELSE None] \in Handoff
    BY <1>n DEF Handoff, ActiveMembers
  <2> QED BY <1>6, <2>2, <2>3 DEF ReassignBegin, TypeOK
<1>7. ASSUME NEW t \in Task, NEW a \in Member \cup {Captain}, ClaimByCaptain(t, a)
      PROVE  TypeOK'
  <2>1. Begun(task[t], a, nextId + 1) \in TaskRecord
    BY <1>r, <1>n, BegunType
  <2>2. task' \in [Task -> TaskRecord] /\ nextId' \in Id
    BY <1>7, <1>k, <1>n, <2>1 DEF ClaimByCaptain, Id
  <2> QED BY <1>7, <2>2 DEF ClaimByCaptain, TypeOK
<1>8. ASSUME NEW t \in Task, NEW status \in TaskStatus, NEW out \in Nat,
             UpdateWrite(t, status, out)
      PROVE  TypeOK'
  <2> DEFINE o == IF out = 0 THEN task[t].output ELSE out
  <2>1. o \in Nat
    BY TypedParts
  <2>2. task' = [task EXCEPT ![t] = [task[t] EXCEPT !.status = status, !.output = o]]
    BY <1>8 DEF UpdateWrite
  <2> HIDE DEF o
  <2>3. [task[t] EXCEPT !.status = status, !.output = o] \in TaskRecord
    BY <1>r, <2>1, WrittenType
  <2>4. task' \in [Task -> TaskRecord]
    BY <1>k, <2>2, <2>3
  <2> QED BY <1>8, <2>4 DEF UpdateWrite, Kicked, ActiveMembers, TypeOK
<1>9. ASSUME NEW m \in Member, RemoveMember(m) PROVE TypeOK'
  BY <1>9, <1>n, RequeuedType DEF RemoveMember, Id, TypeOK
<1>10. CASE DeleteBegin
  <2>1. task' \in [Task -> TaskRecord] /\ nextId' \in Id
    BY <1>10, <1>n, RequeuedType DEF DeleteBegin, Id
  <2> QED BY <1>10, <2>1 DEF DeleteBegin, TypeOK
<1>11. ASSUME NEW m \in Member, NEW t \in Task, ClaimByMember(m, t) PROVE TypeOK'
  <2>1. Begun(task[t], m, nextId + 1) \in TaskRecord /\ task[t].attemptId \in Id
    BY <1>r, <1>n, BegunType, TypedParts DEF Id
  <2>2. /\ task' \in [Task -> TaskRecord] /\ nextId' \in Id
        /\ held' \in [Member -> Id]
    BY <1>11, <1>k, <1>n, <2>1 DEF ClaimByMember, Id, TypeOK
  <2> QED BY <1>11, <2>2 DEF ClaimByMember, TypeOK
<1>12. ASSUME NEW m \in Member, RecordReceipt(m) PROVE TypeOK'
  <2>1. PICK t \in Task :
          task' = [task EXCEPT ![t] = [task[t] EXCEPT !.receipts = task[t].attemptId]]
    BY <1>12 DEF RecordReceipt
  <2>2. task' \in [Task -> TaskRecord]
    BY <1>k, <1>r, <2>1, ReceivedType
  <2> QED BY <1>12, <2>2 DEF RecordReceipt, TypeOK
<1>13. ASSUME NEW m \in Member, RequestError(m) PROVE TypeOK'
  <2>1. PICK t \in Task : task' = [task EXCEPT ![t] = Failed(task[t])]
    BY <1>13 DEF RequestError
  <2>2. task' \in [Task -> TaskRecord]
    BY <1>k, <1>r, <2>1, FailedType
  <2> QED BY <1>13, <2>2 DEF RequestError, TypeOK
<1>14. ASSUME NEW m \in Member, TurnStart(m) PROVE TypeOK'
  BY <1>14 DEF TurnStart, TypeOK
<1>15. ASSUME NEW m \in Member, KickDeclined(m) PROVE TypeOK'
  BY <1>15 DEF KickDeclined, TakeKick, TypeOK
<1>16. ASSUME NEW m \in Member, KickExhausted(m) PROVE TypeOK'
  <2>1. PICK t \in Task : task' = [task EXCEPT ![t] = Failed(task[t])]
    BY <1>16 DEF KickExhausted
  <2>2. task' \in [Task -> TaskRecord]
    BY <1>k, <1>r, <2>1, FailedType
  <2> QED BY <1>16, <2>2 DEF KickExhausted, TakeKick, TypeOK
<1>17. ASSUME NEW m \in Member, KickIdle(m) PROVE TypeOK'
  BY <1>17 DEF KickIdle, TakeKick, TypeOK
<1>18. ASSUME NEW m \in Member, KickDispatch(m) PROVE TypeOK'
  <2>1. PICK t \in Task :
          /\ task' = [task EXCEPT ![t] = Begun(task[t], m, nextId + 1)]
          /\ ticket' = [ticket EXCEPT ![m] =
               [task |-> t, attemptId |-> nextId + 1,
                previousAssignee |-> task[t].assignee, phase |-> "deliver"]]
    BY <1>18 DEF KickDispatch
  <2>2. task' \in [Task -> TaskRecord]
    BY <1>k, <1>r, <1>n, <2>1, BegunType
  <2>3. [task |-> t, attemptId |-> nextId + 1,
         previousAssignee |-> task[t].assignee, phase |-> "deliver"] \in Ticket
    BY <1>n, TypedParts DEF Ticket
  <2>4. ticket' \in [Member -> Ticket \cup {NoTicket}] /\ nextId' \in Id
    BY <1>18, <1>n, <2>1, <2>3 DEF TypeOK, KickDispatch, Id
  <2> QED BY <1>18, <2>2, <2>4 DEF KickDispatch, TakeKick, TypeOK
<1>19. ASSUME NEW m \in Member, NEW id \in Nat, FollowUp(m, id)
       PROVE  /\ live' \in [Member -> {"idle", "running"}]
              /\ held' \in [Member -> Id] /\ prompt' \in [Member -> Id]
  BY <1>19 DEF FollowUp, TypeOK, Id
<1>20. ASSUME NEW m \in Member, DeliverAccepted(m) PROVE TypeOK'
  <2>1. ticket[m].attemptId \in Nat
    BY <1>20, TypedParts DEF DeliverAccepted, Delivering
  <2> QED BY <1>19, <1>20, <2>1 DEF DeliverAccepted, TypeOK
<1>21. ASSUME NEW m \in Member, DeliverRejected(m) PROVE TypeOK'
  <2> DEFINE t == ticket[m].task
             b == [task[t] EXCEPT !.status = "pending",
                     !.assignee = ticket[m].previousAssignee, !.attemptId = 0,
                     !.handoffId = 0, !.reassigning = FALSE]
  <2>1. t \in Task /\ ticket[m].previousAssignee \in Member \cup {Captain, None}
    BY <1>21, TypedParts DEF DeliverRejected, Delivering
  <2>2. task' = task \/ task' = [task EXCEPT ![t] = b]
    BY <1>21 DEF DeliverRejected
  <2>3. b \in TaskRecord
    BY <1>r, <2>1, RolledBackType
  <2> HIDE DEF t, b
  <2>4. task' \in [Task -> TaskRecord]
    BY <1>k, <2>1, <2>2, <2>3
  <2> QED BY <1>21, <2>4 DEF DeliverRejected, TypeOK
<1>22. ASSUME NEW m \in Member, ClaudeMirror(m) PROVE TypeOK'
  <2>1. ticket[m] \in Ticket /\ ticket[m].attemptId \in Nat
    BY <1>22, TypedParts DEF ClaudeMirror, Delivering
  <2>2. [ticket[m] EXCEPT !.phase = "cli"] \in Ticket
    BY <2>1 DEF Ticket
  <2>3. ticket' \in [Member -> Ticket \cup {NoTicket}]
    BY <1>22, <2>2 DEF ClaudeMirror, TypeOK
  <2>4. /\ live' \in [Member -> {"idle", "running"}]
        /\ held' \in [Member -> Id] /\ prompt' \in [Member -> Id]
    BY <1>19, <1>22, <2>1 DEF ClaudeMirror, TypeOK
  <2> QED BY <1>22, <2>3, <2>4 DEF ClaudeMirror, TypeOK
<1>23. ASSUME NEW m \in Member, NEW outcome \in {"completed", "failed"},
              ClaudeFinished(m, outcome)
       PROVE  TypeOK'
  <2> DEFINE t == ticket[m].task
             b == [task[t] EXCEPT !.status = outcome, !.output = ticket[m].attemptId]
  <2>1. t \in Task /\ ticket[m].attemptId \in Nat
    BY <1>23, TypedParts DEF ClaudeFinished
  <2>2. task' = task \/ task' = [task EXCEPT ![t] = b]
    BY <1>23 DEF ClaudeFinished
  <2>3. b \in TaskRecord
    BY <1>r, <2>1, WrittenType DEF TaskStatus, Terminal
  <2> HIDE DEF t, b
  <2>4. task' \in [Task -> TaskRecord]
    BY <1>k, <2>1, <2>2, <2>3
  <2> QED BY <1>23, <2>4 DEF ClaudeFinished, TypeOK
<1>24. ASSUME NEW h \in handoffs, ReassignQuiesced(h) PROVE TypeOK'
  <2>1. [h EXCEPT !.previous = None] \in Handoff
    BY TypedParts DEF Handoff
  <2> QED BY <1>24, <2>1 DEF ReassignQuiesced, TypeOK
<1>25. ASSUME NEW h \in handoffs, ReassignCommit(h) PROVE TypeOK'
  <2>1. h.task \in Task /\ h.target \in Member \cup {Captain}
    BY TypedParts
  <2>2. Begun(task[h.task], Captain, nextId + 1) \in TaskRecord
        /\ [task[h.task] EXCEPT !.reassigning = FALSE] \in TaskRecord
    BY <1>r, <1>n, <2>1, BegunType, UnmarkedType
  <2>3. task' \in [Task -> TaskRecord]
    BY <1>25, <1>k, <2>1, <2>2 DEF ReassignCommit
  <2>4. nextId' \in Id /\ kicks' \subseteq Member
    BY <1>25, <1>n, <2>1 DEF ReassignCommit, Id, TypeOK
  <2> QED BY <1>25, <2>3, <2>4 DEF ReassignCommit, TypeOK
<1>26. ASSUME NEW h \in handoffs, ReassignAborted(h) PROVE TypeOK'
  <2>1. h.task \in Task /\ [task[h.task] EXCEPT !.reassigning = FALSE] \in TaskRecord
    BY <1>r, TypedParts, UnmarkedType
  <2>2. task' \in [Task -> TaskRecord]
    BY <1>26, <1>k, <2>1 DEF ReassignAborted
  <2> QED BY <1>26, <2>2 DEF ReassignAborted, TypeOK
<1>27. ASSUME NEW m \in Member, RemoveRetire(m) PROVE TypeOK'
  BY <1>27 DEF RemoveRetire, TypeOK
<1>28. ASSUME NEW m \in Member, RemoveFinish(m) PROVE TypeOK'
  BY <1>28 DEF RemoveFinish, Kicked, ActiveMembers, TypeOK
<1>29. CASE DeleteRetire
  BY <1>29 DEF DeleteRetire, TypeOK
<1>30. CASE DeleteCommit
  BY <1>30 DEF DeleteCommit, TypeOK
<1>31. CASE Crash
  <2>1. crashes' \in 0 .. MaxCrashes
    BY <1>31, BoundsAssumption DEF Crash, TypeOK
  <2>2. /\ live' \in [Member -> {"idle", "running"}]
        /\ prompt' \in [Member -> Id]
        /\ ticket' \in [Member -> Ticket \cup {NoTicket}]
    BY <1>31 DEF Crash, Id
  <2>3. /\ kicks' \subseteq Member /\ handoffs' \subseteq Handoff
        /\ removals' \subseteq Member
    BY <1>31 DEF Crash
  <2>4. deletion' \in [phase : {"none", "retire", "wait"}, roster : SUBSET Member]
    BY <1>31 DEF Crash
  <2>5. UNCHANGED <<teamVars, nextId, retired, held>>
    BY <1>31 DEF Crash
  <2> QED BY <2>1, <2>2, <2>3, <2>4, <2>5 DEF TypeOK
<1>32. ASSUME NEW m \in Member, TurnEnd(m) PROVE TypeOK'
  <2>1. /\ live' \in [Member -> {"idle", "running"}]
        /\ held' \in [Member -> Id] /\ prompt' \in [Member -> Id]
    BY <1>32 DEF TurnEnd, TypeOK, Id
  <2>2. kicks' \subseteq Member
    BY <1>32 DEF TurnEnd, Kicked, TypeOK
  <2> QED BY <1>32, <2>1, <2>2 DEF TurnEnd, TypeOK
<1>33. CASE UNCHANGED vars
  BY <1>33 DEF vars, TypeOK
<1> QED
  <2>1. ASSUME NEW t \in Task, NEW status \in TaskStatus, NEW write \in BOOLEAN,
               NEW m \in Member, UpdateByMember(m, t, status, write)
        PROVE  TypeOK'
    BY <1>8, <2>1, TypedParts DEF UpdateByMember
  <2>2. ASSUME NEW t \in Task, NEW status \in TaskStatus, NEW write \in BOOLEAN,
               UpdateByCaptain(t, status, write)
        PROVE  TypeOK'
    BY <1>8, <2>2, TypedParts DEF UpdateByCaptain
  <2>3. CASE Captains
    BY <1>1, <1>2, <1>3, <1>4, <1>5, <1>6, <1>7, <1>9, <1>10, <2>2, <2>3 DEF Captains
  <2>4. CASE Members
    BY <1>11, <1>12, <1>13, <1>14, <2>1, <2>4 DEF Members
  <2>5. CASE Conclude \/ Quiesced
    BY <1>24, <1>25, <1>26, <1>27, <1>28, <1>29, <1>30, <2>5 DEF Conclude, Quiesced
  <2>6. ASSUME NEW m \in Member, Kick(m) \/ Settle(m) \/ TurnEnd(m) PROVE TypeOK'
    BY <1>15, <1>16, <1>17, <1>18, <1>20, <1>21, <1>22, <1>23, <1>32, <2>6
    DEF Kick, Settle
  <2> QED BY <1>31, <1>33, <2>3, <2>4, <2>5, <2>6 DEF Next

\* Every variable stays in the set its source declares, under all faults.
THEOREM TypeCorrect == Spec => []TypeOK
BY TypeInit, TypeStep, PTL DEF Spec

--------------------------------------------------------------------------------
(* The shapes of a step.  Whatever action is taken, either one task is given *)
(* to someone under a fresh capability, or every task is kept, freed, worked *)
(* on, created, or (only with claude-code members or late refusals) overrun. *)

OpenHasCapability == \A t \in Task : IsOpen(t) => task[t].attemptId # 0
Unborn == \A t \in Task :
  /\ t > taskSeq => task[t].status = "absent"
  /\ task[t].status = "absent" =>
       task[t].assignee = None /\ task[t].attemptId = 0 /\ ~task[t].reassigning

\* What holds in every instance, whatever fails.
Sound == /\ TypeOK /\ Unborn /\ OpenHasCapability
         /\ OneOpenTaskPerMember /\ OutputFromCurrentAttempt

Granted(t, a) ==
  /\ task[t].reassigning \/ task[t].status = "pending"
       \/ (IsOpen(t) /\ task[t].assignee = a)
  /\ task[t].status # "absent"
  /\ a \in Member => ~Busy(a, {t})
  /\ a \in Member => Satisfied(t) \/ (IsOpen(t) /\ task[t].assignee = a)
  /\ task'[t].status = "claimed" /\ task'[t].assignee = a
  /\ task'[t].attemptId = nextId + 1 /\ nextId' = nextId + 1
  /\ ~task'[t].reassigning /\ task'[t].output = 0 /\ task'[t].receipts = 0
  /\ task'[t].deps = task[t].deps
  /\ \A u \in Task \ {t} : task'[u] = task[u]
  /\ taskSeq' = taskSeq

Kept(t) ==
  /\ task'[t].status = task[t].status /\ task'[t].assignee = task[t].assignee
  /\ task'[t].attemptId = task[t].attemptId /\ task'[t].output = task[t].output
  /\ task'[t].deps = task[t].deps /\ task'[t].needsTools = task[t].needsTools
  /\ \/ task'[t].receipts = task[t].receipts
     \/ IsOpen(t) /\ task'[t].receipts = task[t].attemptId
  /\ task'[t].reassigning => task[t].reassigning
  /\ task[t].status = "completed" /\ ~task[t].reassigning => task'[t] = task[t]

Freed(t) ==
  /\ task[t].status \notin {"absent", "completed"}
  /\ task'[t].status \in {"pending", "failed", "cancelled"}
  /\ \/ task'[t].attemptId = 0
     \/ task'[t].attemptId = task[t].attemptId /\ task'[t].assignee = task[t].assignee

Born(t) ==
  /\ taskSeq < t /\ t <= taskSeq'
  /\ task'[t].status = "pending" /\ task'[t].attemptId = 0

Worked(t) ==
  /\ IsOpen(t) /\ task'[t].status \in Open \cup {"completed"}
  /\ task'[t].assignee = task[t].assignee
  /\ task'[t].attemptId = task[t].attemptId
  /\ task'[t].output \in {task[t].output, task[t].attemptId}
  /\ task'[t].reassigning = task[t].reassigning
  /\ task'[t].deps = task[t].deps /\ task'[t].needsTools = task[t].needsTools
  /\ task'[t].receipts = task[t].receipts
  /\ Controlled /\ task'[t].status = "completed" =>
       task'[t].output # 0 /\ (task[t].needsTools => task[t].receipts # 0)

Overrun(t) ==
  /\ \/ "late_rejection" \in Faults /\ task'[t].status = "pending"
     \/ /\ \E m \in Member : ticket[m] # NoTicket /\ ticket[m].phase = "cli"
        /\ task'[t].status \in {"failed", "completed"}
  /\ task[t].status # "absent"
  /\ task'[t].status = "completed" => task'[t].output = task'[t].attemptId

Shaped(t) == Kept(t) \/ Freed(t) \/ Born(t) \/ Worked(t) \/ Overrun(t)

Settled == /\ \A t \in Task : Shaped(t)
           /\ nextId' \in {nextId, nextId + 1} /\ taskSeq' >= taskSeq
           /\ taskSeq' \in Nat

StepShape == \/ \E t \in Task, a \in Member \cup {Captain} : Granted(t, a)
             \/ Settled

\* One task changes, the others are kept.
LEMMA OneChange ==
  ASSUME TypeOK, NEW t \in Task, NEW r, task' = [task EXCEPT ![t] = r],
         taskSeq' = taskSeq
  PROVE  /\ task'[t] = r
         /\ \A u \in Task \ {t} : task'[u] = task[u] /\ Kept(u)
         /\ taskSeq \in Nat
BY BoundsAssumption DEF TypeOK, Kept

\* What activateTaskAttempt writes.
LEMMA ActivatedFields ==
  ASSUME NEW r \in TaskRecord, NEW a \in Member \cup {Captain}, NEW id \in Nat
  PROVE  /\ Activated(r, a, id).status = "claimed" /\ Activated(r, a, id).assignee = a
         /\ Activated(r, a, id).attemptId = id /\ Activated(r, a, id).output = 0
         /\ Activated(r, a, id).receipts = 0 /\ Activated(r, a, id).deps = r.deps
         /\ ~Activated(r, a, id).reassigning
BY DEF Activated, TaskRecord

\* What beginTaskAttempt writes.
LEMMA BegunFields ==
  ASSUME NEW r \in TaskRecord, NEW a \in Member \cup {Captain}, NEW id \in Nat
  PROVE  /\ Begun(r, a, id).status = "claimed" /\ Begun(r, a, id).assignee = a
         /\ Begun(r, a, id).attemptId = id /\ Begun(r, a, id).output = 0
         /\ Begun(r, a, id).receipts = 0 /\ Begun(r, a, id).deps = r.deps
         /\ ~Begun(r, a, id).reassigning
<1> DEFINE q == [r EXCEPT !.attempt = @ + 1]
<1>1. q \in TaskRecord
  BY DEF TaskRecord
<1>2. q.deps = r.deps
  BY DEF TaskRecord
<1>3. Begun(r, a, id) = Activated(q, a, id)
  BY DEF Begun
<1> HIDE DEF q
<1>4. /\ Activated(q, a, id).status = "claimed" /\ Activated(q, a, id).assignee = a
      /\ Activated(q, a, id).attemptId = id /\ Activated(q, a, id).output = 0
      /\ Activated(q, a, id).receipts = 0 /\ Activated(q, a, id).deps = q.deps
      /\ ~Activated(q, a, id).reassigning
  BY <1>1, ActivatedFields
<1> QED BY <1>2, <1>3, <1>4

\* A step that begins an attempt has the shape of a grant.
LEMMA BeginShape ==
  ASSUME TypeOK, NEW t \in Task, NEW a \in Member \cup {Captain},
         task' = [task EXCEPT ![t] = Begun(task[t], a, nextId + 1)],
         nextId' = nextId + 1, taskSeq' = taskSeq,
         task[t].status # "absent", a \in Member => ~Busy(a, {t}),
         a \in Member => Satisfied(t) \/ (IsOpen(t) /\ task[t].assignee = a),
         task[t].reassigning \/ task[t].status = "pending"
           \/ (IsOpen(t) /\ task[t].assignee = a)
  PROVE  StepShape
<1>1. task[t] \in TaskRecord
  BY TypedParts
<1>2. /\ task'[t] = Begun(task[t], a, nextId + 1)
      /\ \A u \in Task \ {t} : task'[u] = task[u]
  BY OneChange
<1>3. /\ task'[t].status = "claimed" /\ task'[t].assignee = a
      /\ task'[t].attemptId = nextId + 1 /\ task'[t].output = 0
      /\ task'[t].receipts = 0 /\ task'[t].deps = task[t].deps
      /\ ~task'[t].reassigning
  BY <1>1, <1>2, BegunFields, TypedParts
<1>4. Granted(t, a)
  BY <1>2, <1>3, Zenon DEF Granted
<1> QED BY <1>4 DEF StepShape

\* A step that changes one task, into one of the other shapes.
LEMMA SettleShape ==
  ASSUME TypeOK, NEW t \in Task, NEW r, task' = [task EXCEPT ![t] = r],
         taskSeq' = taskSeq, nextId' \in {nextId, nextId + 1},
         Kept(t) \/ Freed(t) \/ Worked(t) \/ Overrun(t)
  PROVE  StepShape
<1>1. \A u \in Task : Shaped(u)
  BY OneChange DEF Shaped
<1>2. taskSeq \in Nat
  BY OneChange
<1> QED BY <1>1, <1>2 DEF StepShape, Settled

\* A step that leaves the task list alone.
LEMMA IdleShape ==
  ASSUME TypeOK, task' = task, taskSeq' = taskSeq, nextId' \in {nextId, nextId + 1}
  PROVE  StepShape
<1>1. taskSeq \in Nat /\ \A t \in Task : Kept(t)
  BY BoundsAssumption DEF TypeOK, Kept
<1> QED BY <1>1 DEF StepShape, Settled, Shaped

\* Giving back the unfinished tasks of S.
LEMMA RequeueShape ==
  ASSUME TypeOK, NEW S, S \subseteq Member, task' = Requeued(S), Unborn,
         nextId' = nextId + 1, taskSeq' = taskSeq
  PROVE  StepShape
<1>1. ASSUME NEW t \in Task PROVE Kept(t) \/ Freed(t)
  <2>1. task[t] \in TaskRecord /\ taskSeq \in Nat /\ t \in Nat
    BY TypedParts, BoundsAssumption DEF TypeOK, Task
  <2>2. CASE task[t].assignee \in S /\ task[t].status # "completed"
    <3>1. task'[t] = Invalidated(task[t], None, FALSE, nextId + 1)
      BY <2>2 DEF Requeued
    <3>2. task'[t].status = "pending" /\ task'[t].attemptId = 0
      BY <2>1, <3>1 DEF Invalidated, TaskRecord
    <3> QED BY <2>1, <2>2, <3>2, NamesAssumption DEF Freed, Unborn, TaskRecord
  <2>3. CASE ~(task[t].assignee \in S /\ task[t].status # "completed")
    BY <2>3 DEF Requeued, Kept
  <2> QED BY <2>2, <2>3
<1> QED BY <1>1, BoundsAssumption DEF StepShape, Settled, Shaped, TypeOK

\* Whatever the action, and however stale what it acts on, the task list takes
\* one of the shapes.
LEMMA StepHasShape ==
  ASSUME Sound, [Next]_vars
  PROVE  StepShape
<1> USE DEF Sound
<1>1. ASSUME NEW a \in Member \cup {None}, NEW D, NEW needs,
             CreateTask(a, D, needs) \/ SubmitTask(a, needs)
      PROVE  StepShape
  <2>1. /\ taskSeq \in Nat /\ taskSeq + 1 \in Task /\ taskSeq' = taskSeq + 1
        /\ nextId' = nextId
    BY <1>1, BoundsAssumption DEF CreateTask, SubmitTask, TypeOK, Task
  <2>2. PICK d : task' = [task EXCEPT ![taskSeq + 1] = NewTask(a, d, needs)]
    BY <1>1 DEF CreateTask, SubmitTask
  <2>3. \A u \in Task : u # taskSeq + 1 => Kept(u)
    BY <2>2 DEF TypeOK, Kept
  <2>4. Born(taskSeq + 1)
    BY <2>1, <2>2 DEF Born, NewTask, NoTask, TypeOK
  <2> QED BY <2>1, <2>3, <2>4 DEF StepShape, Settled, Shaped
<1>2. ASSUME NEW t \in Task, NEW a \in Member \cup {Captain}, ReassignBegin(t, a)
      PROVE  StepShape
  <2> DEFINE r == Invalidated(task[t], a, TRUE, nextId + 1)
  <2>1. /\ task' = [task EXCEPT ![t] = r] /\ taskSeq' = taskSeq
        /\ nextId' = nextId + 1 /\ task[t].status \notin {"absent", "completed"}
    BY <1>2 DEF ReassignBegin
  <2>2. r.status = "pending" /\ r.attemptId = 0
    BY TypedParts DEF Invalidated, TaskRecord
  <2> HIDE DEF r
  <2>3. task'[t] = r
    BY <2>1, OneChange
  <2>4. Freed(t)
    BY <2>1, <2>2, <2>3 DEF Freed
  <2> QED BY <2>1, <2>4, SettleShape
<1>3. ASSUME NEW t \in Task, NEW a \in Member \cup {Captain}, ClaimByCaptain(t, a)
      PROVE  StepShape
  BY <1>3, BeginShape DEF ClaimByCaptain, Claimable
<1>4. ASSUME NEW t \in Task, NEW status \in TaskStatus, NEW out \in Nat,
             UpdateWrite(t, status, out),
             IsOpen(t) => out \in {0, task[t].attemptId}
      PROVE  StepShape
  <2> DEFINE o == IF out = 0 THEN task[t].output ELSE out
             r == [task[t] EXCEPT !.status = status, !.output = o]
  <2>1. /\ task' = [task EXCEPT ![t] = r] /\ taskSeq' = taskSeq /\ nextId' = nextId
        /\ task[t].status \notin Terminal \cup {"absent"}
        /\ Transition(task[t].status, status)
        /\ Controlled /\ status = "completed" =>
             o # 0 /\ (task[t].needsTools => task[t].receipts # 0)
    BY <1>4 DEF UpdateWrite
  <2>2. /\ r.status = status /\ r.output = o /\ r.assignee = task[t].assignee
        /\ r.attemptId = task[t].attemptId /\ r.reassigning = task[t].reassigning
        /\ r.deps = task[t].deps /\ r.needsTools = task[t].needsTools
        /\ r.receipts = task[t].receipts
    BY TypedParts DEF TaskRecord
  <2>3. IsOpen(t) => o \in {task[t].output, task[t].attemptId}
    BY <1>4
  <2> HIDE DEF r, o
  <2>4. task'[t] = r
    BY <2>1, OneChange
  <2>5. task[t].status \in {"pending"} \cup Open
    BY <2>1, TypedParts DEF TaskStatus
  <2>6. CASE status \in {"pending", "failed", "cancelled"}
    <3>1. Freed(t)
      BY <2>1, <2>2, <2>4, <2>5, <2>6 DEF Freed, Terminal
    <3> QED BY <2>1, <3>1, SettleShape
  <2>7. CASE status \notin {"pending", "failed", "cancelled"}
    <3>1. status \in Open \cup {"completed"} /\ IsOpen(t)
      <4>1. status \in Open \cup {"completed"}
        BY <2>7 DEF TaskStatus, Terminal
      <4>2. task[t].status # "pending"
        BY <2>1, <2>7, <1>4 DEF Transition, TASK_TRANSITIONS, UpdateWrite
      <4> QED BY <2>5, <4>1, <4>2 DEF IsOpen
    <3>2. Worked(t)
      BY <2>1, <2>2, <2>3, <2>4, <3>1 DEF Worked
    <3> QED BY <2>1, <3>2, SettleShape
  <2> QED BY <2>6, <2>7
<1>5. ASSUME NEW m \in Member, RemoveMember(m) PROVE StepShape
  BY <1>5, RequeueShape DEF RemoveMember
<1>6. CASE DeleteBegin
  BY <1>6, RequeueShape, TypedParts DEF DeleteBegin
<1>7. ASSUME NEW m \in Member, NEW t \in Task, ClaimByMember(m, t) PROVE StepShape
  <2>1. CASE task' = task
    BY <1>7, <2>1, IdleShape DEF ClaimByMember
  <2>2. CASE task' # task
    BY <1>7, <2>2, BeginShape DEF ClaimByMember, Claimable
  <2> QED BY <2>1, <2>2
<1>8. ASSUME NEW m \in Member, RecordReceipt(m) PROVE StepShape
  <2>1. PICK t \in Task :
          /\ OwnedOpen(m, t)
          /\ task' = [task EXCEPT ![t] = [task[t] EXCEPT !.receipts = task[t].attemptId]]
    BY <1>8 DEF RecordReceipt
  <2> DEFINE r == [task[t] EXCEPT !.receipts = task[t].attemptId]
  <2>2. /\ r.status = task[t].status /\ r.output = task[t].output
        /\ r.assignee = task[t].assignee /\ r.attemptId = task[t].attemptId
        /\ r.reassigning = task[t].reassigning /\ r.deps = task[t].deps
        /\ r.needsTools = task[t].needsTools /\ r.receipts = task[t].attemptId
    BY TypedParts DEF TaskRecord
  <2> HIDE DEF r
  <2>3. task'[t] = r /\ taskSeq' = taskSeq /\ nextId' = nextId
    BY <1>8, <2>1, OneChange DEF RecordReceipt, r
  <2>4. IsOpen(t) /\ task[t].status # "completed"
    BY <2>1 DEF OwnedOpen, IsFirst, IsOpen, Open
  <2>5. Kept(t)
    BY <2>2, <2>3, <2>4 DEF Kept
  <2>6. task' = [task EXCEPT ![t] = r]
    BY <2>1 DEF r
  <2> QED BY <2>3, <2>5, <2>6, SettleShape
<1>9. ASSUME NEW m \in Member, NEW t \in Task, IsOpen(t),
             task' = [task EXCEPT ![t] = Failed(task[t])],
             taskSeq' = taskSeq, nextId' = nextId
      PROVE  StepShape
  <2>1. Failed(task[t]).status = "failed" /\ Failed(task[t]).attemptId = 0
    BY TypedParts DEF Failed, TaskRecord
  <2>2. task'[t] = Failed(task[t])
    BY <1>9, OneChange
  <2>3. Freed(t)
    BY <1>9, <2>1, <2>2 DEF Freed, IsOpen, Open
  <2> QED BY <1>9, <2>3, SettleShape
<1>10. ASSUME NEW m \in Member, RequestError(m) \/ KickExhausted(m) PROVE StepShape
  <2>1. PICK t \in Task : OwnedOpen(m, t) /\ task' = [task EXCEPT ![t] = Failed(task[t])]
    BY <1>10 DEF RequestError, KickExhausted
  <2>2. IsOpen(t)
    BY <2>1 DEF OwnedOpen, IsFirst
  <2> QED BY <1>9, <1>10, <2>1, <2>2 DEF RequestError, KickExhausted
<1>11. ASSUME NEW m \in Member, KickDispatch(m) PROVE StepShape
  <2>1. PICK t \in Task :
          /\ OwnedOpen(m, t) \/ (~Busy(m, {}) /\ NextReady(m, t))
          /\ task' = [task EXCEPT ![t] = Begun(task[t], m, nextId + 1)]
    BY <1>11 DEF KickDispatch
  <2>2. taskSeq' = taskSeq /\ nextId' = nextId + 1
    BY <1>11 DEF KickDispatch
  <2>3. CASE OwnedOpen(m, t)
    <3>1. IsOpen(t) /\ task[t].assignee = m
      BY <2>3 DEF OwnedOpen, IsFirst
    <3>2. ~Busy(m, {t})
      BY <3>1 DEF Busy, OneOpenTaskPerMember
    <3>3. task[t].status # "absent"
      BY <3>1 DEF IsOpen, Open
    <3> QED BY <2>1, <2>2, <3>1, <3>2, <3>3, BeginShape
  <2>4. CASE ~Busy(m, {}) /\ NextReady(m, t)
    <3>1. task[t].status = "pending" /\ Satisfied(t)
      BY <2>4 DEF NextReady, IsFirst, Ready
    <3>2. ~Busy(m, {t})
      BY <2>4 DEF Busy
    <3> QED BY <2>1, <2>2, <3>1, <3>2, BeginShape
  <2> QED BY <2>1, <2>3, <2>4
<1>12. ASSUME NEW m \in Member, DeliverRejected(m) PROVE StepShape
  <2> DEFINE t == ticket[m].task
             r == [task[t] EXCEPT !.status = "pending",
                     !.assignee = ticket[m].previousAssignee, !.attemptId = 0,
                     !.handoffId = 0, !.reassigning = FALSE]
  <2>1. /\ t \in Task /\ ticket[m].attemptId \in Nat \ {0}
        /\ taskSeq' = taskSeq /\ nextId' = nextId
    BY <1>12, TypedParts DEF DeliverRejected, Delivering
  <2>2. CASE active /\ Capable(m)
    <3>1. task' = [task EXCEPT ![t] = r]
      BY <1>12, <2>2 DEF DeliverRejected
    <3>2. r.status = "pending" /\ r.attemptId = 0
      BY <2>1, TypedParts DEF TaskRecord
    <3>3. task[t].status # "absent"
      BY <2>1, <2>2 DEF Capable, Unborn
    <3>4. "late_rejection" \in Faults \/ IsOpen(t)
      BY <1>12, <2>2 DEF DeliverRejected
    <3> HIDE DEF r, t
    <3>5. task'[t] = r
      BY <2>1, <3>1, OneChange
    <3>6. IsOpen(t) => Freed(t)
      BY <3>2, <3>5 DEF Freed, IsOpen, Open
    <3>7. "late_rejection" \in Faults => Overrun(t)
      BY <3>2, <3>3, <3>5 DEF Overrun
    <3> QED BY <2>1, <3>1, <3>4, <3>6, <3>7, SettleShape
  <2>3. CASE ~(active /\ Capable(m))
    BY <1>12, <2>3, <2>1, IdleShape DEF DeliverRejected
  <2> QED BY <2>2, <2>3
<1>13. ASSUME NEW m \in Member, NEW outcome \in {"completed", "failed"},
              ClaudeFinished(m, outcome)
       PROVE  StepShape
  <2> DEFINE t == ticket[m].task
             r == [task[t] EXCEPT !.status = outcome, !.output = ticket[m].attemptId]
  <2>1. /\ t \in Task /\ ticket[m].attemptId \in Nat \ {0}
        /\ taskSeq' = taskSeq /\ nextId' = nextId
    BY <1>13, TypedParts DEF ClaudeFinished
  <2>2. CASE active /\ Capable(m)
    <3>1. task' = [task EXCEPT ![t] = r]
      BY <1>13, <2>2 DEF ClaudeFinished
    <3>2. r.status = outcome /\ r.output = r.attemptId
      BY <2>1, <2>2, TypedParts DEF TaskRecord, Capable
    <3>3. task[t].status # "absent"
      BY <2>1, <2>2 DEF Capable, Unborn
    <3>4. ticket[m] # NoTicket /\ ticket[m].phase = "cli"
      BY <1>13 DEF ClaudeFinished
    <3> HIDE DEF r, t
    <3>5. task'[t] = r
      BY <2>1, <3>1, OneChange
    <3>6. Overrun(t)
      BY <3>2, <3>3, <3>4, <3>5 DEF Overrun
    <3> QED BY <2>1, <3>1, <3>6, SettleShape
  <2>3. CASE ~(active /\ Capable(m))
    BY <1>13, <2>3, <2>1, IdleShape DEF ClaudeFinished
  <2> QED BY <2>2, <2>3
<1>14. ASSUME NEW h \in handoffs, ReassignCommit(h) \/ ReassignAborted(h)
       PROVE  StepShape
  <2> DEFINE t == h.task
             r == [task[t] EXCEPT !.reassigning = FALSE]
  <2>1. t \in Task /\ taskSeq' = taskSeq /\ nextId' \in {nextId, nextId + 1}
    BY <1>14, TypedParts DEF ReassignCommit, ReassignAborted
  <2>2. CASE task' = task
    BY <2>1, <2>2, IdleShape
  <2>3. CASE StillOurs(h) /\ task' = [task EXCEPT ![t] = r]
    <3>0. task[t].reassigning
      BY <2>3 DEF StillOurs
    <3>1. /\ r.status = task[t].status /\ r.output = task[t].output
          /\ r.assignee = task[t].assignee /\ r.attemptId = task[t].attemptId
          /\ r.deps = task[t].deps /\ r.needsTools = task[t].needsTools
          /\ r.receipts = task[t].receipts /\ ~r.reassigning
      BY <2>1, TypedParts DEF TaskRecord
    <3> HIDE DEF r, t
    <3>2. task'[t] = r
      BY <2>1, <2>3, OneChange
    <3>3. Kept(t)
      BY <3>0, <3>1, <3>2 DEF Kept
    <3> QED BY <2>1, <2>3, <3>3, SettleShape
  <2>4. CASE /\ StillOurs(h) /\ nextId' = nextId + 1
             /\ task' = [task EXCEPT ![t] = Begun(task[t], Captain, nextId + 1)]
    <3>1. task[t].reassigning
      BY <2>4 DEF StillOurs
    <3>2. task[t].status # "absent"
      BY <2>1, <3>1 DEF Unborn
    <3>3. Captain \notin Member /\ taskSeq' = taskSeq
      BY <2>1, NamesAssumption
    <3> HIDE DEF t
    <3> QED BY <2>1, <2>4, <3>1, <3>2, <3>3, BeginShape
  <2> QED BY <1>14, <2>2, <2>3, <2>4 DEF ReassignCommit, ReassignAborted
<1>15. ASSUME UNCHANGED <<task, taskSeq, nextId>> PROVE StepShape
  BY <1>15, IdleShape
<1> QED
  <2>1. ASSUME NEW t \in Task, NEW status \in TaskStatus, NEW write \in BOOLEAN,
               NEW m \in Member, UpdateByMember(m, t, status, write)
        PROVE  StepShape
    <3> DEFINE out == IF write THEN held[m] ELSE 0
    <3>1. out \in Nat /\ (IsOpen(t) => out \in {0, task[t].attemptId})
      BY <2>1, TypedParts DEF UpdateByMember, OpenHasCapability
    <3>2. UpdateWrite(t, status, out)
      BY <2>1 DEF UpdateByMember
    <3> HIDE DEF out
    <3> QED BY <1>4, <3>1, <3>2
  <2>2. ASSUME NEW t \in Task, NEW status \in TaskStatus, NEW write \in BOOLEAN,
               UpdateByCaptain(t, status, write)
        PROVE  StepShape
    <3> DEFINE out == IF write THEN task[t].attemptId ELSE 0
    <3>1. out \in Nat /\ out \in {0, task[t].attemptId}
      BY TypedParts
    <3>2. UpdateWrite(t, status, out)
      BY <2>2 DEF UpdateByCaptain
    <3> HIDE DEF out
    <3> QED BY <1>4, <3>1, <3>2
  <2>3. ASSUME NEW m \in Member, AddMember(m) \/ RemoveRetire(m) \/ RemoveFinish(m)
                 \/ TurnStart(m) \/ TurnEnd(m) \/ KickDeclined(m) \/ KickIdle(m)
                 \/ DeliverAccepted(m) \/ ClaudeMirror(m)
        PROVE  StepShape
    BY <1>15, <2>3 DEF AddMember, RemoveRetire, RemoveFinish, TurnStart, TurnEnd,
       KickDeclined, KickIdle, DeliverAccepted, ClaudeMirror, teamVars
  <2>4. CASE StartTeam \/ KickTeam \/ DeleteRetire \/ DeleteCommit \/ Crash \/ Quiesced
             \/ UNCHANGED vars
    BY <1>15, <2>4 DEF StartTeam, KickTeam, DeleteRetire, DeleteCommit, Crash,
       Quiesced, ReassignQuiesced, vars, teamVars
  <2>5. CASE Captains
    BY <1>1, <1>2, <1>3, <1>5, <1>6, <2>2, <2>3, <2>4, <2>5 DEF Captains
  <2>6. CASE Members
    BY <1>7, <1>8, <1>10, <2>1, <2>3, <2>6 DEF Members
  <2>7. CASE Conclude
    BY <1>14, <2>3, <2>4, <2>7 DEF Conclude
  <2>8. ASSUME NEW m \in Member, Kick(m) \/ Settle(m) \/ TurnEnd(m) PROVE StepShape
    BY <1>10, <1>11, <1>12, <1>13, <2>3, <2>8 DEF Kick, Settle
  <2> QED BY <2>4, <2>5, <2>6, <2>7, <2>8 DEF Next

--------------------------------------------------------------------------------
(* What holds under every fault.                                             *)

\* A new team is sound.
LEMMA SoundInit == Init => Sound
<1> SUFFICES ASSUME Init PROVE Sound
  OBVIOUS
<1>1. \A t \in Task : task[t] = NoTask
  BY DEF Init
<1>2. \A t \in Task : task[t].status = "absent" /\ ~IsOpen(t) /\ task[t].assignee = None
        /\ task[t].attemptId = 0 /\ ~task[t].reassigning
  BY <1>1 DEF NoTask, IsOpen, Open
<1> QED BY <1>2, TypeInit DEF Sound, Unborn, OpenHasCapability,
        OneOpenTaskPerMember, OutputFromCurrentAttempt, Open

\* Dispatches and claims keep the team sound.
LEMMA GrantSound ==
  ASSUME Sound, TypeOK', NEW t \in Task, NEW a \in Member \cup {Captain}, Granted(t, a)
  PROVE  Sound'
<1> USE DEF Sound
<1>0. nextId \in Nat
  BY TypedParts
<1>1. Unborn'
  BY DEF Unborn, Granted
<1>2. OpenHasCapability'
  BY <1>0 DEF OpenHasCapability, Granted, IsOpen
<1>3. OneOpenTaskPerMember'
  BY DEF OneOpenTaskPerMember, Granted, IsOpen, Busy
<1>4. OutputFromCurrentAttempt'
  BY DEF OutputFromCurrentAttempt, Granted
<1> QED BY <1>1, <1>2, <1>3, <1>4

\* So does everything else.
LEMMA SettleSound ==
  ASSUME Sound, TypeOK', Settled
  PROVE  Sound'
<1> USE DEF Sound
<1>1. Unborn'
  <2> SUFFICES ASSUME NEW t \in Task
               PROVE /\ t > taskSeq' => task'[t].status = "absent"
                     /\ task'[t].status = "absent" =>
                          /\ task'[t].assignee = None /\ task'[t].attemptId = 0
                          /\ ~task'[t].reassigning
    BY DEF Unborn
  <2>1. t \in Nat /\ taskSeq \in Nat /\ taskSeq' \in Nat /\ taskSeq' >= taskSeq
    BY BoundsAssumption DEF Settled, TypeOK, Task
  <2>2. CASE Kept(t)
    BY <2>1, <2>2 DEF Kept, Unborn
  <2>3. CASE ~Kept(t)
    <3>1. Freed(t) \/ Born(t) \/ Worked(t) \/ Overrun(t)
      BY <2>3 DEF Settled, Shaped
    <3>2. task'[t].status # "absent"
      BY <3>1 DEF Freed, Born, Worked, Overrun, Open
    <3>3. ~(t > taskSeq')
      BY <2>1, <3>1 DEF Freed, Born, Worked, Overrun, Unborn, IsOpen, Open
    <3> QED BY <3>2, <3>3
  <2> QED BY <2>2, <2>3
<1>2. ASSUME NEW t \in Task, task'[t].status \in Open
      PROVE  /\ IsOpen(t) /\ task'[t].attemptId = task[t].attemptId
             /\ task'[t].assignee = task[t].assignee
  BY <1>2 DEF Settled, Shaped, Kept, Freed, Born, Worked, Overrun, IsOpen, Open
<1>3. OpenHasCapability'
  BY <1>2 DEF OpenHasCapability, IsOpen
<1>4. OneOpenTaskPerMember'
  BY <1>2 DEF OneOpenTaskPerMember, IsOpen
<1>5. OutputFromCurrentAttempt'
  <2> SUFFICES ASSUME NEW t \in Task, task'[t].status \in Open \cup {"completed"}
               PROVE  task'[t].output \in {0, task'[t].attemptId}
    BY DEF OutputFromCurrentAttempt
  <2>1. Kept(t) \/ Worked(t) \/ Overrun(t)
    BY DEF Settled, Shaped, Freed, Born, Open
  <2>2. CASE Overrun(t)
    BY <2>2 DEF Overrun, Open
  <2>3. CASE Kept(t) \/ Worked(t)
    BY <2>3 DEF Kept, Worked, OutputFromCurrentAttempt, IsOpen
  <2> QED BY <2>1, <2>2, <2>3
<1> QED BY <1>1, <1>3, <1>4, <1>5

\* Soundness is inductive ...
LEMMA SoundStep == Sound /\ [Next]_vars => Sound'
<1> SUFFICES ASSUME Sound, [Next]_vars PROVE Sound'
  OBVIOUS
<1>1. TypeOK'
  BY TypeStep DEF Sound
<1> QED BY <1>1, StepHasShape, GrantSound, SettleSound DEF StepShape

\* ... so it always holds.
LEMMA AlwaysSound == Spec => []Sound
BY SoundInit, SoundStep, PTL DEF Spec

\* No member ever owns two open tasks, whatever the configuration, the members'
\* runtimes, the faults and the number of restarts.
THEOREM OneOpenTask == Spec => []OneOpenTaskPerMember
<1>1. Sound => OneOpenTaskPerMember
  BY DEF Sound
<1> QED BY <1>1, AlwaysSound, PTL

\* The result of an open or completed task is never a revoked attempt's.
THEOREM OutputIsCurrent == Spec => []OutputFromCurrentAttempt
<1>1. Sound => OutputFromCurrentAttempt
  BY DEF Sound
<1> QED BY <1>1, AlwaysSound, PTL

--------------------------------------------------------------------------------
(* Without claude-code members, whose CLI results bypass update_task, a       *)
(* controlled completion is backed by the receipts of its own attempt.        *)

\* No claude-code run is in flight.
NoCli == \A m \in Member : ticket[m] # NoTicket => ticket[m].phase = "deliver"

\* The receipts an open or completed task carries are its current attempt's:
\* update_task only asks whether there are any.
ReceiptsCurrent == \A t \in Task :
  task[t].status \in Open \cup {"completed"} => task[t].receipts \in {0, task[t].attemptId}

Receipted == Sound /\ NoCli /\ ReceiptsCurrent /\ CompletionHasReceipts

\* Only a dispatch issues tickets, and only claude-code members get CLI runs.
LEMMA NoCliStep ==
  ASSUME ClaudeMembers = {}, TypeOK, NoCli, [Next]_vars
  PROVE  NoCli'
<1>1. ASSUME \A m \in Member : ticket'[m] \in {ticket[m], NoTicket}
      PROVE  NoCli'
  BY <1>1 DEF NoCli
<1>2. ASSUME UNCHANGED ticket PROVE NoCli'
  BY <1>2 DEF NoCli
<1>3. ASSUME NEW m \in Member, KickDispatch(m) PROVE NoCli'
  <2>1. PICK t \in Task :
          ticket' = [ticket EXCEPT ![m] =
            [task |-> t, attemptId |-> nextId + 1,
             previousAssignee |-> task[t].assignee, phase |-> "deliver"]]
    BY <1>3 DEF KickDispatch
  <2>2. ticket'[m].phase = "deliver" /\ \A n \in Member \ {m} : ticket'[n] = ticket[n]
    BY <2>1 DEF TypeOK
  <2> QED BY <2>2 DEF NoCli
<1>4. ASSUME NEW m \in Member, ticket' = [ticket EXCEPT ![m] = NoTicket] PROVE NoCli'
  BY <1>1, <1>4 DEF TypeOK
<1>5. ASSUME NEW t, NEW status, NEW write,
             UpdateByCaptain(t, status, write)
               \/ \E m \in Member : UpdateByMember(m, t, status, write)
      PROVE  NoCli'
  BY <1>2, <1>5 DEF UpdateByCaptain, UpdateByMember, UpdateWrite
<1>6. CASE Captains
  BY <1>2, <1>5, <1>6 DEF Captains, AddMember, RemoveMember, CreateTask, SubmitTask,
     StartTeam, KickTeam, DeleteBegin, ReassignBegin, ClaimByCaptain
<1>7. CASE Members
  BY <1>2, <1>5, <1>7 DEF Members, ClaimByMember, RecordReceipt, RequestError, TurnStart
<1>8. CASE Quiesced \/ Conclude \/ UNCHANGED vars
  BY <1>2, <1>8 DEF Quiesced, Conclude, ReassignQuiesced, ReassignCommit,
     ReassignAborted, RemoveRetire, RemoveFinish, DeleteRetire, DeleteCommit, vars
<1>9. CASE Crash
  BY <1>1, <1>9 DEF Crash
<1>10. ASSUME NEW m \in Member, Kick(m) \/ Settle(m) \/ TurnEnd(m) PROVE NoCli'
  <2>1. ~ClaudeMirror(m)
    BY DEF ClaudeMirror
  <2>2. CASE Kick(m) \/ TurnEnd(m)
    BY <1>2, <1>3, <2>2 DEF Kick, TurnEnd, KickDeclined, KickExhausted, KickIdle
  <2>3. CASE Settle(m)
    BY <1>4, <2>1, <2>3 DEF Settle, DeliverAccepted, DeliverRejected, ClaudeFinished
  <2> QED BY <1>10, <2>2, <2>3
<1> QED BY <1>6, <1>7, <1>8, <1>9, <1>10 DEF Next

\* A grant starts without receipts, work carries those of its own attempt, and
\* update_task completes only what has them.
LEMMA ReceiptedStep ==
  ASSUME ClaudeMembers = {}, Receipted, [Next]_vars
  PROVE  Receipted'
<1> USE DEF Receipted
<1>1. Sound' /\ NoCli' /\ StepShape
  BY SoundStep, NoCliStep, StepHasShape DEF Sound
<1>2. ASSUME NEW u \in Task, NEW a \in Member \cup {Captain}, Granted(u, a)
      PROVE  ReceiptsCurrent' /\ CompletionHasReceipts'
  BY <1>2 DEF Granted, ReceiptsCurrent, CompletionHasReceipts
<1>3. ASSUME Settled PROVE ReceiptsCurrent' /\ CompletionHasReceipts'
  <2> SUFFICES ASSUME NEW t \in Task
               PROVE  /\ task'[t].status \in Open \cup {"completed"} =>
                           task'[t].receipts \in {0, task'[t].attemptId}
                      /\ Controlled /\ task'[t].status = "completed" =>
                           /\ task'[t].output # 0
                           /\ task'[t].needsTools => task'[t].receipts = task'[t].attemptId
    BY DEF ReceiptsCurrent, CompletionHasReceipts
  <2>1. CASE Kept(t)
    BY <2>1 DEF Kept, ReceiptsCurrent, CompletionHasReceipts, IsOpen, Open
  <2>2. CASE Freed(t) \/ Born(t)
    BY <2>2 DEF Freed, Born, Open
  <2>3. CASE Worked(t)
    BY <2>3 DEF Worked, ReceiptsCurrent, IsOpen, Open
  <2>4. CASE Overrun(t)
    BY <2>4 DEF Overrun, NoCli, Open
  <2> QED BY <1>3, <2>1, <2>2, <2>3, <2>4 DEF Settled, Shaped
<1> QED BY <1>1, <1>2, <1>3 DEF StepShape

\* A completed task of a controlled team has an output, and the receipts of its
\* required tools were recorded under the attempt that completed it: neither a
\* retry, a handover, a refused delivery nor a restart lets old receipts count.
THEOREM CompletionIsReceipted ==
  ASSUME ClaudeMembers = {} PROVE Spec => []CompletionHasReceipts
<1>1. Init => Receipted
  <2> SUFFICES ASSUME Init PROVE Receipted
    OBVIOUS
  <2>1. /\ \A t \in Task : task[t].status = "absent"
        /\ \A m \in Member : ticket[m] = NoTicket
    BY DEF Init, NoTask
  <2> QED BY <2>1, SoundInit
          DEF Receipted, NoCli, ReceiptsCurrent, CompletionHasReceipts, Open
<1>2. Receipted /\ [Next]_vars => Receipted'
  BY ReceiptedStep
<1>3. Receipted => CompletionHasReceipts
  BY DEF Receipted
<1> QED BY <1>1, <1>2, <1>3, PTL DEF Spec

--------------------------------------------------------------------------------
(* Without claude-code members, and when a refused delivery is refused       *)
(* before its attempt can have ended, the task list is a sound ledger.       *)

\* No claude-code members, and refusals that come before an attempt can end.
Plain == ClaudeMembers = {} /\ "late_rejection" \notin Faults

Homed == \A t \in Task :
  task[t].status # "completed" /\ task[t].assignee \in Member
    => task[t].assignee \in ActiveMembers
OpenUnmarked == \A t \in Task : IsOpen(t) => ~task[t].reassigning /\ task[t].assignee # None
CompletedUnmarked == \A t \in Task : task[t].status = "completed" => ~task[t].reassigning
IdsIssued == \A t \in Task : task[t].attemptId <= nextId
TicketsOwned == \A m \in Member : ticket[m] # NoTicket =>
  /\ ticket[m].phase = "deliver" /\ ticket[m].attemptId <= nextId
  /\ ticket[m].previousAssignee \in {m, None}
  /\ Capable(m) => task[ticket[m].task].assignee = m

Ledger == /\ Sound /\ Homed /\ OpenUnmarked /\ CompletedUnmarked
          /\ IdsIssued /\ TicketsOwned

\* A new task list is a sound ledger.
LEMMA LedgerInit == Init => Ledger
<1> SUFFICES ASSUME Init PROVE Ledger
  OBVIOUS
<1>1. /\ \A t \in Task : task[t] = NoTask
      /\ \A m \in Member : ticket[m] = NoTicket
      /\ nextId = 0
  BY DEF Init
<1>2. \A t \in Task : task[t].status = "absent" /\ ~IsOpen(t) /\ task[t].assignee = None
        /\ task[t].attemptId = 0 /\ ~task[t].reassigning
  BY <1>1 DEF NoTask, IsOpen, Open
<1> QED BY <1>1, <1>2, SoundInit, NamesAssumption
        DEF Ledger, Homed, OpenUnmarked, CompletedUnmarked, IdsIssued, TicketsOwned

\* In this setting nothing is overrun.
LEMMA NoOverrun ==
  ASSUME Plain, TicketsOwned, NEW t \in Task PROVE ~Overrun(t)
BY DEF Plain, TicketsOwned, Overrun

\* A step that leaves the assignees, the completed tasks and the roster alone.
LEMMA HomedKept ==
  ASSUME Homed, memberStatus' = memberStatus,
         \A t \in Task : task'[t].assignee = task[t].assignee
           /\ (task[t].status = "completed" => task'[t].status = "completed")
  PROVE  Homed'
BY DEF Homed, ActiveMembers

\* A step that changes one task, into one with a proper assignee.
LEMMA HomedOne ==
  ASSUME TypeOK, Homed, memberStatus' = memberStatus, NEW t \in Task, NEW r,
         task' = [task EXCEPT ![t] = r],
         \/ r.assignee \in ActiveMembers \cup {Captain, None}
         \/ r.assignee = task[t].assignee
            /\ (task[t].status # "completed" \/ r.status = "completed")
  PROVE  Homed'
<1>1. task'[t] = r /\ \A u \in Task \ {t} : task'[u] = task[u]
  BY DEF TypeOK
<1> QED BY <1>1, NamesAssumption DEF Homed, ActiveMembers

\* The members in S leave, and their unfinished tasks with them.
LEMMA HomedRequeue ==
  ASSUME TypeOK, Homed, NEW S, S \subseteq Member, task' = Requeued(S),
         \A m \in Member : memberStatus'[m] = "active"
            <=> (memberStatus[m] = "active" /\ m \notin S)
  PROVE  Homed'
<1> SUFFICES ASSUME NEW t \in Task, task'[t].status # "completed",
                    task'[t].assignee \in Member
             PROVE  memberStatus'[task'[t].assignee] = "active"
  BY DEF Homed, ActiveMembers
<1>1. ~(task[t].assignee \in S /\ task[t].status # "completed")
  <2> SUFFICES ASSUME task[t].assignee \in S /\ task[t].status # "completed"
               PROVE  FALSE
    OBVIOUS
  <2>1. task'[t] = Invalidated(task[t], None, FALSE, nextId + 1)
    BY DEF Requeued
  <2>2. task'[t].assignee = None
    BY <2>1, TypedParts DEF Invalidated, TaskRecord
  <2> QED BY <2>2, NamesAssumption
<1>2. task'[t] = task[t]
  BY <1>1 DEF Requeued
<1> QED BY <1>1, <1>2 DEF Homed, ActiveMembers

\* No step leaves an unfinished task with a removed member: remove_member and
\* delete requeue under the lock that removes, and a rollback returns a task
\* only to the member that was dispatched.
LEMMA HomedStep ==
  ASSUME Plain, Ledger, [Next]_vars
  PROVE  Homed'
<1> USE DEF Sound, Ledger
<1>1. ASSUME NEW m \in Member, AddMember(m) PROVE Homed'
  BY <1>1 DEF AddMember, Homed, ActiveMembers, TypeOK
<1>2. ASSUME NEW a \in Member \cup {None}, NEW D, NEW needs,
             CreateTask(a, D, needs) \/ SubmitTask(a, needs)
      PROVE  Homed'
  <2>1. PICK d : task' = [task EXCEPT ![taskSeq + 1] = NewTask(a, d, needs)]
    BY <1>2 DEF CreateTask, SubmitTask
  <2>2. a \in ActiveMembers \cup {None} /\ memberStatus' = memberStatus
        /\ taskSeq + 1 \in Task
    BY <1>2, BoundsAssumption DEF CreateTask, SubmitTask, TypeOK, Task
  <2>3. NewTask(a, d, needs).assignee = a
    BY DEF NewTask, NoTask
  <2> QED BY <2>1, <2>2, <2>3, HomedOne
<1>3. ASSUME NEW t \in Task, NEW a \in Member \cup {Captain}, ReassignBegin(t, a)
      PROVE  Homed'
  <2>1. Invalidated(task[t], a, TRUE, nextId + 1).assignee = a
    BY TypedParts DEF Invalidated, TaskRecord
  <2> QED BY <1>3, <2>1, HomedOne DEF ReassignBegin
<1>b. ASSUME NEW t \in Task, NEW a \in Member \cup {Captain},
             task' = [task EXCEPT ![t] = Begun(task[t], a, nextId + 1)],
             memberStatus' = memberStatus,
             a \in ActiveMembers \cup {Captain}
               \/ (a = task[t].assignee /\ task[t].status # "completed")
      PROVE  Homed'
  <2>1. task[t] \in TaskRecord /\ nextId + 1 \in Nat
    BY TypedParts
  <2>2. Begun(task[t], a, nextId + 1).assignee = a
    BY <2>1, BegunFields
  <2> QED BY <1>b, <2>2, HomedOne
<1>4. ASSUME NEW t \in Task, NEW a \in Member \cup {Captain}, ClaimByCaptain(t, a)
      PROVE  Homed'
  BY <1>4, <1>b DEF ClaimByCaptain, Claimable
<1>5. ASSUME NEW t \in Task, NEW status, NEW out, UpdateWrite(t, status, out)
      PROVE  Homed'
  <2> DEFINE r == [task[t] EXCEPT !.status = status,
                     !.output = IF out = 0 THEN task[t].output ELSE out]
  <2>1. /\ task' = [task EXCEPT ![t] = r] /\ memberStatus' = memberStatus
        /\ task[t].status # "completed"
    BY <1>5 DEF UpdateWrite, Terminal
  <2>2. r.assignee = task[t].assignee
    BY TypedParts DEF TaskRecord
  <2> HIDE DEF r
  <2> QED BY <2>1, <2>2, HomedOne
<1>6. ASSUME NEW m \in Member, RemoveMember(m) PROVE Homed'
  BY <1>6, HomedRequeue DEF RemoveMember, ActiveMembers, TypeOK
<1>7. CASE DeleteBegin
  BY <1>7, HomedRequeue DEF DeleteBegin, ActiveMembers, TypeOK
<1>8. ASSUME NEW m \in Member, NEW t \in Task, ClaimByMember(m, t) PROVE Homed'
  <2>1. CASE task' = task
    BY <1>8, <2>1, HomedKept DEF ClaimByMember
  <2>2. CASE task' # task
    BY <1>8, <1>b, <2>2 DEF ClaimByMember, Claimable
  <2> QED BY <2>1, <2>2
<1>9. ASSUME NEW m \in Member, RecordReceipt(m) PROVE Homed'
  <2>1. PICK t \in Task :
          task' = [task EXCEPT ![t] = [task[t] EXCEPT !.receipts = task[t].attemptId]]
    BY <1>9 DEF RecordReceipt
  <2> DEFINE r == [task[t] EXCEPT !.receipts = task[t].attemptId]
  <2>2. r.assignee = task[t].assignee /\ r.status = task[t].status
    BY TypedParts DEF TaskRecord
  <2>3. memberStatus' = memberStatus
    BY <1>9 DEF RecordReceipt
  <2> HIDE DEF r
  <2>4. task' = [task EXCEPT ![t] = r]
    BY <2>1 DEF r
  <2> QED BY <2>2, <2>3, <2>4, HomedOne
<1>10. ASSUME NEW m \in Member, RequestError(m) \/ KickExhausted(m) PROVE Homed'
  <2>1. PICK t \in Task : OwnedOpen(m, t) /\ task' = [task EXCEPT ![t] = Failed(task[t])]
    BY <1>10 DEF RequestError, KickExhausted
  <2>2. task[t].status # "completed"
    BY <2>1 DEF OwnedOpen, IsFirst, IsOpen, Open
  <2>3. Failed(task[t]).assignee = task[t].assignee
    BY TypedParts DEF Failed, TaskRecord
  <2>4. memberStatus' = memberStatus
    BY <1>10 DEF RequestError, KickExhausted
  <2> QED BY <2>1, <2>2, <2>3, <2>4, HomedOne
<1>11. ASSUME NEW m \in Member, KickDispatch(m) PROVE Homed'
  BY <1>11, <1>b DEF KickDispatch, Schedulable
<1>12. ASSUME NEW m \in Member, DeliverRejected(m) PROVE Homed'
  <2> DEFINE t == ticket[m].task
             r == [task[t] EXCEPT !.status = "pending",
                     !.assignee = ticket[m].previousAssignee, !.attemptId = 0,
                     !.handoffId = 0, !.reassigning = FALSE]
  <2>1. t \in Task /\ memberStatus' = memberStatus /\ ticket[m] # NoTicket
    BY <1>12, TypedParts DEF DeliverRejected, Delivering
  <2>2. CASE active /\ Capable(m)
    <3>1. task' = [task EXCEPT ![t] = r]
      BY <1>12, <2>2 DEF DeliverRejected
    <3>2. r.assignee = ticket[m].previousAssignee
      BY <2>1, TypedParts DEF TaskRecord
    <3>3. task[t].status # "completed" /\ task[t].assignee = m
      BY <1>12, <2>1, <2>2 DEF DeliverRejected, Plain, TicketsOwned, IsOpen, Open
    <3>4. ticket[m].previousAssignee \in ActiveMembers \cup {None}
      BY <2>1, <3>3 DEF Homed, TicketsOwned
    <3> HIDE DEF r, t
    <3> QED BY <2>1, <3>1, <3>2, <3>4, HomedOne
  <2>3. CASE ~(active /\ Capable(m))
    BY <1>12, <2>1, <2>3, HomedKept DEF DeliverRejected
  <2> QED BY <2>2, <2>3
<1>13. ASSUME NEW m \in Member, NEW outcome, ClaudeFinished(m, outcome) PROVE Homed'
  BY <1>13 DEF ClaudeFinished, TicketsOwned
<1>14. ASSUME NEW h \in handoffs, ReassignCommit(h) \/ ReassignAborted(h) PROVE Homed'
  <2> DEFINE t == h.task
             r == [task[t] EXCEPT !.reassigning = FALSE]
  <2>1. t \in Task /\ memberStatus' = memberStatus
    BY <1>14, TypedParts DEF ReassignCommit, ReassignAborted
  <2>2. CASE task' = task
    BY <2>1, <2>2, HomedKept
  <2>3. CASE task' = [task EXCEPT ![t] = r]
    <3>1. r.assignee = task[t].assignee /\ r.status = task[t].status
      BY <2>1, TypedParts DEF TaskRecord
    <3> HIDE DEF r, t
    <3> QED BY <2>1, <2>3, <3>1, HomedOne
  <2>4. CASE task' = [task EXCEPT ![t] = Begun(task[t], Captain, nextId + 1)]
    BY <1>b, <2>1, <2>4
  <2> QED BY <1>14, <2>2, <2>3, <2>4 DEF ReassignCommit, ReassignAborted
<1>15. ASSUME UNCHANGED <<task, memberStatus>> PROVE Homed'
  BY <1>15, HomedKept
<1> QED
  <2>1. ASSUME NEW m \in Member, RemoveRetire(m) \/ RemoveFinish(m) \/ TurnStart(m)
                 \/ TurnEnd(m) \/ KickDeclined(m) \/ KickIdle(m) \/ DeliverAccepted(m)
                 \/ ClaudeMirror(m)
        PROVE  Homed'
    BY <1>15, <2>1 DEF RemoveRetire, RemoveFinish, TurnStart, TurnEnd, KickDeclined,
       KickIdle, DeliverAccepted, ClaudeMirror, teamVars
  <2>2. CASE StartTeam \/ KickTeam \/ DeleteRetire \/ DeleteCommit \/ Crash \/ Quiesced
             \/ UNCHANGED vars
    BY <1>15, <2>2 DEF StartTeam, KickTeam, DeleteRetire, DeleteCommit, Crash,
       Quiesced, ReassignQuiesced, vars, teamVars
  <2>3. CASE Captains
    BY <1>1, <1>2, <1>3, <1>4, <1>5, <1>6, <1>7, <2>2, <2>3
    DEF Captains, UpdateByCaptain
  <2>4. CASE Members
    BY <1>5, <1>8, <1>9, <1>10, <2>1, <2>4 DEF Members, UpdateByMember
  <2>5. CASE Conclude
    BY <1>14, <2>1, <2>2, <2>5 DEF Conclude
  <2>6. ASSUME NEW m \in Member, Kick(m) \/ Settle(m) \/ TurnEnd(m) PROVE Homed'
    BY <1>10, <1>11, <1>12, <1>13, <2>1, <2>6 DEF Kick, Settle
  <2> QED BY <2>2, <2>3, <2>4, <2>5, <2>6 DEF Next

\* A dispatch in flight still speaks for its member, or has been overtaken.
LEMMA TicketKept ==
  ASSUME Plain, Ledger, StepShape, NEW m \in Member, ticket[m] # NoTicket,
         ticket'[m] = ticket[m]
  PROVE  /\ ticket'[m].attemptId <= nextId'
         /\ Capable(m)' => task'[ticket'[m].task].assignee = m
<1> USE DEF Ledger, Sound
<1>1. /\ ticket[m].task \in Task /\ ticket[m].attemptId \in Nat \ {0}
      /\ nextId \in Nat /\ ticket[m].attemptId <= nextId
  BY TypedParts DEF TicketsOwned
<1>2. nextId' \in {nextId, nextId + 1}
  BY DEF StepShape, Granted, Settled
<1>3. ASSUME Capable(m)' PROVE Capable(m) /\ task'[ticket[m].task].assignee
                                               = task[ticket[m].task].assignee
  <2> DEFINE t == ticket[m].task
  <2>1. t \in Task /\ task'[t].attemptId = ticket[m].attemptId
    BY <1>1, <1>3 DEF Capable
  <2> SUFFICES /\ task[t].attemptId = task'[t].attemptId
               /\ task'[t].assignee = task[t].assignee
    BY <2>1 DEF Capable
  <2>2. CASE \E u \in Task, a \in Member \cup {Captain} : Granted(u, a)
    <3>1. PICK u \in Task, a \in Member \cup {Captain} : Granted(u, a)
      BY <2>2
    <3>2. t # u
      BY <1>1, <2>1, <3>1 DEF Granted
    <3> QED BY <2>1, <3>1, <3>2 DEF Granted
  <2>3. CASE Settled
    <3>1. Kept(t) \/ Freed(t) \/ Born(t) \/ Worked(t)
      BY <2>1, <2>3, NoOverrun DEF Settled, Shaped
    <3> QED BY <1>1, <2>1, <3>1 DEF Kept, Freed, Born, Worked
  <2> QED BY <2>2, <2>3 DEF StepShape
<1> QED BY <1>1, <1>2, <1>3 DEF TicketsOwned

\* Only a dispatch issues a ticket, and its member is the task's new assignee.
LEMMA TicketIssued ==
  ASSUME Plain, Ledger, NEW m \in Member, KickDispatch(m)
  PROVE  /\ \A n \in Member \ {m} : ticket'[n] = ticket[n]
         /\ ticket'[m].phase = "deliver" /\ ticket'[m].attemptId = nextId'
         /\ ticket'[m].previousAssignee \in {m, None}
         /\ task'[ticket'[m].task].assignee = m
<1> USE DEF Ledger, Sound
<1>1. PICK t \in Task :
        /\ OwnedOpen(m, t) \/ NextReady(m, t)
        /\ task' = [task EXCEPT ![t] = Begun(task[t], m, nextId + 1)]
        /\ ticket' = [ticket EXCEPT ![m] =
             [task |-> t, attemptId |-> nextId + 1,
              previousAssignee |-> task[t].assignee, phase |-> "deliver"]]
  BY DEF KickDispatch
<1>2. task[t] \in TaskRecord /\ nextId + 1 \in Nat /\ nextId' = nextId + 1
  BY TypedParts DEF KickDispatch
<1>3. task'[t].assignee = m
  <2>1. task'[t] = Begun(task[t], m, nextId + 1)
    BY <1>1 DEF TypeOK
  <2> QED BY <1>2, <2>1, BegunFields
<1>4. task[t].assignee \in {m, None}
  BY <1>1 DEF OwnedOpen, NextReady, IsFirst
<1>5. ticket'[m] = [task |-> t, attemptId |-> nextId + 1,
                    previousAssignee |-> task[t].assignee, phase |-> "deliver"]
      /\ \A n \in Member \ {m} : ticket'[n] = ticket[n]
  BY <1>1 DEF TypeOK
<1> QED BY <1>1, <1>2, <1>3, <1>4, <1>5

\* No step makes a ticket speak for another member.
LEMMA TicketsStep ==
  ASSUME Plain, Ledger, [Next]_vars
  PROVE  TicketsOwned'
<1> USE DEF Ledger, Sound
<1>1. StepShape
  BY StepHasShape
<1>2. ASSUME \A m \in Member : ticket'[m] \in {ticket[m], NoTicket}
      PROVE  TicketsOwned'
  BY <1>1, <1>2, TicketKept DEF TicketsOwned
<1>3. ASSUME NEW m \in Member, KickDispatch(m) PROVE TicketsOwned'
  <2>1. \A n \in Member \ {m} : ticket'[n] = ticket[n]
    BY <1>3, TicketIssued
  <2>2. nextId' <= nextId'
    BY <1>3, TypedParts DEF KickDispatch
  <2> QED BY <1>1, <1>3, <2>1, <2>2, TicketIssued, TicketKept DEF TicketsOwned
<1>4. ASSUME UNCHANGED ticket PROVE TicketsOwned'
  BY <1>2, <1>4
<1>5. ASSUME NEW m \in Member, ticket' = [ticket EXCEPT ![m] = NoTicket]
      PROVE  TicketsOwned'
  BY <1>2, <1>5 DEF TypeOK
<1>6. ASSUME NEW t, NEW status, NEW write,
             UpdateByCaptain(t, status, write)
               \/ \E m \in Member : UpdateByMember(m, t, status, write)
      PROVE  TicketsOwned'
  BY <1>4, <1>6 DEF UpdateByCaptain, UpdateByMember, UpdateWrite
<1> QED
  <2>1. CASE Captains
    BY <1>4, <1>6, <2>1 DEF Captains, AddMember, RemoveMember, CreateTask, SubmitTask,
       StartTeam, KickTeam, DeleteBegin, ReassignBegin, ClaimByCaptain
  <2>2. CASE Members
    BY <1>4, <1>6, <2>2 DEF Members, ClaimByMember, RecordReceipt,
       RequestError, TurnStart
  <2>3. CASE Quiesced \/ Conclude \/ UNCHANGED vars
    BY <1>4, <2>3 DEF Quiesced, Conclude, ReassignQuiesced, ReassignCommit,
       ReassignAborted, RemoveRetire, RemoveFinish, DeleteRetire, DeleteCommit, vars
  <2>4. CASE Crash
    BY <1>2, <2>4 DEF Crash
  <2>5. ASSUME NEW m \in Member, Kick(m) \/ TurnEnd(m) PROVE TicketsOwned'
    BY <1>3, <1>4, <2>5 DEF Kick, TurnEnd, KickDeclined, KickExhausted, KickIdle
  <2>6. ASSUME NEW m \in Member, Settle(m) PROVE TicketsOwned'
    <3>1. ~ClaudeMirror(m)
      BY DEF Plain, ClaudeMirror
    <3> QED BY <1>5, <2>6, <3>1 DEF Settle, DeliverAccepted, DeliverRejected,
                                    ClaudeFinished
  <2> QED BY <2>1, <2>2, <2>3, <2>4, <2>5, <2>6 DEF Next

\* The ledger is inductive ...
LEMMA LedgerStep ==
  ASSUME Plain, Ledger, [Next]_vars
  PROVE  Ledger'
<1> USE DEF Ledger
<1>1. Sound' /\ Homed' /\ TicketsOwned'
  BY SoundStep, HomedStep, TicketsStep
<1>2. nextId \in Nat /\ \A t \in Task : task[t].attemptId \in Nat
  BY TypedParts DEF Sound
<1>3. StepShape
  BY StepHasShape
<1>4. ASSUME NEW t \in Task, NEW a \in Member \cup {Captain}, Granted(t, a)
      PROVE  OpenUnmarked' /\ CompletedUnmarked' /\ IdsIssued'
  <2>1. a # None
    BY NamesAssumption
  <2>2. OpenUnmarked'
    BY <1>4, <2>1 DEF Granted, OpenUnmarked, IsOpen
  <2>3. CompletedUnmarked'
    BY <1>4 DEF Granted, CompletedUnmarked
  <2>4. IdsIssued'
    BY <1>2, <1>4 DEF Granted, IdsIssued
  <2> QED BY <2>2, <2>3, <2>4
<1>5. ASSUME Settled PROVE OpenUnmarked' /\ CompletedUnmarked' /\ IdsIssued'
  <2>1. \A t \in Task : Kept(t) \/ Freed(t) \/ Born(t) \/ Worked(t)
    BY <1>5, NoOverrun DEF Settled, Shaped
  <2>2. OpenUnmarked'
    BY <2>1 DEF OpenUnmarked, Kept, Freed, Born, Worked, IsOpen, Open
  <2>3. CompletedUnmarked'
    BY <2>1 DEF CompletedUnmarked, OpenUnmarked, Kept, Freed, Born, Worked
  <2>4. IdsIssued'
    BY <1>2, <1>5, <2>1 DEF IdsIssued, Kept, Freed, Born, Worked, Settled
  <2> QED BY <2>2, <2>3, <2>4
<1> QED BY <1>1, <1>3, <1>4, <1>5 DEF StepShape

\* ... so it always holds.
LEMMA AlwaysLedger ==
  ASSUME Plain PROVE Spec => []Ledger
<1>1. Ledger /\ [Next]_vars => Ledger'
  BY LedgerStep
<1> QED BY <1>1, LedgerInit, PTL DEF Spec

\* Claims, dispatches, their rollbacks, handovers, removals, deletion and
\* restarts: whatever their order, an open task has a capability, no handover
\* pending, and an owner who is the captain or still a member.
THEOREM OpenTasksAreOwned ==
  ASSUME Plain PROVE Spec => []OpenTaskIsOwned
<1>1. Ledger => OpenTaskIsOwned
  BY TypedParts DEF Ledger, Sound, Homed, OpenUnmarked, OpenHasCapability,
     OpenTaskIsOwned, IsOpen, Open
<1> QED BY <1>1, AlwaysLedger, PTL

\* remove_member, agent_teams_delete and the rollback of a refused delivery
\* leave no unfinished task with a member that has been removed.
THEOREM RemovedOwnNothing ==
  ASSUME Plain PROVE Spec => []RemovedMemberOwnsNothing
<1>1. Ledger => RemovedMemberOwnsNothing
  BY DEF Ledger, Homed, RemovedMemberOwnsNothing, ActiveMembers
<1> QED BY <1>1, AlwaysLedger, PTL

\* No tool, no scheduler step and no late answer ever touches a completed task.
THEOREM CompletionIsFinal ==
  ASSUME Plain PROVE Spec => CompletedIsFinal
<1>1. ASSUME Ledger, [Next]_vars, NEW t \in Task, task[t].status = "completed"
      PROVE  task'[t] = task[t]
  <2>1. StepShape /\ ~task[t].reassigning
    BY <1>1, StepHasShape DEF Ledger, CompletedUnmarked
  <2>2. CASE \E u \in Task, a \in Member \cup {Captain} : Granted(u, a)
    BY <1>1, <2>1, <2>2 DEF Granted, IsOpen, Open
  <2>3. CASE Settled
    <3>1. Kept(t) \/ Freed(t) \/ Born(t) \/ Worked(t)
      BY <1>1, <2>3, NoOverrun DEF Settled, Shaped, Ledger
    <3>2. ~Born(t)
      BY <1>1, BoundsAssumption DEF Born, Ledger, Sound, Unborn, TypeOK, Task
    <3> QED BY <1>1, <2>1, <3>1, <3>2 DEF Kept, Freed, Worked, IsOpen, Open
  <2> QED BY <2>1, <2>2, <2>3 DEF StepShape
<1>2. Ledger /\ [Next]_vars =>
        [\A t \in Task : task[t].status = "completed" => task'[t] = task[t]]_vars
  BY <1>1
<1> QED BY <1>2, AlwaysLedger, PTL DEF Spec, CompletedIsFinal

\* A step with the shape of a grant is a grant of the abstract ownership ...
LEMMA GrantRefines ==
  ASSUME Ledger, NEW t \in Task, NEW a \in Member \cup {Captain}, Granted(t, a)
  PROVE  Ownership!Grant(t, a)
<1> USE DEF Ledger
<1>1. a # None
  BY NamesAssumption
<1>2. task[t].status # "completed"
  BY DEF Granted, CompletedUnmarked, IsOpen, Open
<1>3. IsOpen(t) => task[t].assignee = a
  BY DEF Granted, OpenUnmarked, IsOpen, Open
<1>4. IsOpen(t)' /\ task'[t].status # "completed"
  BY DEF Granted, IsOpen, Open
<1>5. \A u \in Task \ {t} : task'[u] = task[u] /\ (IsOpen(u)' <=> IsOpen(u))
  BY DEF Granted, IsOpen
<1>6. a \in Member => \A u \in Task \ {t} : ~(IsOpen(u) /\ task[u].assignee = a)
  BY DEF Granted, Busy
<1>7. nextId' = nextId + 1 /\ task'[t].attemptId = nextId + 1 /\ task'[t].assignee = a
  BY DEF Granted
<1> QED BY <1>1, <1>2, <1>3, <1>4, <1>5, <1>6, <1>7 DEF Ownership!Grant

\* ... and any other step takes the tasks that are no longer open from their
\* owners, those that are now completed among them.
LEMMA SettleRefines ==
  ASSUME Plain, Ledger, Settled
  PROVE  Ownership!Next
<1> DEFINE S == {t \in Task : ~(task'[t].status \in Open)}
           D == {t \in Task : task'[t].status = "completed" /\ task[t].status # "completed"}
<1> USE DEF Ledger
<1>1. \A t \in Task : Kept(t) \/ Freed(t) \/ Born(t) \/ Worked(t)
  BY NoOverrun DEF Settled, Shaped
<1>2. \A t \in Task : t \notin S =>
        /\ IsOpen(t)' /\ IsOpen(t) /\ task'[t].assignee = task[t].assignee
        /\ task'[t].attemptId = task[t].attemptId
  BY <1>1 DEF Kept, Freed, Born, Worked, IsOpen, Open
<1>3. \A t \in S : ~IsOpen(t)'
  BY DEF IsOpen
<1>4. D \in SUBSET S /\ S \in SUBSET Task
  BY DEF Open
<1>5. \A t \in D : IsOpen(t) /\ task[t].assignee # None
  BY <1>1 DEF Kept, Freed, Born, Worked, OpenUnmarked
<1>6. \A t \in Task : task'[t].status = "completed"
                        <=> task[t].status = "completed" \/ t \in D
  <2> SUFFICES ASSUME NEW t \in Task, task[t].status = "completed"
               PROVE  task'[t].status = "completed"
    OBVIOUS
  <2>1. ~Born(t)
    BY BoundsAssumption DEF Born, Sound, Unborn, TypeOK, Task
  <2> QED BY <1>1, <2>1 DEF Kept, Freed, Worked, IsOpen, Open
<1>7. nextId' \in {nextId, nextId + 1}
  BY DEF Settled
<1> HIDE DEF S, D
<1>8. Ownership!Release(S, D)
  BY <1>2, <1>3, <1>4, <1>5, <1>6, <1>7 DEF Ownership!Release
<1> QED BY <1>4, <1>8, Zenon DEF Ownership!Next, Ownership!Release

\* The task list, with all its tools, dispatches and handovers, implements the
\* abstract ownership: exclusive grants under fresh generations, final results.
THEOREM KeepsTaskOwnership ==
  ASSUME Plain PROVE Spec => KeepsOwnership
<1>1. Init => Ownership!Init
  <2> SUFFICES ASSUME Init PROVE Ownership!Init
    OBVIOUS
  <2>1. nextId = 0 /\ \A t \in Task : ~IsOpen(t) /\ task[t].status # "completed"
    BY DEF Init, NoTask, IsOpen, Open
  <2> QED BY <2>1 DEF Ownership!Init
<1>2. Ledger /\ [Next]_vars => [Ownership!Next]_(Ownership!vars)
  <2> SUFFICES ASSUME Ledger, [Next]_vars PROVE Ownership!Next
    OBVIOUS
  <2>1. StepShape
    BY StepHasShape DEF Ledger
  <2> QED BY <2>1, GrantRefines, SettleRefines DEF StepShape, Ownership!Next
<1> QED BY <1>1, <1>2, AlwaysLedger, PTL DEF Spec, KeepsOwnership, Ownership!Spec

--------------------------------------------------------------------------------
(* The dependencies decide who works when.                                   *)

Steady == Ledger /\ MemberWorkIsUnblocked

\* No step takes a completed task back, so what was unblocked stays unblocked.
LEMMA CompletedStays ==
  ASSUME Plain, Ledger, StepShape, NEW t \in Task, task[t].status = "completed"
  PROVE  task'[t].status = "completed"
<1> USE DEF Ledger, Sound
<1>1. CASE \E u \in Task, a \in Member \cup {Captain} : Granted(u, a)
  BY <1>1 DEF Granted, CompletedUnmarked, IsOpen, Open
<1>2. CASE Settled
  <2>1. Kept(t) \/ Freed(t) \/ Born(t) \/ Worked(t)
    BY <1>2, NoOverrun DEF Settled, Shaped
  <2>2. ~Born(t)
    BY BoundsAssumption DEF Born, Unborn, TypeOK, Task
  <2> QED BY <2>1, <2>2 DEF Kept, Freed, Worked, IsOpen, Open
<1> QED BY <1>1, <1>2 DEF StepShape

\* A member gets a task only when its dependencies are completed, and keeps it
\* only as long as they are.
LEMMA UnblockedStep ==
  ASSUME Plain, Steady, [Next]_vars
  PROVE  MemberWorkIsUnblocked'
<1> USE DEF Steady, Ledger
<1>1. StepShape
  BY StepHasShape
<1>2. \A d \in Task : task[d].status = "completed" => task'[d].status = "completed"
  BY <1>1, CompletedStays
<1>3. \A t \in Task : task[t].deps \subseteq Task
  BY TypedParts DEF Sound, TaskRecord
<1>4. \A t \in Task : Satisfied(t) /\ task'[t].deps = task[t].deps => Satisfied(t)'
  BY <1>2, <1>3 DEF Satisfied
<1> SUFFICES ASSUME NEW t \in Task, IsOpen(t)', task'[t].assignee \in Member
             PROVE  Satisfied(t)'
  BY DEF MemberWorkIsUnblocked
<1>5. ASSUME NEW u \in Task, NEW a \in Member \cup {Captain}, Granted(u, a)
      PROVE  Satisfied(t) /\ task'[t].deps = task[t].deps
  <2>1. CASE t = u
    BY <1>5, <2>1 DEF Granted, MemberWorkIsUnblocked
  <2>2. CASE t # u
    BY <1>5, <2>2 DEF Granted, MemberWorkIsUnblocked, IsOpen
  <2> QED BY <2>1, <2>2
<1>6. ASSUME Settled
      PROVE  Satisfied(t) /\ task'[t].deps = task[t].deps
  <2>1. Kept(t) \/ Freed(t) \/ Born(t) \/ Worked(t)
    BY <1>6, NoOverrun DEF Settled, Shaped
  <2>2. Kept(t) \/ Worked(t)
    BY <2>1 DEF Freed, Born, IsOpen, Open
  <2> QED BY <2>2 DEF Kept, Worked, MemberWorkIsUnblocked, IsOpen
<1> QED BY <1>1, <1>4, <1>5, <1>6 DEF StepShape

\* It is an invariant together with the ledger.
LEMMA AlwaysSteady ==
  ASSUME Plain PROVE Spec => []Steady
<1>1. Init => Steady
  BY LedgerInit DEF Steady, MemberWorkIsUnblocked, Init, NoTask, IsOpen, Open
<1>2. Steady /\ [Next]_vars => Steady'
  BY UnblockedStep, LedgerStep DEF Steady
<1> QED BY <1>1, <1>2, PTL DEF Spec

\* While a member works on a task its dependencies are completed, from the
\* dispatch or claim that checked them to the end of the attempt.
THEOREM WorkIsUnblocked ==
  ASSUME Plain PROVE Spec => []MemberWorkIsUnblocked
<1>1. Steady => MemberWorkIsUnblocked
  BY DEF Steady
<1> QED BY <1>1, AlwaysSteady, PTL

--------------------------------------------------------------------------------
(* The scheduler misses no wake-up.                                          *)

\* A well-founded relation has minimal elements in every non-empty set.
LEMMA MinimalIn ==
  ASSUME NEW N, NEW R, IsWellFoundedOn(R, N), NEW S, S \subseteq N, S # {}
  PROVE  \E t \in S : \A u \in S : ~(<<u, t>> \in R)
BY WFMin

\* For a relation that holds whenever a < b ...
LEMMA LeastOf ==
  ASSUME NEW S, S \subseteq Nat, S # {},
         NEW R, IsWellFoundedOn(R, Nat), \A a, b \in Nat : a < b => <<a, b>> \in R
  PROVE  \E t \in S : \A u \in S : t <= u
<1>1. \E t \in S : \A u \in S : ~(<<u, t>> \in R)
  BY MinimalIn
<1>2. PICK t \in S : \A u \in S : ~(<<u, t>> \in R)
  BY <1>1
<1>3. \A u \in S : ~(u < t)
  BY <1>2
<1> QED BY <1>3

\* ... so Array.find finds a task whenever there is one.
LEMMA FirstExists ==
  ASSUME NEW S, S \subseteq Task, S # {}
  PROVE  \E t \in S : IsFirst(t, S)
<1> DEFINE R == OpToRel(<, Nat)
<1>1. \A a, b \in Nat : a < b => <<a, b>> \in R
  BY DEF OpToRel
<1>2. IsWellFoundedOn(R, Nat)
  BY NatLessThanWellFounded
<1>3. S \subseteq Nat
  BY BoundsAssumption DEF Task
<1> HIDE DEF R
<1>4. \E t \in S : \A u \in S : t <= u
  BY <1>1, <1>2, <1>3, LeastOf
<1> QED BY <1>4 DEF IsFirst

\* No restart, no claude-code member, no refused delivery or cancelled wait, no
\* captain that cannot be reached; and no claim by the captain in a member's
\* name, nor a kick spent on mail, neither of which wakes the member.
Calm == /\ ClaudeMembers = {} /\ Faults \subseteq {"request_error"} /\ MaxCrashes = 0
        /\ "claim_for" \notin Tools /\ "send_message" \notin Tools

\* No task has spent its attempts: a kick never ends at config.maxTaskAttempts.
NotExhausted == \A t \in Task : task[t].attempt < MaxTaskAttempts

\* What a kick of m would find to do.
Work(m) == {t \in Task : \/ IsOpen(t) /\ task[t].assignee = m
                         \/ Ready(t) /\ task[t].assignee \in {m, None}}

\* Nothing is on its way that will kick m.
Unattended(m) ==
  /\ active /\ Gate /\ removals = {} /\ m \in ActiveMembers
  /\ live[m] = "idle" /\ m \notin kicks /\ ticket[m] = NoTicket

Attended == \A m \in Member : Unattended(m) => Work(m) = {}
Retirees == \A m \in retired \cup removals \cup deletion.roster : memberStatus[m] = "removed"

\* A step that changes one task makes no other task ready unless it completes it.
LEMMA OtherWork ==
  ASSUME TypeOK, NEW t \in Task, NEW r, task' = [task EXCEPT ![t] = r],
         r.status # "completed", NEW m, t \notin Work(m)'
  PROVE  Work(m)' \subseteq Work(m)
<1>1. task'[t] = r /\ \A u \in Task \ {t} : task'[u] = task[u]
  BY DEF TypeOK
<1>2. \A u \in Task : task[u].deps \subseteq Task
  BY TypedParts DEF TaskRecord
<1> SUFFICES ASSUME NEW u \in Work(m)' PROVE u \in Work(m)
  OBVIOUS
<1>3. u \in Task /\ u # t /\ task'[u] = task[u]
  BY <1>1 DEF Work
<1>4. Satisfied(u)' => Satisfied(u)
  BY <1>1, <1>2, <1>3 DEF Satisfied
<1> QED BY <1>3, <1>4 DEF Work, IsOpen, Ready

\* What is left to show of a step: who is unattended after it was so before,
\* and has no more work.
LEMMA AttendedBy ==
  ASSUME Attended,
         \A m \in Member : Unattended(m)' =>
           Work(m)' = {} \/ (Unattended(m) /\ Work(m)' \subseteq Work(m))
  PROVE  Attended'
BY DEF Attended

\* Only removed members are retired, being removed or on a deletion's roster.
LEMMA RetireesStep ==
  ASSUME TypeOK, Retirees, [Next]_vars
  PROVE  Retirees'
<1>1. ASSUME UNCHANGED <<memberStatus, retired, removals, deletion>> PROVE Retirees'
  BY <1>1 DEF Retirees
<1>2. ASSUME NEW m \in Member, AddMember(m) PROVE Retirees'
  BY <1>2 DEF AddMember, Retirees, TypeOK, callVars
<1>3. ASSUME NEW m \in Member, RemoveMember(m) PROVE Retirees'
  BY <1>3 DEF RemoveMember, Retirees, TypeOK
<1>4. CASE DeleteBegin
  BY <1>4 DEF DeleteBegin, Retirees, TypeOK, ActiveMembers
<1>5. CASE DeleteRetire
  <2>1. deletion'.roster = deletion.roster
    BY <1>5 DEF DeleteRetire, TypeOK
  <2> QED BY <1>5, <2>1 DEF DeleteRetire, Retirees, teamVars
<1>6. CASE DeleteCommit \/ Crash
  BY <1>6 DEF DeleteCommit, Crash, Retirees, teamVars
<1>7. ASSUME NEW m \in Member, RemoveRetire(m) \/ RemoveFinish(m) PROVE Retirees'
  BY <1>7 DEF RemoveRetire, RemoveFinish, Retirees, teamVars, callVars
<1>8. ASSUME NEW t, NEW status, NEW write,
             UpdateByCaptain(t, status, write)
               \/ \E m \in Member : UpdateByMember(m, t, status, write)
      PROVE  Retirees'
  BY <1>1, <1>8 DEF UpdateByCaptain, UpdateByMember, UpdateWrite, callVars
<1>9. CASE Captains
  BY <1>1, <1>2, <1>3, <1>4, <1>8, <1>9 DEF Captains, CreateTask, SubmitTask, StartTeam,
     KickTeam, ReassignBegin, ClaimByCaptain, teamVars, callVars
<1>10. CASE Members
  BY <1>1, <1>8, <1>10 DEF Members, ClaimByMember, RecordReceipt, RequestError,
     TurnStart, teamVars, callVars
<1>11. CASE Quiesced \/ Conclude
  BY <1>1, <1>5, <1>6, <1>7, <1>11 DEF Quiesced, Conclude, ReassignQuiesced,
     ReassignCommit, ReassignAborted, teamVars, callVars
<1>12. ASSUME NEW m \in Member, Kick(m) \/ TurnEnd(m) PROVE Retirees'
  BY <1>1, <1>12 DEF Kick, TurnEnd, KickDeclined, KickExhausted, KickIdle, KickDispatch,
     teamVars, callVars
<1>13. ASSUME NEW m \in Member, Settle(m) PROVE Retirees'
  BY <1>1, <1>13 DEF Settle, DeliverAccepted, DeliverRejected, ClaudeMirror,
     ClaudeFinished, teamVars, callVars
<1>14. CASE UNCHANGED vars
  BY <1>1, <1>14 DEF vars, teamVars, callVars
<1> QED BY <1>6, <1>9, <1>10, <1>11, <1>12, <1>13, <1>14 DEF Next

Tended == Steady /\ Retirees /\ Attended

\* A refused delivery: in a calm team only a removed member refuses, and then
\* the task was taken from it with the removal.
LEMMA RefusalIsStale ==
  ASSUME Calm, Tended, NEW m \in Member, DeliverRejected(m)
  PROVE  task' = task /\ m \notin ActiveMembers
<1> USE DEF Tended, Steady, Ledger, Sound
<1>1. m \in retired /\ m \notin ActiveMembers
  BY DEF DeliverRejected, Calm, Retirees, ActiveMembers
<1>2. ticket[m] # NoTicket /\ ticket[m].task \in Task
  BY TypedParts DEF DeliverRejected, Delivering
<1>3. ~(Capable(m) /\ IsOpen(ticket[m].task))
  BY <1>1, <1>2 DEF TicketsOwned, Homed, IsOpen, Open
<1> QED BY <1>1, <1>3 DEF DeliverRejected, Calm

\* Whatever makes work for a member at rest, or brings a member to rest, kicks
\* it, or leaves something under way that will.
LEMMA AttendedStep ==
  ASSUME Calm, NotExhausted, Tended, [Next]_vars
  PROVE  Attended'
<1> USE DEF Tended, Steady, Ledger, Sound
<1>k. task \in [Task -> TaskRecord] /\ ticket \in [Member -> Ticket \cup {NoTicket}]
      /\ live \in [Member -> {"idle", "running"}]
  BY DEF TypeOK
\* Steps that leave the task list alone.
<1>1. ASSUME UNCHANGED task, \A m \in Member : Unattended(m)' => Unattended(m)
      PROVE  Attended'
  <2>1. \A m \in Member : Work(m)' = Work(m)
    BY <1>1 DEF Work, IsOpen, Ready, Satisfied
  <2> QED BY <1>1, <2>1, AttendedBy
<1>2. ASSUME \A m \in Member : ~Unattended(m)' PROVE Attended'
  BY <1>2 DEF Attended
\* Steps that change one task, which is then no work for whom they leave idle.
<1>3. ASSUME NEW t \in Task, NEW r, task' = [task EXCEPT ![t] = r],
             r.status # "completed",
             \A m \in Member : Unattended(m)' => Unattended(m) /\ t \notin Work(m)'
      PROVE  Attended'
  BY <1>3, OtherWork, AttendedBy
<1>4. ASSUME NEW m \in Member, AddMember(m) PROVE Attended'
  BY <1>1, <1>4 DEF AddMember, Unattended, ActiveMembers, Gate, TypeOK, callVars
<1>5. ASSUME NEW a, NEW D, NEW needs, CreateTask(a, D, needs) \/ SubmitTask(a, needs)
      PROVE  Attended'
  BY <1>2, <1>5 DEF CreateTask, SubmitTask, Unattended, ActiveMembers, Gate, Kicked
<1>6. CASE StartTeam
  BY <1>2, <1>6 DEF StartTeam, Unattended, ActiveMembers
<1>7. CASE KickTeam
  BY <1>1, <1>7 DEF KickTeam, Unattended, ActiveMembers, Gate, teamVars, hostVars, callVars
<1>8. ASSUME NEW t \in Task, NEW a \in Member \cup {Captain}, ReassignBegin(t, a)
      PROVE  Attended'
  <2> DEFINE r == Invalidated(task[t], a, TRUE, nextId + 1)
  <2>1. r.status = "pending" /\ r.reassigning /\ task' = [task EXCEPT ![t] = r]
    BY <1>8, TypedParts DEF Invalidated, TaskRecord, ReassignBegin
  <2> HIDE DEF r
  <2>2. \A m \in Member : t \notin Work(m)'
    BY <1>k, <2>1 DEF Work, IsOpen, Open, Ready
  <2>3. \A m \in Member : Unattended(m)' => Unattended(m)
    BY <1>8 DEF ReassignBegin, Unattended, ActiveMembers, Gate, hostVars
  <2> QED BY <1>3, <2>1, <2>2, <2>3
<1>9. ASSUME NEW t, NEW status, NEW out, UpdateWrite(t, status, out) PROVE Attended'
  BY <1>2, <1>9 DEF UpdateWrite, Unattended, ActiveMembers, Gate, Kicked
<1>10. ASSUME NEW m \in Member, RemoveMember(m) PROVE Attended'
  BY <1>2, <1>10 DEF RemoveMember, Unattended
<1>11. CASE DeleteBegin
  BY <1>2, <1>11 DEF DeleteBegin, Unattended, ActiveMembers
\* A member or the captain begins an attempt.
<1>12. ASSUME NEW t \in Task, NEW a \in Member \cup {Captain},
              task' = [task EXCEPT ![t] = Begun(task[t], a, nextId + 1)],
              \A m \in Member : Unattended(m)' => Unattended(m) /\ m # a
       PROVE  Attended'
  <2> DEFINE r == Begun(task[t], a, nextId + 1)
  <2>1. r.status = "claimed" /\ r.assignee = a
    BY TypedParts, BegunFields
  <2>2. task' = [task EXCEPT ![t] = r]
    BY <1>12
  <2> HIDE DEF r
  <2>3. \A m \in Member : m # a => t \notin Work(m)'
    BY <1>k, <2>1, <2>2 DEF Work, IsOpen, Ready
  <2> QED BY <1>3, <1>12, <2>1, <2>2, <2>3
\* An attempt is given up.
<1>13. ASSUME NEW t \in Task, task' = [task EXCEPT ![t] = Failed(task[t])],
              \A m \in Member : Unattended(m)' => Unattended(m)
       PROVE  Attended'
  <2> DEFINE r == Failed(task[t])
  <2>1. r.status = "failed"
    BY TypedParts DEF Failed, TaskRecord
  <2>2. task' = [task EXCEPT ![t] = r]
    BY <1>13
  <2> HIDE DEF r
  <2>3. \A m \in Member : t \notin Work(m)'
    BY <1>k, <2>1, <2>2 DEF Work, IsOpen, Open, Ready
  <2> QED BY <1>3, <1>13, <2>1, <2>2, <2>3
<1>14. ASSUME NEW m \in Member, NEW t \in Task, ClaimByMember(m, t) PROVE Attended'
  <2>1. \A n \in Member : Unattended(n)' => Unattended(n) /\ n # m
    BY <1>14 DEF ClaimByMember, Unattended, ActiveMembers, Gate, callVars
  <2>2. task' = task \/ task' = [task EXCEPT ![t] = Begun(task[t], m, nextId + 1)]
    BY <1>14 DEF ClaimByMember
  <2> QED BY <1>1, <1>12, <2>1, <2>2
<1>15. ASSUME NEW m \in Member, RecordReceipt(m) PROVE Attended'
  <2>1. PICK t \in Task :
          /\ OwnedOpen(m, t)
          /\ task' = [task EXCEPT ![t] = [task[t] EXCEPT !.receipts = task[t].attemptId]]
    BY <1>15 DEF RecordReceipt
  <2> DEFINE r == [task[t] EXCEPT !.receipts = task[t].attemptId]
  <2>2. r.status \in Open /\ r.assignee = m
    BY <2>1, TypedParts DEF TaskRecord, OwnedOpen, IsFirst, IsOpen
  <2>3. task' = [task EXCEPT ![t] = r]
    BY <2>1
  <2> HIDE DEF r
  <2>4. \A n \in Member : n # m => t \notin Work(n)'
    BY <1>k, <2>2, <2>3 DEF Work, IsOpen, Open, Ready
  <2>5. \A n \in Member : Unattended(n)' => Unattended(n) /\ n # m
    BY <1>15 DEF RecordReceipt, Unattended, ActiveMembers, Gate, hostVars, callVars
  <2>6. r.status # "completed"
    BY <2>2 DEF Open
  <2> QED BY <1>3, <2>3, <2>4, <2>5, <2>6
<1>16. ASSUME NEW m \in Member, RequestError(m) PROVE Attended'
  <2>1. PICK t \in Task : task' = [task EXCEPT ![t] = Failed(task[t])]
    BY <1>16 DEF RequestError
  <2>2. \A n \in Member : Unattended(n)' => Unattended(n)
    BY <1>16 DEF RequestError, Unattended, ActiveMembers, Gate, hostVars, callVars
  <2> QED BY <1>13, <2>1, <2>2
<1>17. ASSUME NEW m \in Member, TurnStart(m) \/ KickExhausted(m) \/ ClaudeMirror(m)
                \/ ClaudeFinished(m, "completed") \/ ClaudeFinished(m, "failed")
       PROVE  FALSE
  <2>1. ~KickExhausted(m)
    <3> SUFFICES ASSUME NEW t \in Task PROVE ~(task[t].attempt >= MaxTaskAttempts)
      BY DEF KickExhausted
    <3>1. task[t].attempt \in Nat
      BY TypedParts DEF TaskRecord
    <3> QED BY <3>1, BoundsAssumption DEF NotExhausted
  <2> QED BY <1>17, <2>1 DEF TurnStart, ClaudeMirror, ClaudeFinished, Calm, TicketsOwned
<1>18. ASSUME NEW m \in Member, KickDeclined(m) PROVE Attended'
  <2>1. \A n \in Member : Unattended(n)' => Unattended(n)
    BY <1>18 DEF KickDeclined, TakeKick, Schedulable, Calm, Unattended, ActiveMembers,
       Gate, teamVars, hostVars, callVars
  <2> QED BY <1>1, <1>18, <2>1 DEF KickDeclined, teamVars
<1>19. ASSUME NEW m \in Member, KickIdle(m) PROVE Attended'
  <2>1. UNCHANGED task /\ kicks' = kicks \ {m}
    BY <1>19 DEF KickIdle, TakeKick, teamVars
  <2>2. \A n \in Member : Work(n)' = Work(n)
    BY <2>1 DEF Work, IsOpen, Ready, Satisfied
  <2>3. ~Busy(m, {}) /\ ~\E t \in Task : NextReady(m, t)
    BY <1>19 DEF KickIdle
  <2>4. ASSUME NEW a \in {m, None}, NEW u \in Task, Ready(u), task[u].assignee = a
        PROVE  FALSE
    <3> DEFINE S(b) == {v \in Task : Ready(v) /\ task[v].assignee = b}
    <3>1. \A b : S(b) # {} => \E t \in S(b) : IsFirst(t, S(b))
      BY FirstExists
    <3>2. S(m) # {} \/ (S(m) = {} /\ S(None) # {})
      BY <2>4
    <3>3. PICK b \in {m, None} : S(b) # {} /\ (b = None => S(m) = {} \/ b = m)
      BY <3>2
    <3>4. PICK t \in S(b) : IsFirst(t, S(b))
      BY <3>1, <3>3
    <3>5. NextReady(m, t)
      BY <3>3, <3>4 DEF NextReady
    <3> QED BY <2>3, <3>4, <3>5
  <2>5. Work(m) = {}
    BY <2>3, <2>4 DEF Work, Busy
  <2>6. \A n \in Member : n # m /\ Unattended(n)' => Unattended(n)
    BY <1>19, <2>1 DEF KickIdle, Unattended, ActiveMembers, Gate, teamVars, hostVars, callVars
  <2> QED BY <2>2, <2>5, <2>6, AttendedBy
<1>20. ASSUME NEW m \in Member, KickDispatch(m) PROVE Attended'
  <2>1. PICK t \in Task : task' = [task EXCEPT ![t] = Begun(task[t], m, nextId + 1)]
    BY <1>20 DEF KickDispatch
  <2>2. ticket'[m] # NoTicket /\ \A n \in Member \ {m} : ticket'[n] = ticket[n]
    <3>1. PICK k \in Task :
            ticket' = [ticket EXCEPT ![m] =
              [task |-> k, attemptId |-> nextId + 1,
               previousAssignee |-> task[k].assignee, phase |-> "deliver"]]
      BY <1>20 DEF KickDispatch
    <3>2. k # 0
      BY BoundsAssumption DEF Task
    <3> QED BY <1>k, <3>1, <3>2 DEF NoTicket
  <2>3. \A n \in Member : Unattended(n)' => Unattended(n) /\ n # m
    BY <1>20, <2>2 DEF KickDispatch, TakeKick, Unattended, ActiveMembers, Gate, hostVars,
       callVars
  <2> QED BY <1>12, <2>1, <2>3
<1>21. ASSUME NEW m \in Member, DeliverAccepted(m) PROVE Attended'
  <2>1. live'[m] = "running" /\ \A n \in Member \ {m} : live'[n] = live[n]
    BY <1>k, <1>21 DEF DeliverAccepted, FollowUp
  <2>2. \A n \in Member \ {m} : ticket'[n] = ticket[n]
    BY <1>k, <1>21 DEF DeliverAccepted
  <2>3. \A n \in Member : Unattended(n)' => Unattended(n)
    BY <1>21, <2>1, <2>2 DEF DeliverAccepted, Unattended, ActiveMembers, Gate, teamVars,
       callVars
  <2> QED BY <1>1, <1>21, <2>3 DEF DeliverAccepted, teamVars
<1>22. ASSUME NEW m \in Member, DeliverRejected(m) PROVE Attended'
  <2>1. task' = task /\ m \notin ActiveMembers
    BY <1>22, RefusalIsStale
  <2>2. \A n \in Member \ {m} : ticket'[n] = ticket[n]
    BY <1>k, <1>22 DEF DeliverRejected
  <2>3. \A n \in Member : Unattended(n)' => Unattended(n)
    BY <1>22, <2>1, <2>2 DEF DeliverRejected, Unattended, ActiveMembers, Gate, hostVars,
       callVars
  <2> QED BY <1>1, <2>1, <2>3
<1>23. ASSUME NEW m \in Member, TurnEnd(m) PROVE Attended'
  <2>1. \A n \in Member \ {m} : live'[n] = live[n]
    BY <1>k, <1>23 DEF TurnEnd
  <2>2. live'[m] = "idle" => kicks' = kicks \cup
          (IF active THEN Kicked(lifecycle, {m} \cap ActiveMembers) ELSE {})
    BY <1>k, <1>23 DEF TurnEnd
  <2>3. kicks \subseteq kicks'
    BY <1>23 DEF TurnEnd
  <2>4. \A n \in Member : Unattended(n)' => Unattended(n)
    BY <1>23, <2>1, <2>2, <2>3 DEF TurnEnd, Unattended, ActiveMembers, Gate, Kicked,
       teamVars, callVars
  <2> QED BY <1>1, <1>23, <2>4 DEF TurnEnd, teamVars
<1>24. ASSUME NEW h \in handoffs, ReassignQuiesced(h) PROVE Attended'
  <2>1. \A m \in Member : Unattended(m)' => Unattended(m)
    BY <1>24 DEF ReassignQuiesced, Unattended, ActiveMembers, Gate, teamVars, hostVars
  <2> QED BY <1>1, <1>24, <2>1 DEF ReassignQuiesced, teamVars
<1>25. ASSUME NEW h \in handoffs, ReassignCommit(h) PROVE Attended'
  <2> DEFINE t == h.task
  <2>1. t \in Task /\ h.target \in Member \cup {Captain}
    BY TypedParts
  <2>2. kicks \subseteq kicks' /\ \A m \in Member : Unattended(m)' => Unattended(m)
    BY <1>25 DEF ReassignCommit, Unattended, ActiveMembers, Gate, hostVars
  <2>3. CASE task' = task
    BY <1>1, <2>2, <2>3
  <2>4. CASE task' = [task EXCEPT ![t] = Begun(task[t], Captain, nextId + 1)]
    BY <1>12, <2>1, <2>2, <2>4, NamesAssumption
  <2>5. CASE /\ StillOurs(h) /\ h.target # Captain /\ kicks' = kicks \cup {h.target}
             /\ task' = [task EXCEPT ![t].reassigning = FALSE]
    <3> DEFINE r == [task[t] EXCEPT !.reassigning = FALSE]
    <3>1. /\ r.status = task[t].status /\ r.assignee = task[t].assignee
          /\ task[t].assignee = h.target /\ task[t].reassigning
      BY <2>1, <2>5, TypedParts DEF TaskRecord, StillOurs
    <3>2. task' = [task EXCEPT ![t] = r]
      BY <2>5
    <3> HIDE DEF r, t
    <3>3. task'[t] = r
      BY <1>k, <2>1, <3>2
    <3>4. \A m \in Member : m # h.target => t \notin Work(m)'
      BY <2>1, <2>5, <3>1, <3>3, NamesAssumption DEF Work
    <3>5. \A m \in Member : Unattended(m)' => m # h.target
      BY <2>5 DEF Unattended
    <3>6. r.status # "completed"
      BY <2>1, <3>1 DEF CompletedUnmarked
    <3> QED BY <1>3, <2>1, <2>2, <3>2, <3>4, <3>5, <3>6
  <2> QED BY <1>25, <2>3, <2>4, <2>5 DEF ReassignCommit
<1>26. ASSUME NEW h \in handoffs, ReassignAborted(h) PROVE FALSE
  BY <1>26 DEF ReassignAborted, Calm
<1>27. ASSUME NEW m \in Member, RemoveRetire(m) PROVE Attended'
  BY <1>1, <1>27 DEF RemoveRetire, Unattended, ActiveMembers, Gate, teamVars, hostVars,
     callVars
<1>28. ASSUME NEW m \in Member, RemoveFinish(m) PROVE Attended'
  BY <1>2, <1>28 DEF RemoveFinish, Calm, Unattended, ActiveMembers, Gate, Kicked, teamVars
<1>29. CASE DeleteRetire
  BY <1>1, <1>29 DEF DeleteRetire, Unattended, ActiveMembers, Gate, teamVars, hostVars
<1>30. CASE DeleteCommit
  BY <1>2, <1>30 DEF DeleteCommit, Unattended
<1>31. ~Crash
  BY DEF Crash, Calm, TypeOK
<1>32. CASE UNCHANGED vars
  BY <1>1, <1>32 DEF vars, teamVars, hostVars, callVars, Unattended, ActiveMembers, Gate
<1> QED
  <2>1. CASE Captains
    BY <1>4, <1>5, <1>6, <1>7, <1>8, <1>9, <1>10, <1>11, <2>1
    DEF Captains, UpdateByCaptain, ClaimByCaptain, Calm
  <2>2. CASE Members
    BY <1>9, <1>14, <1>15, <1>16, <1>17, <2>2 DEF Members, UpdateByMember
  <2>3. CASE Quiesced \/ Conclude
    BY <1>24, <1>25, <1>26, <1>27, <1>28, <1>29, <1>30, <2>3 DEF Quiesced, Conclude
  <2>4. ASSUME NEW m \in Member, Kick(m) \/ Settle(m) \/ TurnEnd(m) PROVE Attended'
    BY <1>17, <1>18, <1>19, <1>20, <1>21, <1>22, <1>23, <2>4 DEF Kick, Settle
  <2> QED BY <1>31, <1>32, <2>1, <2>2, <2>3, <2>4 DEF Next

\* While nobody restarts, refuses or gives up, the dependencies decide who works
\* when: members work on unblocked tasks only, and once everything has come to
\* rest no active member is left beside a task it could work on.  For every
\* roster, task graph and mix of handovers, removals, claims and updates, in
\* every behaviour in which no task runs out of attempts.
THEOREM NothingStranded ==
  ASSUME Calm PROVE Spec /\ []NotExhausted => []DispatchFollowsGraph
<1>0. Plain
  BY DEF Calm, Plain
<1>1. Init => Retirees /\ Attended
  BY DEF Init, Retirees, Attended, Work, NoTask, IsOpen, Open, Ready
<1>2. Steady /\ Retirees /\ Attended /\ NotExhausted /\ [Next]_vars => Retirees' /\ Attended'
  BY RetireesStep, AttendedStep DEF Tended, Steady, Ledger, Sound
<1>3. Steady /\ Attended => DispatchFollowsGraph
  <2> SUFFICES ASSUME Attended, Quiet, active, Gate, NEW m \in ActiveMembers
               PROVE  ~Busy(m, {}) /\ ~\E t \in Task : NextReady(m, t)
    BY DEF DispatchFollowsGraph, NoStrandedWork, Steady
  <2>1. Work(m) = {}
    BY DEF Attended, Unattended, Quiet, ActiveMembers
  <2> QED BY <2>1 DEF Work, Busy, NextReady, IsFirst
<1>4. Spec => []Steady
  BY <1>0, AlwaysSteady
<1> QED BY <1>1, <1>2, <1>3, <1>4, PTL DEF Spec
================================================================================
