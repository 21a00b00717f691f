------------------------------- MODULE TeamTasks -------------------------------
(*****************************************************************************)
(* The durable task list of one AgentTeams team and everything that writes  *)
(* it: the agent_teams_* tools, the scheduler that dispatches ready tasks,  *)
(* and the observers of member activity.                                    *)
(*                                                                           *)
(* One action is one critical section under withTeamLock, or one step of    *)
(* the code between two critical sections.  team.json is `task`, `taskSeq`, *)
(* `memberStatus`, `lifecycle` and `active`; everything else is in-process  *)
(* (lost by a crash) or belongs to the member agents of the host.           *)
(*                                                                           *)
(* Abstractions.  A member name is an element of Member and a name is used  *)
(* once, as add_member demands.  A random UUID is the next value of a       *)
(* counter, 0 stands for undefined.  The working / idle half of a member's  *)
(* status, which no decision here reads, is left out.  The text a worker     *)
(* writes, and the receipts of its tools, are identified by the attempt      *)
(* whose capability it held; text the plugin itself writes into a failed     *)
(* task is 0.                                                                *)
(*                                                                           *)
(* Operators introduced by "Mutation:" are not part of the specification:   *)
(* each is a wrong version of the definition that follows it, which one of   *)
(* the properties must tell from the right one.                              *)
(*****************************************************************************)
EXTENDS Naturals, FiniteSets

CONSTANTS
  Member,          \* names of the possible team members
  Captain,         \* CAPTAIN_KEY, the captain's name in task.assignee
  None,            \* undefined
  ClaudeMembers,   \* members added with runtime = "claude-code"
  Roster,          \* members created from the template of agent_teams_create
  MaxTasks,        \* bound: tasks t1 .. t_MaxTasks
  MaxId,           \* bound: UUIDs generated before the last step that may ask for one
  MaxCrashes,      \* bound: process restarts
  MaxMembers,      \* config.maxMembers
  MaxTaskAttempts, \* config.maxTaskAttempts
  Controlled,      \* config.controlledWorkflow
  Tools,           \* bound: the tools called in this instance
  Faults           \* bound: the failures that happen in this instance

AllTools == {"add_member", "remove_member", "create_task", "submit_task",
             "reassign_task", "claim_task", "claim_for", "update_task",
             "send_message", "status", "delete"}
AllFaults == {"captain_offline", "followup_rejected", "late_rejection",
              "quiescence_error", "request_error"}

ASSUME NamesAssumption ==
  /\ Captain \notin Member /\ None \notin Member /\ Captain # None
  /\ ClaudeMembers \subseteq Member /\ Roster \subseteq Member
ASSUME BoundsAssumption ==
  /\ MaxTasks \in Nat /\ MaxId \in Nat /\ MaxCrashes \in Nat
  /\ MaxMembers \in Nat /\ MaxTaskAttempts \in Nat \ {0}
  /\ Controlled \in BOOLEAN
  /\ Tools \subseteq AllTools /\ Faults \subseteq AllFaults

Task == 1 .. MaxTasks
Id == Nat

Terminal == {"completed", "failed", "cancelled"}
Open == {"claimed", "in_progress"}
TaskStatus == {"pending"} \cup Open \cup Terminal

TaskRecord == [status      : TaskStatus \cup {"absent"},
               assignee    : Member \cup {Captain, None},
               deps        : SUBSET Task,
               attempt     : Nat,
               attemptId   : Id,
               handoffId   : Id,
               reassigning : BOOLEAN,
               output      : Id,
               needsTools  : BOOLEAN,
               receipts    : Id]

NoTask == [status |-> "absent", assignee |-> None, deps |-> {}, attempt |-> 0,
           attemptId |-> 0, handoffId |-> 0, reassigning |-> FALSE,
           output |-> 0, needsTools |-> FALSE, receipts |-> 0]

\* A dispatch between its locked decision and the settlement of its delivery.
Ticket == [task : Task, attemptId : Nat \ {0},
           previousAssignee : Member \cup {Captain, None},
           phase : {"deliver", "cli"}]
NoTicket == [task |-> 0]

\* A reassign_task call between its two critical sections; previous is the
\* worker it waits for, None once that worker was seen idle.
Handoff == [task : Task, target : Member \cup {Captain}, handoffId : Nat \ {0},
            previous : Member \cup {None}]

VARIABLES
  active,       \* the team directory is not archived
  lifecycle,    \* team.lifecycle
  memberStatus, \* "absent" before add_member, then "active" until removed
  taskSeq,      \* team.taskSeq
  task,         \* team.tasks
  nextId,       \* the last UUID generated
  retired,      \* retired-members.json
  live,         \* status of the member's agent in the host
  held,         \* the last attempt id the member's agent was shown
  prompt,       \* attempt id of a queued follow-up not yet read, 0 if none
  kicks,        \* members with a kickMember call that has not decided yet
  ticket,       \* the dispatch in flight of each member (serializeMember)
  handoffs,     \* reassign_task calls in flight
  removals,     \* remove_member calls in flight
  deletion,     \* the delete call in flight: its phase and its roster
  crashes       \* restarts so far

teamVars == <<active, lifecycle, memberStatus, taskSeq, task>>
hostVars == <<live, held, prompt>>
callVars == <<handoffs, removals, deletion>>
vars == <<teamVars, nextId, retired, hostVars, kicks, ticket, callVars, crashes>>

ActiveMembers == {m \in Member : memberStatus[m] = "active"}
Satisfied(t) == \A d \in task[t].deps : task[d].status = "completed"
IsOpen(t) == task[t].status \in Open
\* Mutation: only a started task makes its owner busy.
BusyStarted(a, except) ==
  \E u \in Task \ except : task[u].status = "in_progress" /\ task[u].assignee = a
\* memberOpenTask(team, name, exceptTaskId) # undefined; ownedOpenTask with {}
Busy(a, except) == \E u \in Task \ except : IsOpen(u) /\ task[u].assignee = a
Gate == Controlled => lifecycle = "running"
\* Mutation: a team without the controlled workflow has no "running" lifecycle.
KickedWhenControlled(life, members) ==
  IF Controlled /\ life = "running" THEN members ELSE {}
\* kickTeam: one kickMember per member that is not removed, once past the gate
Kicked(life, members) == IF Controlled /\ life # "running" THEN {} ELSE members

\* Array.find over the task list: the member of S created first
IsFirst(t, S) == t \in S /\ \A u \in S : t <= u

\* Mutations: the previous attempt's receipts or the mark of the handoff survive
\* the start of the next attempt.
ActivatedKeepsReceipts(r, a, id) ==
  [r EXCEPT !.status = "claimed", !.assignee = a, !.attemptId = id,
            !.handoffId = 0, !.reassigning = FALSE, !.output = 0]
ActivatedKeepsMark(r, a, id) ==
  [r EXCEPT !.status = "claimed", !.assignee = a, !.attemptId = id,
            !.handoffId = 0, !.output = 0, !.receipts = 0]
Activated(r, a, id) ==
  [r EXCEPT !.status = "claimed", !.assignee = a, !.attemptId = id,
            !.handoffId = 0, !.reassigning = FALSE, !.output = 0,
            !.receipts = 0]
Begun(r, a, id) == Activated([r EXCEPT !.attempt = @ + 1], a, id)
Invalidated(r, next, flag, id) ==
  [r EXCEPT !.attemptId = 0, !.handoffId = id, !.status = "pending",
            !.assignee = next, !.reassigning = flag, !.output = 0]

\* The plugin gives up on an attempt: its own text replaces the worker's.
Failed(r) == [r EXCEPT !.status = "failed", !.attemptId = 0, !.output = 0]

\* Mutations: only open tasks, or even completed ones, are given back.
RequeuedOpenOnly(S) ==
  [t \in Task |-> IF task[t].assignee \in S /\ IsOpen(t)
                  THEN Invalidated(task[t], None, FALSE, nextId + 1)
                  ELSE task[t]]
RequeuedAll(S) ==
  [t \in Task |-> IF task[t].assignee \in S
                  THEN Invalidated(task[t], None, FALSE, nextId + 1)
                  ELSE task[t]]
\* Every unfinished task of the members in S goes back to the shared pool.
\* (Tasks are told apart by their own handoffId, so one id serves them all.)
Requeued(S) ==
  [t \in Task |-> IF task[t].assignee \in S /\ task[t].status # "completed"
                  THEN Invalidated(task[t], None, FALSE, nextId + 1)
                  ELSE task[t]]

Init ==
  /\ active = TRUE
  /\ lifecycle = IF Controlled THEN "draft" ELSE "running"
  /\ memberStatus = [m \in Member |-> IF m \in Roster THEN "active" ELSE "absent"]
  /\ taskSeq = 0 /\ task = [t \in Task |-> NoTask]
  /\ nextId = 0 /\ retired = {}
  /\ live = [m \in Member |-> "idle"]
  /\ held = [m \in Member |-> 0] /\ prompt = [m \in Member |-> 0]
  /\ kicks = {} /\ ticket = [m \in Member |-> NoTicket]
  /\ handoffs = {} /\ removals = {}
  /\ deletion = [phase |-> "none", roster |-> {}]
  /\ crashes = 0

--------------------------------------------------------------------------------
(* The captain's tools that shape the team and its task list.                *)

AddMember(m) ==
  /\ active /\ "add_member" \in Tools
  /\ memberStatus[m] = "absent"
  /\ Cardinality(ActiveMembers) < MaxMembers
  /\ memberStatus' = [memberStatus EXCEPT ![m] = "active"]
  /\ live' = [live EXCEPT ![m] = "running"] \* startContinuable's first turn
  /\ kicks' = kicks \cup Kicked(lifecycle, {m})
  /\ UNCHANGED <<active, lifecycle, taskSeq, task, nextId, retired, held, prompt,
                 ticket, callVars, crashes>>

NewTask(a, D, needs) ==
  [NoTask EXCEPT !.status = "pending", !.assignee = a, !.deps = D,
                 !.needsTools = needs]

CreateTask(a, D, needs) ==
  /\ active /\ "create_task" \in Tools /\ taskSeq < MaxTasks
  /\ Controlled => lifecycle = "draft" /\ a # None
  /\ D \subseteq 1 .. taskSeq
  /\ a \in ActiveMembers \cup {None}
  /\ taskSeq' = taskSeq + 1
  /\ task' = [task EXCEPT ![taskSeq + 1] = NewTask(a, D, needs)]
  /\ kicks' = kicks \cup Kicked(lifecycle, ActiveMembers)
  /\ UNCHANGED <<active, lifecycle, memberStatus, nextId, retired, hostVars,
                 ticket, callVars, crashes>>

\* Any session may append one independent task for an active member; on an
\* empty controlled draft the new task is the whole graph and opens the gate.
SubmitTask(a, needs) ==
  /\ active /\ "submit_task" \in Tools /\ taskSeq < MaxTasks
  /\ a \in ActiveMembers
  /\ Gate \/ taskSeq = 0
  /\ taskSeq' = taskSeq + 1
  /\ task' = [task EXCEPT ![taskSeq + 1] = NewTask(a, {}, needs)]
  /\ lifecycle' = "running"
  /\ kicks' = kicks \cup ActiveMembers
  /\ UNCHANGED <<active, memberStatus, nextId, retired, hostVars, ticket,
                 callVars, crashes>>

\* validateControlledTaskGraph, on the errors create_task leaves possible
GraphValid ==
  /\ taskSeq > 0
  /\ \A t \in 1 .. taskSeq : task[t].assignee \in ActiveMembers \cup {Captain}

StartTeam ==
  /\ active /\ Controlled
  /\ lifecycle = "draft" /\ GraphValid
  /\ lifecycle' = "running"
  /\ kicks' = kicks \cup ActiveMembers
  /\ UNCHANGED <<active, memberStatus, taskSeq, task, nextId, retired, hostVars,
                 ticket, callVars, crashes>>

\* The captain's status call, an idempotent start or a repeated terminal
\* update: only the trailing kickTeam changes anything.
KickTeam ==
  /\ active /\ "status" \in Tools
  /\ kicks' = kicks \cup Kicked(lifecycle, ActiveMembers)
  /\ UNCHANGED <<teamVars, nextId, retired, hostVars, ticket, callVars, crashes>>

--------------------------------------------------------------------------------
(* The scheduler: kickMember, one at a time per member.                      *)
Ready(t) == task[t].status = "pending" /\ ~task[t].reassigning /\ Satisfied(t)

\* nextReadyTask: the first ready task of the member, else the first unassigned
NextReady(m, t) ==
  \/ IsFirst(t, {u \in Task : Ready(u) /\ task[u].assignee = m})
  \/ /\ ~\E u \in Task : Ready(u) /\ task[u].assignee = m
     /\ IsFirst(t, {u \in Task : Ready(u) /\ task[u].assignee = None})
OwnedOpen(m, t) == IsFirst(t, {u \in Task : IsOpen(u) /\ task[u].assignee = m})
Schedulable(m) == active /\ Gate /\ m \in ActiveMembers /\ live[m] = "idle"

TakeKick(m) ==
  /\ m \in kicks /\ ticket[m] = NoTicket
  /\ kicks' = kicks \ {m}

\* The kick finds nothing it may do, cannot resolve the captain, or is spent
\* on unread mailbox messages (module TeamMailbox), which it delivers first.
KickDeclined(m) ==
  /\ TakeKick(m)
  /\ ~Schedulable(m) \/ "captain_offline" \in Faults \/ "send_message" \in Tools
  /\ UNCHANGED <<teamVars, nextId, retired, hostVars, ticket, callVars, crashes>>

\* An idle member that still owns an open task has spent its attempts on it.
KickExhausted(m) ==
  /\ TakeKick(m) /\ Schedulable(m)
  /\ \E t \in Task :
       /\ OwnedOpen(m, t)
       /\ task[t].attempt >= MaxTaskAttempts
       /\ task' = [task EXCEPT ![t] = Failed(@)]
  /\ UNCHANGED <<active, lifecycle, memberStatus, taskSeq, nextId, retired, hostVars, ticket,
                 callVars, crashes>>

KickIdle(m) ==
  /\ TakeKick(m) /\ Schedulable(m)
  /\ ~Busy(m, {}) /\ ~\E t \in Task : NextReady(m, t)
  /\ UNCHANGED <<teamVars, nextId, retired, hostVars, ticket, callVars, crashes>>

KickDispatch(m) ==
  /\ TakeKick(m) /\ Schedulable(m) /\ nextId < MaxId
  /\ \E t \in Task :
       /\ \/ OwnedOpen(m, t) /\ task[t].attempt < MaxTaskAttempts
          \/ ~Busy(m, {}) /\ NextReady(m, t)
       /\ task' = [task EXCEPT ![t] = Begun(@, m, nextId + 1)]
       /\ ticket' = [ticket EXCEPT ![m] =
            [task |-> t, attemptId |-> nextId + 1,
             previousAssignee |-> task[t].assignee, phase |-> "deliver"]]
  /\ nextId' = nextId + 1
  /\ UNCHANGED <<active, lifecycle, memberStatus, taskSeq, retired, hostVars,
                 callVars, crashes>>

\* A follow-up wakes an idle agent at once and queues behind a running turn.
FollowUp(m, id) ==
  IF live[m] = "idle"
  THEN /\ live' = [live EXCEPT ![m] = "running"]
       /\ held' = [held EXCEPT ![m] = id]
       /\ prompt' = prompt
  ELSE /\ prompt' = [prompt EXCEPT ![m] = id]
       /\ UNCHANGED <<live, held>>

Delivering(m) == ticket[m] # NoTicket /\ ticket[m].phase = "deliver"

DeliverAccepted(m) ==
  /\ Delivering(m) /\ m \notin ClaudeMembers /\ m \notin retired
  /\ FollowUp(m, ticket[m].attemptId)
  /\ ticket' = [ticket EXCEPT ![m] = NoTicket]
  /\ UNCHANGED <<teamVars, nextId, retired, kicks, callVars, crashes>>

\* Mutation: the task is taken for the one of the dispatch whatever its capability.
CapableStill(m) == task[ticket[m].task].attemptId # 0

Capable(m) == task[ticket[m].task].attemptId = ticket[m].attemptId

\* The host refuses the follow-up (a retired member always): the dispatch is
\* rolled back if its capability is still the task's.  Unless late_rejection
\* is among the faults, the refusal is known before anyone ended the attempt.
DeliverRejected(m) ==
  /\ Delivering(m) /\ m \notin ClaudeMembers
  /\ "followup_rejected" \in Faults \/ m \in retired
  /\ LET t == ticket[m].task IN
       /\ "late_rejection" \in Faults \/ ~Capable(m) \/ IsOpen(t)
       /\ IF active /\ Capable(m)
          THEN task' = [task EXCEPT ![t].status = "pending",
                                    ![t].assignee = ticket[m].previousAssignee,
                                    ![t].attemptId = 0, ![t].handoffId = 0,
                                    ![t].reassigning = FALSE]
          ELSE task' = task
  /\ ticket' = [ticket EXCEPT ![m] = NoTicket]
  /\ UNCHANGED <<active, lifecycle, memberStatus, taskSeq, nextId, retired, hostVars, kicks,
                 callVars, crashes>>

\* A claude-code dispatch first mirrors the prompt into the shell session
\* (best effort) and then runs the CLI.
ClaudeMirror(m) ==
  /\ Delivering(m) /\ m \in ClaudeMembers
  /\ \/ FollowUp(m, ticket[m].attemptId) /\ m \notin retired
     \/ UNCHANGED hostVars
  /\ ticket' = [ticket EXCEPT ![m].phase = "cli"]
  /\ UNCHANGED <<teamVars, nextId, retired, kicks, callVars, crashes>>

\* The CLI returns: its result goes straight into the task it was started for.
ClaudeFinished(m, outcome) ==
  /\ ticket[m] # NoTicket /\ ticket[m].phase = "cli"
  /\ IF active /\ Capable(m)
     THEN task' = [task EXCEPT ![ticket[m].task].status = outcome,
                               ![ticket[m].task].output = ticket[m].attemptId]
     ELSE task' = task
  /\ ticket' = [ticket EXCEPT ![m] = NoTicket]
  /\ UNCHANGED <<active, lifecycle, memberStatus, taskSeq, nextId, retired, hostVars, kicks,
                 callVars, crashes>>

--------------------------------------------------------------------------------
(* agent_teams_reassign_task and agent_teams_remove_member: a locked         *)
(* revocation, a wait for the revoked worker, a locked conclusion.           *)

ReassignBegin(t, target) ==
  /\ active /\ "reassign_task" \in Tools /\ nextId < MaxId
  /\ task[t].status \notin {"absent", "completed"}
  /\ ~task[t].reassigning
  /\ target \in ActiveMembers => ~Busy(target, {t})
  /\ target \in ActiveMembers \cup {Captain}
  /\ nextId' = nextId + 1
  /\ task' = [task EXCEPT ![t] = Invalidated(@, target, TRUE, nextId + 1)]
  /\ handoffs' = handoffs \cup
       {[task |-> t, target |-> target, handoffId |-> nextId + 1,
         previous |-> IF IsOpen(t) /\ task[t].assignee \in ActiveMembers
                      THEN task[t].assignee ELSE None]}
  /\ UNCHANGED <<active, lifecycle, memberStatus, taskSeq, retired, hostVars,
                 kicks, ticket, removals, deletion, crashes>>

StillOurs(h) ==
  LET r == task[h.task] IN
    active /\ r.handoffId = h.handoffId /\ r.assignee = h.target /\ r.reassigning

\* whenIdle resolves; the worker may be running again when the lock is taken.
ReassignQuiesced(h) ==
  /\ h \in handoffs /\ h.previous # None /\ live[h.previous] = "idle"
  /\ handoffs' = (handoffs \ {h}) \cup {[h EXCEPT !.previous = None]}
  /\ UNCHANGED <<teamVars, nextId, retired, hostVars, kicks, ticket, removals,
                 deletion, crashes>>

\* The handoff ends, and the captain's own new attempt begins at once.
ReassignCommit(h) ==
  /\ h \in handoffs /\ h.previous = None
  /\ handoffs' = handoffs \ {h}
  /\ \/ /\ StillOurs(h) /\ h.target = Captain
        /\ nextId' = nextId + 1
        /\ task' = [task EXCEPT ![h.task] = Begun(@, Captain, nextId + 1)]
        /\ kicks' = kicks
     \/ /\ StillOurs(h) /\ h.target # Captain
        /\ task' = [task EXCEPT ![h.task].reassigning = FALSE]
        /\ kicks' = kicks \cup {h.target}
        /\ nextId' = nextId
     \/ ~StillOurs(h) /\ UNCHANGED <<task, nextId, kicks>>
  /\ UNCHANGED <<active, lifecycle, memberStatus, taskSeq, retired, hostVars,
                 ticket, removals, deletion, crashes>>

\* The wait is cancelled: the handoff ends without a new attempt or a kick.
ReassignAborted(h) ==
  /\ h \in handoffs /\ "quiescence_error" \in Faults /\ h.previous # None
  /\ handoffs' = handoffs \ {h}
  /\ task' = IF StillOurs(h) THEN [task EXCEPT ![h.task].reassigning = FALSE]
                             ELSE task
  /\ UNCHANGED <<active, lifecycle, memberStatus, taskSeq, nextId, retired,
                 hostVars, kicks, ticket, removals, deletion, crashes>>

RemoveMember(m) ==
  /\ active /\ "remove_member" \in Tools /\ nextId < MaxId
  /\ m \in ActiveMembers
  /\ task' = Requeued({m}) /\ nextId' = nextId + 1
  /\ memberStatus' = [memberStatus EXCEPT ![m] = "removed"]
  /\ removals' = removals \cup {m}
  /\ UNCHANGED <<active, lifecycle, taskSeq, retired, hostVars, kicks, ticket,
                 handoffs, deletion, crashes>>

RemoveRetire(m) ==
  /\ m \in removals /\ m \notin retired
  /\ retired' = retired \cup {m}
  /\ UNCHANGED <<teamVars, nextId, hostVars, kicks, ticket, callVars, crashes>>

\* Mutation: the requeued tasks are not offered to anyone.
RemoveFinishSilent(m) ==
  /\ m \in removals /\ m \in retired
  /\ removals' = removals \ {m} /\ live[m] = "idle"
  /\ UNCHANGED <<teamVars, nextId, retired, hostVars, kicks, ticket, handoffs,
                 deletion, crashes>>
\* A cancelled wait ends the call before its kickTeam.
RemoveFinish(m) ==
  /\ m \in removals /\ m \in retired
  /\ removals' = removals \ {m}
  /\ \/ live[m] = "idle" /\ kicks' = kicks \cup
            (IF active THEN Kicked(lifecycle, ActiveMembers) ELSE {})
     \/ "quiescence_error" \in Faults /\ kicks' = kicks
  /\ UNCHANGED <<teamVars, nextId, retired, hostVars, ticket, handoffs, deletion,
                 crashes>>

--------------------------------------------------------------------------------
(* agent_teams_claim_task and agent_teams_update_task.                       *)
Claimable(t, a) ==
  task[t].status = "pending" /\ Satisfied(t) /\ ~Busy(a, {t})

\* A running member claims a task that is its own or nobody's, or is told the
\* current attempt id of the open task it already owns.
ClaimByMember(m, t) ==
  /\ active /\ "claim_task" \in Tools
  /\ m \in ActiveMembers /\ live[m] = "running"
  /\ ~task[t].reassigning
  /\ \/ /\ task[t].assignee \in {m, None} /\ Claimable(t, m) /\ nextId < MaxId
        /\ nextId' = nextId + 1
        /\ task' = [task EXCEPT ![t] = Begun(@, m, nextId + 1)]
        /\ held' = [held EXCEPT ![m] = nextId + 1]
     \/ /\ task[t].assignee = m /\ IsOpen(t)
        /\ held' = [held EXCEPT ![m] = task[t].attemptId]
        /\ UNCHANGED <<nextId, task>>
  /\ UNCHANGED <<active, lifecycle, memberStatus, taskSeq, retired, live, prompt,
                 kicks, ticket, callVars, crashes>>

\* The captain claims for a named member, or for the assignee the task has.
ClaimByCaptain(t, a) ==
  /\ active /\ "claim_for" \in Tools /\ nextId < MaxId
  /\ a \in ActiveMembers \/ (a # None /\ a = task[t].assignee)
  /\ ~task[t].reassigning /\ Claimable(t, a)
  /\ nextId' = nextId + 1
  /\ task' = [task EXCEPT ![t] = Begun(@, a, nextId + 1)]
  /\ UNCHANGED <<active, lifecycle, memberStatus, taskSeq, retired, hostVars,
                 kicks, ticket, callVars, crashes>>

TASK_TRANSITIONS ==
  {<<"pending", "claimed">>, <<"pending", "cancelled">>,
   <<"claimed", "in_progress">>, <<"claimed", "failed">>, <<"claimed", "cancelled">>,
   <<"in_progress", "completed">>, <<"in_progress", "failed">>,
   <<"in_progress", "cancelled">>}
Transition(from, to) == from = to \/ <<from, to>> \in TASK_TRANSITIONS

\* The write both kinds of caller share: the new status (the current one if
\* none is given) and the output the caller supplies, 0 if it supplies none.
UpdateWrite(t, status, out) ==
  LET output == IF out = 0 THEN task[t].output ELSE out IN
    /\ active /\ "update_task" \in Tools
    /\ task[t].status \notin Terminal \cup {"absent"}
    /\ status \in {task[t].status} \cup (TaskStatus \ {"pending", "claimed"})
    /\ status # task[t].status \/ out # 0
    /\ Transition(task[t].status, status)
    /\ Controlled /\ status = "completed" =>
         output # 0 /\ (task[t].needsTools => task[t].receipts # 0)
    /\ task' = [task EXCEPT ![t].status = status, ![t].output = output]
    /\ kicks' = kicks \cup Kicked(lifecycle, ActiveMembers)
    /\ UNCHANGED <<active, lifecycle, memberStatus, taskSeq, nextId, retired,
                   hostVars, ticket, callVars, crashes>>

\* A running member updates its own task with the capability it holds; while
\* the task has no capability any attempt_id is accepted.
UpdateByMember(m, t, status, write) ==
  /\ m \in ActiveMembers /\ live[m] = "running"
  /\ task[t].assignee = m
  /\ task[t].attemptId # 0 => held[m] = task[t].attemptId
  /\ UpdateWrite(t, status, IF write THEN held[m] ELSE 0)

\* The captain updates its own and unassigned tasks, without a capability.
UpdateByCaptain(t, status, write) ==
  /\ task[t].assignee \in {None, Captain}
  /\ UpdateWrite(t, status, IF write THEN task[t].attemptId ELSE 0)

\* tools/post-execute: a member's successful call of a required tool
RecordReceipt(m) ==
  /\ active /\ Controlled
  /\ m \in ActiveMembers /\ live[m] = "running"
  /\ \E t \in Task : /\ OwnedOpen(m, t) /\ task[t].needsTools
                     /\ task' = [task EXCEPT ![t].receipts = task[t].attemptId]
  /\ UNCHANGED <<active, lifecycle, memberStatus, taskSeq, nextId, retired,
                 hostVars, kicks, ticket, callVars, crashes>>

--------------------------------------------------------------------------------
(* Member agents in the host, and the observers of their activity.           *)

\* A peer's message or the user wakes an idle member.
TurnStart(m) ==
  /\ "send_message" \in Tools
  /\ memberStatus[m] # "absent" /\ m \notin retired /\ live[m] = "idle"
  /\ live' = [live EXCEPT ![m] = "running"]
  /\ UNCHANGED <<teamVars, nextId, retired, held, prompt, kicks, ticket, callVars,
                 crashes>>

\* A turn ends, by itself or by interruptMember.  A queued prompt starts the
\* next one; otherwise the idle event makes syncMemberStatus kick the member.
TurnEnd(m) ==
  /\ live[m] = "running"
  /\ IF prompt[m] # 0
     THEN /\ held' = [held EXCEPT ![m] = prompt[m]]
          /\ prompt' = [prompt EXCEPT ![m] = 0]
          /\ UNCHANGED <<live, kicks>>
     ELSE /\ live' = [live EXCEPT ![m] = "idle"]
          /\ kicks' = kicks \cup
               (IF active THEN Kicked(lifecycle, {m} \cap ActiveMembers) ELSE {})
          /\ UNCHANGED <<held, prompt>>
  /\ UNCHANGED <<teamVars, nextId, retired, ticket, callVars, crashes>>

\* agent/request-error, after the host has given up retrying
RequestError(m) ==
  /\ active /\ "request_error" \in Faults
  /\ m \in ActiveMembers /\ live[m] = "running"
  /\ \E t \in Task :
       /\ OwnedOpen(m, t)
       /\ task' = [task EXCEPT ![t] = Failed(@)]
  /\ UNCHANGED <<active, lifecycle, memberStatus, taskSeq, nextId, retired, hostVars, kicks,
                 ticket, callVars, crashes>>

--------------------------------------------------------------------------------
(* agent_teams_delete, and the loss of everything that is not on disk.       *)

DeleteBegin ==
  /\ active /\ "delete" \in Tools /\ nextId < MaxId
  /\ deletion.phase = "none"
  /\ deletion' = [phase |-> "retire",
                  roster |-> {m \in Member : memberStatus[m] # "absent"}]
  /\ task' = Requeued(ActiveMembers) /\ nextId' = nextId + 1
  /\ memberStatus' = [m \in Member |-> IF m \in ActiveMembers THEN "removed"
                                       ELSE memberStatus[m]]
  /\ UNCHANGED <<active, lifecycle, taskSeq, retired, hostVars, kicks, ticket,
                 handoffs, removals, crashes>>

DeleteRetire ==
  /\ deletion.phase = "retire"
  /\ retired' = retired \cup deletion.roster
  /\ deletion' = [deletion EXCEPT !.phase = "wait"]
  /\ UNCHANGED <<teamVars, nextId, hostVars, kicks, ticket, handoffs, removals,
                 crashes>>

DeleteCommit ==
  /\ deletion.phase = "wait"
  /\ \/ \A m \in deletion.roster : live[m] = "idle"
     \/ "quiescence_error" \in Faults
  /\ active' = FALSE
  /\ deletion' = [phase |-> "none", roster |-> {}]
  /\ UNCHANGED <<lifecycle, memberStatus, taskSeq, task, nextId, retired, hostVars,
                 kicks, ticket, handoffs, removals, crashes>>

Crash ==
  /\ crashes < MaxCrashes /\ crashes' = crashes + 1
  /\ live' = [m \in Member |-> "idle"]
  /\ prompt' = [m \in Member |-> 0]
  /\ kicks' = {} /\ ticket' = [m \in Member |-> NoTicket]
  /\ handoffs' = {} /\ removals' = {}
  /\ deletion' = [phase |-> "none", roster |-> {}]
  /\ UNCHANGED <<teamVars, nextId, retired, held>>

--------------------------------------------------------------------------------
Captains ==
  \/ \E m \in Member : AddMember(m) \/ RemoveMember(m)
  \/ \E needs \in (IF Controlled THEN BOOLEAN ELSE {FALSE}) :
       \/ \E a \in Member \cup {None}, D \in SUBSET Task : CreateTask(a, D, needs)
       \/ \E a \in Member : SubmitTask(a, needs)
  \/ StartTeam \/ KickTeam \/ DeleteBegin
  \/ \E t \in Task, a \in Member \cup {Captain} :
       ReassignBegin(t, a) \/ ClaimByCaptain(t, a)
  \/ \E t \in Task, status \in TaskStatus, write \in BOOLEAN :
       UpdateByCaptain(t, status, write)

Members ==
  \E m \in Member :
    \/ \E t \in Task : ClaimByMember(m, t)
    \/ \E t \in Task, status \in TaskStatus, write \in BOOLEAN :
         UpdateByMember(m, t, status, write)
    \/ RecordReceipt(m) \/ RequestError(m) \/ TurnStart(m)

Kick(m) == KickDeclined(m) \/ KickExhausted(m) \/ KickIdle(m) \/ KickDispatch(m)
Settle(m) == \/ DeliverAccepted(m) \/ DeliverRejected(m) \/ ClaudeMirror(m)
             \/ \E outcome \in {"completed", "failed"} : ClaudeFinished(m, outcome)
Quiesced == \E h \in handoffs : ReassignQuiesced(h)
Conclude == \/ \E h \in handoffs : ReassignCommit(h) \/ ReassignAborted(h)
            \/ \E m \in Member : RemoveRetire(m) \/ RemoveFinish(m)
            \/ DeleteRetire \/ DeleteCommit
Next == \/ Captains \/ Members \/ Quiesced \/ Conclude \/ Crash
        \/ \E m \in Member : Kick(m) \/ Settle(m) \/ TurnEnd(m)

Spec == Init /\ [][Next]_vars

\* Promises of the runtime: a promise chain advances, a started delivery or CLI
\* run settles, a turn ends and its status event is handled.  whenIdle is told
\* of the first idle state, however short, hence the strong fairness.
Fairness ==
  /\ SF_vars(Quiesced) /\ WF_vars(Conclude)
  /\ \A m \in Member : WF_vars(Kick(m)) /\ WF_vars(Settle(m)) /\ WF_vars(TurnEnd(m))

FairSpec == Spec /\ Fairness

--------------------------------------------------------------------------------
(* Properties.                                                               *)

\* Every variable ranges over the states its source declares.
TypeOK ==
  /\ active \in BOOLEAN /\ lifecycle \in {"draft", "running"}
  /\ memberStatus \in [Member -> {"absent", "active", "removed"}]
  /\ taskSeq \in 0 .. MaxTasks /\ task \in [Task -> TaskRecord]
  /\ nextId \in Id /\ retired \subseteq Member
  /\ live \in [Member -> {"idle", "running"}]
  /\ held \in [Member -> Id] /\ prompt \in [Member -> Id]
  /\ kicks \subseteq Member /\ ticket \in [Member -> Ticket \cup {NoTicket}]
  /\ handoffs \subseteq Handoff /\ removals \subseteq Member
  /\ deletion \in [phase : {"none", "retire", "wait"}, roster : SUBSET Member]
  /\ crashes \in 0 .. MaxCrashes

\* The scheduler, member claims and captain claims check "busy" in different
\* places and at different times; whatever their order, no member ever owns two
\* open tasks.
OneOpenTaskPerMember ==
  \A t, u \in Task :
    IsOpen(t) /\ IsOpen(u) /\ task[t].assignee = task[u].assignee
      /\ task[t].assignee \in Member => t = u

\* An open task carries a capability, is not being handed over, and belongs to
\* the captain or to a member that has not been removed: nobody's work is lost
\* to a removal or deletion that overtakes a dispatch, claim or rollback.
OpenTaskIsOwned ==
  \A t \in Task : IsOpen(t) =>
    /\ task[t].attemptId # 0 /\ ~task[t].reassigning
    /\ task[t].assignee \in ActiveMembers \cup {Captain}

\* While a member works on a task all its dependencies are completed, not just
\* at the moment of the dispatch or claim that checked them.
MemberWorkIsUnblocked ==
  \A t \in Task : IsOpen(t) /\ task[t].assignee \in Member => Satisfied(t)

\* The result of an open or completed task was written under the attempt the
\* task carries: no earlier worker's text survives a retry or a reassignment.
OutputFromCurrentAttempt ==
  \A t \in Task : task[t].status \in Open \cup {"completed"} =>
    task[t].output \in {0, task[t].attemptId}

\* A removed member is left with nothing but its completed tasks; any other
\* task of its would be assigned to someone who can never be dispatched.
RemovedMemberOwnsNothing ==
  \A t \in Task, m \in Member :
    memberStatus[m] = "removed" /\ task[t].assignee = m
      => task[t].status = "completed"

\* A completed controlled task has an output, and the receipts of its required
\* tools were recorded during the attempt that completed it.
CompletionHasReceipts ==
  \A t \in Task : Controlled /\ task[t].status = "completed" =>
    /\ task[t].output # 0
    /\ task[t].needsTools => task[t].receipts = task[t].attemptId

\* No output stems from an attempt that was revoked before it was written.
NoOutputFromRevokedAttempt ==
  \A t \in Task : task[t].output # 0 => task[t].output > task[t].handoffId

\* Nothing is under way: only an outside call could change the team.
Quiet ==
  /\ kicks = {} /\ handoffs = {} /\ removals = {} /\ deletion.phase = "none"
  /\ \A m \in Member : ticket[m] = NoTicket /\ live[m] = "idle"

\* When everything has come to rest no active member sits on an open task and
\* none has a ready task it could take: the scheduler missed no wake-up.
NoStrandedWork ==
  Quiet /\ active /\ Gate =>
    \A m \in ActiveMembers : ~Busy(m, {}) /\ ~\E t \in Task : NextReady(m, t)

\* The dependencies decide who works when: members work on unblocked tasks only,
\* and what is unblocked is not left lying beside an idle member.
DispatchFollowsGraph == MemberWorkIsUnblocked /\ NoStrandedWork

\* A completed task never changes again, by whomever and however late.
CompletedIsFinal ==
  [][\A t \in Task : task[t].status = "completed" => task'[t] = task[t]]_vars

\* The task list keeps the promises of TaskOwnership: an open task is owned by
\* its assignee under its attempt id, and a completed task is done.
Ownership == INSTANCE TaskOwnership WITH
  owner <- [t \in Task |-> IF IsOpen(t) THEN task[t].assignee ELSE None],
  generation <- [t \in Task |-> IF IsOpen(t) THEN task[t].attemptId ELSE 0],
  done <- {t \in Task : task[t].status = "completed"},
  issued <- nextId
KeepsOwnership == Ownership!Spec

\* A ready task for which an active member exists is eventually finished or
\* cancelled, or some task of the team has failed.
ReadyTaskSettles ==
  \A t \in Task :
    (Ready(t) /\ ActiveMembers # {}) ~>
      (task[t].status \in Terminal \/ \E u \in Task : task[u].status = "failed")

\* Every handover of a team that is not deleted meanwhile comes to an end.
HandoffEnds ==
  \A t \in Task : (active /\ task[t].reassigning) ~> (~active \/ ~task[t].reassigning)
================================================================================
