# A TLA+ model of ByClaw DSH

ByClaw DSH is a set of plugins for the DSH agent harness (a Cordis application in
TypeScript). This directory holds TLA+ modules of the parts of it whose
correctness depends on the order of things, the TLC configurations that check
them on small instances, and TLAPS proofs of what matters most for every instance.

    cd tla
    tlc -workers 2 -config handoff.cfg MCTeamTasks     # any of the runs below
    tlapm TeamTasksProofs.tla                          # or another *Proofs.tla

`PROJECT.json` maps every definition to the source lines it stands for, lists the
runs, the hazards each property is there for, the findings and the theorems.

## 1. Inventory

Paths are relative to `src/plugins`. *Hard* names the behaviour that makes a
component worth modelling; *correct* what has to hold.

**agent-teams: task list, scheduler, members** (`agent-teams/src/tools.ts`,
`scheduler.ts`, `state.ts`, `members.ts`, `types.ts`). *State*: one `team.json` per
team (members, tasks with status, assignee, attempt and capability ids, receipts),
the roster of retired members, and in memory the queue of each team's lock, one
promise chain per member for dispatches, and the calls that are waiting for a
worker to fall idle. *Operations*: the `agent_teams_*` tools of the captain (create,
add / remove member, create / submit / reassign / claim / update task, start,
status, delete) and of members (claim, update); `kickTeam` / `kickMember`; the
observers of member status, request errors and tool calls. *Hard*: every tool is
several locked sections with awaits between them; deliveries, turns and external
CLI runs end at any time; a restart drops everything that is not in `team.json`.
*Correct*: one open task per member, results only from the current attempt,
finished work is final, removed members leave nothing behind, no ready task is
stranded.

**agent-teams: mailbox and captain wake-up** (`state.ts`, `scheduler.ts`,
`tools.ts`). *State*: `mailbox/<member>.jsonl` with delivery claims that expire after
60 s, receipts waiting for the end of a tool call, a coalescer of wake-ups. *Hard*:
claim, delivery and acknowledgement are three steps, each may fail; an external
reply is appended without the lock under which the file is rewritten. *Correct*: a
message is marked read only if it was shown, it is handed over once, and not lost.

**agent-teams: catalog, events, snapshots** (`catalog.ts`, `lifecycle.ts`,
`events.ts`, `snapshot.ts`, `index.ts`). Template files under a catalog directory;
classification of a settled team; read-only projections.

**agent-teams: claude-code bridge, CLI, client**: an external process per dispatch;
the rest is presentation.

**byclaw-integration: generation lease** (`byclaw-integration/src/generation-lease.ts`).
*State*: per catalog directory the number of readers, a writer flag, a queue;
closing. *Operations*: `read`, `write`, `close`. *Hard*: hand-over at a release,
retirement of idle entries, close with work under way. *Correct*: writers exclude
everybody, nobody overtakes, close drains.

**byclaw-integration: template generations** (`integration.ts`, `index.ts`,
`template-runtime.ts`). *State*: three live directories (Skills, team templates,
agent templates), the chain of refreshes. *Operations*: refresh (load, stage,
publish by six renames, roll back), instantiate, list, save, dispose. *Hard*: the
directories are replaced one after another while consumers come and go, renames
fail, the process restarts. *Correct*: a consumer sees one whole, fresh generation;
user templates survive.

**byclaw-integration: session runtime and protocol** (`session-runtime.ts`,
`protocol.ts`, `session-workspace.ts`, `inbound-routing.ts`). *State*: per session a
queue of commands, a chain of forwarded events, a batch of answer text, a gate that
holds the command while its team is at work, a queue of team snapshots; questions
that wait for the user. *Operations*: `ask` / `performAsk`, the observers of harness
events, `cancel`, `ask_user_question` and Resume. *Hard*: chains of promises that must
keep their order, a gate that several sources open and fail, late answers.
*Correct*: one command at a time, the whole answer once and in order, no answer
before the team has settled, an answer finds the question it is for.

**byclaw-integration: resource watch** (`resource-watch.ts`,
`resource-authorization.ts`, `resources.ts`). *State*: what was authorized, pending
changes, timers, the queue of jobs, the resources hidden as deleted. *Hard*: signals
come late, twice and out of order while a synchronization reads. *Correct*: the last
event of a resource decides; what is granted in the end is synchronized.

**byclaw-integration: worker** (`worker-runtime.ts`, `worker.ts`), **Skill download,
models, projections**: supervision of a process, caches and pure conversions.

**dsh-better-sidebar: terminals** (`pty-manager.ts`, `terminal-host.ts`,
`client/TerminalView.tsx`). *State*: a table of shells with a quota per conversation,
sockets, shells waiting to be closed. *Hard*: a view says why it goes away on a
socket that may already have been replaced. *Correct*: no shell is forgotten, a
shell in use is not killed.

**dsh-better-sidebar: web client and routes** (`client/state.ts`, `Sidebar.tsx`,
`service.ts`, `client/GitView.tsx`, `index.ts`, `git-workspaces.ts`). *State*: two trees
of panes and free windows per conversation; a Git panel with polls, pages and writes
in flight. *Hard*: answers come in any order and for a checkout that is no longer
shown. *Correct*: no tab is lost, the panel shows one checkout. Side chat, editor
and the other routes are the rest of the plugin.

**dsh-trellis** (`dsh-trellis/lib/trellis-store.js`, `archive.js`, `index.js`). *State*:
task records, pointer files and an archive shared with the Trellis CLI. *Hard*: every
call is a sequence of reads and writes without a lock. *Correct*: a task is not lost
or resurrected, the board shows all of them.

**dsh-diff-viewer**, **dsh-codegraph**, the image and its scripts: presentation and
installation.

*Interactions.* The session runtime starts agents; their tools write the team state;
the scheduler reads it and delivers through the harness; harness events come back
to the scheduler's observers and, as team snapshots, to the session's gate. The team
tools and the template runtime read the catalogs the ByClaw refresh writes, and meet
in the generation lease. The watch starts refreshes. The sidebar, Trellis and diff
plugins only share the harness.

## 2. Plan

The order is that of importance. Written so far, each with its runs:

1. `TeamTasks` over the abstract `TaskOwnership`: everything else reports on or feeds
   this task list.
2. `GenerationLease`, `CatalogGeneration` composing it with publication, over the
   abstract `AtomicCatalog`.
3. `TeamMailbox`.
4. `SessionTurn` and `QuestionBroker`.
5. `ResourceWatch`.
6. `TrellisTasks`, `SidebarTerminals`, `SidebarLayout`, `GitPanel`.

Proved: the safety of all of them (section 5), every invariant and every action property
of a passing run among them. Liveness stays with TLC. Next come the components
section 7 names as candidates: side chat and editor.

## 3. Modules

| module | what it is |
| --- | --- |
| `TaskOwnership` | abstract: a task has one owner at a time under a fresh generation, a member one task, done is done |
| `TeamTasks`, `TeamTasksProofs` | the durable task list and everything that writes it; its theorems |
| `MCTeamTasks` | its instances (symmetry of members) |
| `GenerationLease` | reader / writer admission to the catalogs, close |
| `AtomicCatalog` | abstract: the catalogs are one atomic register |
| `CatalogGeneration`, `CatalogProofs` | refreshes, publication, consumers and saves under the lease, disposal, restart; theorems about both |
| `MCCatalog` | its instances |
| `TeamMailbox`, `TeamMailboxProofs` | mailbox files and the paths that deliver what is in them; its theorems |
| `MCTeamMailbox` | its instances |
| `SessionTurn`, `SessionTurnProofs` | the commands of one session, their events, answers and gate; its theorems |
| `QuestionBroker` | questions to the user and the Resume commands that answer them |
| `ResourceWatch` | authorization, resource events, synchronizations |
| `TrellisTasks` | tasks, pointers and archive of a Trellis project |
| `SidebarTerminals` | shells, tabs and sockets |
| `SidebarLayout`, `LayoutProofs` | panes, tabs and windows of one conversation; its theorems |
| `GitPanel`, `GitPanelProofs` | the source-control panel and the host that answers it; its theorems |
| `MCByClaw`, `ByClawProofs` | session, broker and watch side by side; theorems about the three |
| `MCWorkspace` | Trellis, terminals, layout and Git panel side by side |
| `WorkspaceProofs` | theorems about the terminals, the Trellis tasks and the four parts together |
| `MCServices` | the fair instances of catalog, session, watch and terminals |

The components of the last three do not share state in the code. A behaviour of such
a module is one of a single component, chosen in its initial state (`part`); the
variables of the others keep their initial values, so the states add up instead of
multiplying and the fairness of the others asks for nothing.

### TeamTasks

One action is one section under `withTeamLock`, or one step between two of them.

* `team.json` is `lifecycle`, `memberStatus`, `taskSeq`, `task`; `active` says the
  team directory is not archived; `retired` is `retired-members.json`.
* `live`, `held`, `prompt` belong to the member's agent in the harness: whether it
  runs a turn, the last attempt id it was shown, a queued follow-up.
* `kicks` holds the members with a `kickMember` call that has not decided; two
  pending kicks of a member decide alike, so they are one element. `ticket` is the
  dispatch in flight of a member (`serializeMember` admits one).
* `handoffs`, `removals`, `deletion` are the calls of `reassign_task`,
  `remove_member` and `delete` between their locked sections.
* An attempt or handoff id is the next value of a counter instead of a UUID. What a
  worker writes is identified by the attempt it holds, so that `output` tells whose
  result a task carries.

`KickExhausted`, `KickDispatch`, `DeliverAccepted`, `DeliverRejected`, `ClaudeMirror`
and `ClaudeFinished` are the branches of `kickMember`; `ReassignBegin`,
`ReassignQuiesced`, `ReassignCommit`, `ReassignAborted` the phases of one tool, the
same for removal and deletion; `TurnEnd` includes the kick its idle event causes.
`Crash` keeps `team.json`, `retired` and what agents were shown, and drops the rest.

`Tools` and `Faults` choose what happens in an instance: which tools are called,
whether the captain cannot be resolved, the harness refuses a follow-up, refuses it
so late that the worker may have finished the attempt (`late_rejection`), a wait
for a worker is cancelled (`quiescence_error`), a model request fails for good.

### GenerationLease and CatalogGeneration

`status` is how far `run()` has come for each operation; `entry` is the
`GenerationState` of a key, `present` the keys of the map, `closed` the promise of
`close()`. `Drain` is one call of `drain()`, made inside `Acquire` and `Release` as in
the code. `CatalogGeneration` extends the module and makes operations of refreshes,
saves, consumers and one operation of a foreign directory. A refresh goes through
`Request`, `Load`, `AskLease`, `Stage`, (`MoveAway`, `MoveIn`) three times, `CleanUp`,
`ReleasePublisher`, `Finish`; a rename that fails leads through `PutBack` and
`Unpublish`, `Restore` to the same release. A directory is the version it was
projected from and the user templates in it. `AskConsumer` waits for the consumer's
own refresh to settle, as `beforeInstantiate` does. A consumer reads its template and
its Skills while it is admitted; one in `Root` composes a session's root agent, whose
Skills are read by the setup `prepareRoot` returns, after the lease. A rename that fails
during the rollback is left out: the code then promises nothing but an error.

### TeamMailbox

`inbox` is one file per participant; a record in it is unread, claimed (a delivery
claim younger than a minute) or read. Every change rewrites the file as a whole:
under the team lock as the pair `Take` (read it) and `Commit` (rename over it), by the
reply of an external member, which takes no lock, as the pair `ReplyRead` and
`ReplyWrite`. `call` is how far each sender, kick, idle listener and status call has
come; its phases in `Locked` are the bodies of `withTeamLock`. `Post` and the
deliveries that follow are `send_message`; `KickReadsMail` and `CliAnswers` the mail half
of `kickMember`; `LeaveInMailbox`, `CaptainTurn`, `CaptainIdle`, `ListenerReads` the
captain's wake-ups and idle listener; `CaptainAsks`, `CaptainReads`, `MemberReads`,
`MemberRereads` the status tool. `shown`, `noticed` and `told` record what a recipient
has received: content, a number, how often. What a status call returns (`Report`) is in `call` from
its first reading on: the captain gets the last `InboxWindow` messages (ten in the code) and
their number, whatever else was unread; for a member the first reading is counted and
its latest message shown, and what only the second reading finds is recorded in `late`. The
last write of the call and its return are one step, and content that is cut to a preview
counts as shown. `Faults` has refused and failing deliveries, failing file operations,
restarts, a delivery that outlives its claim (`slow`).

### SessionTurn and QuestionBroker

`phase` is how far `performAsk` has come for each command, `asks` the queue of the
session, `active` the registered `ActiveTurn`. The agent, its team and its template child
belong to the harness: `AgentSpeaks`, `AgentCalls`, `CallSucceeds`, `AgentStops`, `TeamSettles`
and the like may happen at any time they can. What they emit is appended to
`forwards`, the promise chain of the turn; `Forward` handles its head, and `mark` says how
many of its events the command awaits. `gate`, `buffer` and `snapshots` are the
`ByClawAsyncTeamGate`, the `AnswerChunkBatcher` and the `ByClawSnapshotRefreshQueue`. `begun`,
`early`, `hurt`, `starter`, `seenDone` and `owed` are history: properties and nothing else read them.

In the broker `asked` is how far `ask()` has come for a question, `promise` what it
awaits, `pending` the list of the session. A Resume names its question or takes the
oldest one.

### ResourceWatch

`jobs` is the queue of checks and flushes, `doing` what its head waits for; the timers may fire
whenever they are set. `changes` are the merged events, `last` the newest time
processed, `marked` the resources hidden as deleted, `refreshes` the chain of synchronizations
asked for by the watch or a tool, with what the one at its head has read (`fetched`).

### TrellisTasks

Each read or write of a file is a step (`CreateStats`, `CreateWrites`, ...,
`ArchiveMoves`, `ArchiveEnds`); `op` keeps what the call has read before it. A board
reads both trees, in steps of its own, and changes neither. `spoiled` marks the slugs on which
calls other than boards overlapped, whose archiving was cut short or whose name was used again:
`ArchivedIsClosed` leaves them out. `raced` marks the tasks that moved to the archive while a board was being
built, or whose archiving was aborted before the cached bucket was dropped:
`BoardShowsAll` leaves them out. Section 6 has what happens to either.

### SidebarTerminals

The page: the conversation on screen, open tabs, mounted views, each with its socket.
`sockets` carries the frames by which a view says why it goes away; sockets
of one tab are independent connections, so the host may handle an older one last. The
host: `table` is `PtyManager.sessions`, `pendingCloses` and `parked` its promises to close
or keep, `running` the processes.

### SidebarLayout and GitPanel

The reducers of `state.ts` are operators on trees; an action is one edit by the user,
the service or an effect, and `Revisit` and `Reload` go through persistence and
migration. A binary tree of splits is written as it is read from left to right: its
leaves, and between two neighbours the split that has one on either side, with the number
of splits around it. That is the same tree (of a stretch of it, the split with the least
depth is the root, and what is on either side of it are its subtrees), so a leaf that
goes takes with it the deeper of the splits beside it and lifts what was under that one, and
the recursive walks of the code become quantifiers over indexes. In the Git panel every request in flight carries the generations it belongs
to; raising a counter (`Raise`) takes that token from the requests that had it, which
is what comparing numbers amounts to. A repository stands for its current checkout,
discovery is one step, a write that failed may have been carried out. `WireCode` is
what remains of an error code on its way from the host.

### Wrong versions

Operators introduced by a comment beginning with "Mutation:" are plausible bugs: the
definition that follows with one guard, reset or step changed. They are not part of
the specification. Each property has one that breaks it (`mutants` in
`PROJECT.json`), so no property holds by the shape of the model.

## 4. Runs

| run | instance | shows |
| --- | --- | --- |
| `handoff` | 2 members, 2 tasks with any dependencies, 3 ids; create, reassign, claim, update, remove | `DispatchFollowsGraph`, `OneOpenTaskPerMember`, refinement of `TaskOwnership` |
| `removal` | controlled workflow, refused deliveries, removal, deletion, one restart | `RemovedMemberOwnsNothing`, `CompletionHasReceipts`, `CompletedIsFinal` |
| `faults` | fair; 1 task, one of two members claude-code, all faults, most tools | `HandoffEnds`, `OutputFromCurrentAttempt` (late CLI results and refused deliveries) |
| `live` | fair; a member may be added, 4 ids | `ReadyTaskSettles` |
| `generation` | 2 refreshes, 1 save, 2 consumers, 1 foreign reader, 2 versions, every failure, disposal | `OneGenerationPerConsumer`, `InstantiationIsFresh`, `SavedTemplatesKept`, `NoOvertaking`, refinement of `AtomicCatalog` |
| `mailbox` | 2 members, one external, 3 routes, 2 viewers, 1 listener, 2 messages, 1 restart or failing file, every fault but `slow` | `ReadWasSeen`, `DeliveredOnce`, `NoMailLost` |
| `mailbox_live` | fair; the same without restarts, status calls of the captain only | `MailArrives` |
| `byclaw` | session: 2 commands, 3 events, 2 pieces of text, 2 teams, failing calls; broker: 3 questions of 2 sessions; watch: 1 resource, 3 times | `RuntimeConsistent`, `AnswerComplete`, `StreamComplete`, `HeldByTeam`, `DeletedIsHidden`, `NewestWins` |
| `workspace` | Trellis: 2 callers, 2 slugs (symmetric), 4 calls; terminals: 2 tabs in 2 conversations, limit 1, 2 sockets, 2 shells; layout: a file, a diff, an agent terminal, 4 edits; Git: 2 repositories, 2 queries, 2 requests in flight, 3 inputs | `WorkspaceConsistent`, `NoForgottenShell`, `ViewIsOneCheckout`, `NothingWaitsAlone`, `StatusNeverOlder`, `OpenedFileIsShown`, `TaskSurvives`, `BoardShowsAll`, `AttachedShellKept`, `NoTabIsLost`, `ReloadRestores`, `TabsFollowTerminals` |
| `services` | fair; catalog with 2 refreshes, a root consumer, a restart; session with five faults; watch; one terminal with 3 sockets | `EveryoneIsAnswered`, `AskSettles`, `AuthorizationConverges`, `ClosedTabReleases` |
| `v_stale_update` | reassign to the same member | finding 1 |
| `v_target` | the selected checkout goes away | finding 2 |

Some properties are conjunctions of what belongs together. `DispatchFollowsGraph` says
that members work on unblocked tasks only and, at rest, that none of them is idle beside
a task it could start. `RuntimeConsistent` has the types of session, broker and watch, one
command at a time (`OneAtATime`), a waiting question is pending and a Resume finds it
(`WaiterIsPending`, `ResumeFindsOpen`), nothing is left after close (`QuietAfterClose`).
`WorkspaceConsistent` has the types of the four parts, `ArchivedIsClosed`,
`NoneAfterTeardown`, `LimitHolds`, and of the layout `NodesDistinct`, `NamedTabsOnce`
and `NarrowShowsAll`. `EveryoneIsAnswered` says that every operation under the lease
settles and that a disposal resolves.

**Bounds.** Two members and two tasks are what the task list's conflicts take: two
claimants of one task, two tasks for one member, a dependency. Three or four ids allow
an attempt, its revocation and the next attempt, one of them refused or retried;
the id bound is tested only where an id is asked for, so a run that has used them up
still ends what it has begun. In the catalogs, two refreshes make one overtake or
follow the other and one roll back what the other published; one save and two
consumers suffice for each pair of roles at one lease, and the foreign reader keeps
an entry of the map alive while another retires. `MaxVersion` 2 tells an old
generation from a new one. Two messages to one mailbox let the delivery of one rewrite the
file while the other is written, and the window of 1 hides one of them from the
captain's status. Two slugs let a board meet the archiving of one task while it reads another,
and four calls are a task made, archived and two boards. Two commands let
one wait in the queue behind the other's gate;
three events are a call, its result and a report or a message, the turn's end apart; two
teams let the snapshot of one be read as that of the next. Two sockets of a tab are an
old connection and its replacement; the third of `services` is a retry after a refusal. Two
requests in flight and two queries let every answer of the Git panel arrive after the
query it was for. Constants whose names begin with `Max` are the bounds.

**Deadlock** is not checked: a team, a session, a page rests when nobody calls
anything, and the bounded calls of an instance run out. `DispatchFollowsGraph` and
`NothingWaitsAlone` say what rest may look like instead (no member idle beside work it could
start; no flag of the panel up without a request that will take it down, an overtaken page
excepted), and the temporal properties that nobody waits for ever.

**Fairness.** Callers are under no obligation: tools, members' claims and updates,
consumers, saves, users, restarts and failures have no fairness. It is assumed of what the
runtime has begun; where a component has turns of a model, downloads or external
processes, these have timeouts in the code.

* Task list: a queued kick decides, a delivery or CLI run settles, a turn ends and its
  event is handled, a tool past its wait concludes (weak); `ReassignQuiesced` and its
  like are strong, because the harness resolves `whenIdle` at the first idle
  moment, however short.
* Catalogs: a refresh takes its next step, an operation under the lease settles, a
  disposal goes on to close the lease (weak).
* Mailbox: locked sections are entered and left, the sender delivers, kicks and claims
  run, members and the captain fall idle, the listener answers, claims expire, and the
  captain polls its status (weak). The fallback delivery and the answer of an external member
  are strong: refused again and again, they succeed in the end.
* Session: the steps of the runtime, the returns of tools, the ends of turns, the gate's
  timer (weak). Nothing obliges a team to settle or a child to report.
* Watch: timers and jobs (weak); a synchronization that is tried again and again
  succeeds in the end (strong), for the code only retries.
* Terminals: frames, calls, Git answers and timers of the host (weak). Nothing
  obliges the user.

## 5. Proofs

The theorems hold for every value of the constants that satisfies the assumptions of
the modules: any number of members, tasks, messages, commands, events, resources,
tabs and restarts. TLC checked each invariant below on the runs of its module before it was
proved. What a theorem restricts is in its ASSUME, and section 6 has the
behaviour that makes the restriction necessary.

**`TeamTasksProofs`**

1. `TypeCorrect`: `TypeOK` is inductive.
2. `StepHasShape`: every step grants one task to somebody under a fresh capability,
   or keeps, frees, creates, works on or overruns each task. The shapes say only what
   the rest of the argument needs of the actions.
3. `Sound` (types, tasks beyond `taskSeq` are absent and absent ones blank, an open task
   has a capability, one open task per member, outputs from the current attempt) is
   inductive over the shapes, whatever fails. It gives `OneOpenTask` and `OutputIsCurrent`.
4. `Ledger` adds: unfinished tasks belong to active members (`Homed`), open and
   completed tasks are not marked as being handed over, attempt ids have been issued,
   and a dispatch in flight came from its own member or from nobody and, as long as its
   capability is still the task's, the task is its member's (`TicketsOwned`). The last is
   why a rollback cannot give a task to a removed member, and why
   `RemovedMemberOwnsNothing` alone is not inductive. `Ledger` needs `Plain`: no
   claude-code members, and a refused delivery is refused before its attempt ended.
   It gives `OpenTasksAreOwned`, `RemovedOwnNothing`, `CompletionIsFinal`.
5. `KeepsTaskOwnership`: under `Plain` each shape is a `Grant`, a `Release` or a stutter
   of `TaskOwnership`.
6. `CompletionIsReceipted`: `Receipted` adds to `Sound` that the receipts of an open task were
   collected under the attempt it carries, so they are the right ones when it is
   completed. It holds under every fault but needs a team without claude-code members,
   whose results are written without receipts.
7. `WorkIsUnblocked`: `Steady` adds that the dependencies of a task are
   older than it and stay as they are, and that those of a task in work are completed,
   which `CompletionIsFinal` keeps so.
8. `NothingStranded`: no wake-up is missed. `DispatchFollowsGraph` says what holds at
   rest, so its invariant has to say who will act before: a member that no kick,
   dispatch, turn, tool or hand-over attends to (`Attended`) has no work. That is why every
   step that makes work for a member must kick it, and the proof goes through every
   action that completes, frees or creates a task. It assumes `Calm`, no restart, refusal,
   claude-code member, captain's claim or kick spent on mail, and that attempts do not run
   out (`[]NotExhausted`): each of these leaves a member idle beside ready work in the code
   until somebody asks for the status.

**`CatalogProofs`** begins with `LeaseSpec`, the lease under arbitrary users.
`Exclusion` and `CloseDrains` are not inductive; `LeaseInv` is: the entry of a key lists
exactly the operations admitted to it or waiting for it, each once, a writer only
without readers; a key is in the map exactly if its entry is not idle; after close
has resolved the map is empty. `DrainKeepsOrder` is the lemma about `drain()` both
`Acquire` and `Release` rest on, and it also gives `LeaseFair`: drain admits a prefix
of the queue, so nobody is admitted past an operation that came before.

Then the system that uses it:

1. Every step of the system is a step of the lease or a restart (`NextDrivesLease`), so
   `LeaseInv` is an invariant of `Spec`: `CatalogExclusion`, `CatalogCloseDrains`, `CatalogFair`.
2. `CatalogTypes`: `TypeOK` with the fact that a publication at a rename has a directory.
3. `CatalogAtomicInvariant`, for the steps without a restart (`SteadySpec`). `AtomicInv` is
   inductive: a publication under way is that of the refresh at the head of the chain,
   which holds the lease; a refresh waiting for the lease or holding it has loaded and is
   undecided (without which the head of the chain could settle under a publication);
   for each step of a publication and of a rollback, which directory and which backup is
   of which version and holds which saved templates; what a consumer has
   read is what is live, and at least as new as what its own refresh asked for. From it
   follow `CatalogOneGeneration` (with `Root = {}`), `CatalogFresh`, `CatalogKeepsTemplates`.
4. `CatalogIsAtomic`, with `Root = {}`: the six renames of a publication implement one
   write of `AtomicCatalog`, the saves its save, a consumer its read. The mapping hides a
   publication until its last rename and a rollback altogether.

**`TeamMailboxProofs`**

1. `TypeCorrect` and, over the files, the version a lock holder has read and the one a
   reply has read, `ReadMeansSeen`: whatever is marked read in any of these copies was shown or
   counted, or a status call overlooked it in one of the two ways `Overlooked` names. `ViewInv`
   says what a status call that is about to acknowledge owes (`LatestAreAfter`: a message
   outside the captain's window has `InboxWindow` newer ones inside it). It holds under every fault.
2. `NothingLost`: a message goes only in a step that writes an external member's reply
   over a newer version of the file or an older version over such a reply. `LossInv` compares
   the version a lock holder has read with the file (nobody else who takes the lock can rewrite
   it meanwhile) and the one a reply has read with both.
3. `HandedOverOnce`: `MailInv` says who has a message in hand (`Roles`), where
   it may be for each phase of its handler (`Places`, `FileIs`), that at most one has it (`Once`),
   and that deliveries beyond the first were paid for by a restart or a failing file
   (`Spent`). `DeliveredOnce` alone says nothing of the claim that keeps the
   second deliverer away. It assumes that no delivery outlives its claim
   (`"slow" \notin Faults`): the code tells such a message twice, by design.

**`SessionTurnProofs`**

1. `SessionInLine`: the types, and that one command at a time is past the queue: the first of
   `asks`, which is also the `active` one.
2. `SessionAnswers` and `SessionStreams` rest on `TextInv`: the pieces not yet
   in the answer wait in the chain, in order, and follow what is in it (`Unheard`); when a command
   awaits the chain, the pieces it owes lie before its mark, and there are none when it
   settles; what was emitted together with the batch is the answer, unless an
   emission failed (`Streamed`).
3. `SessionHolds`: a command that made one asynchronous call is not answered while
   its team is at work. What shuts the gate, what opens it and what awaits it are three
   promise chains, so `HeldByTeam` follows only from how they are ordered. `HeldInv`: the call
   that shuts the gate waits in the chain or the gate has seen it
   (`Behind`); with one call the gate fails at most once, and is free before (`Shutting`); since
   `performAsk` awaits the chain, once it is past it the gate can only become milder
   (`Holding`); a team at work is one the gate waits for, or one whose result still waits
   in the chain, and no snapshot has seen it settled (`Knowing`).

**`ByClawProofs`**

1. The watch: `WatchInv` gives the types, `WatchQuiet`, `WatchHidesDeleted` (a
   synchronization that read before a deletion was applied filters by the marks of the time
   at which it ends) and `WatchNewestWins`.
2. The broker: `BrokerInv` says that a question stands, once, in the queue of its own session
   exactly while its call is there to take it away again and its promise is open. `Removed` is
   the lemma about `RemoveFirst` that withdrawing and answering rest on. `WaitersArePending` says
   no waiting question is beyond the reach of a Resume, `ResumesFindOpen` no Resume finds a
   question that is already answered.
3. `RuntimeAgrees`: `RuntimeConsistent` in `MCByClaw`. A behaviour of that module is one
   of a single part while the others stand still (`PartsAlone`), so what is proved of a part
   alone carries over, `SessionInLine` included.

**`WorkspaceProofs`**

1. The terminals: `TermInv` has the page, the sockets and the host each in one part. The host's
   part is preserved by each operation of the manager (`CloseShell`, `Spawned`, `WithRoom`)
   as a lemma about host records, which the actions compose. It gives `TerminalTypes`,
   `ShellsAreKept`, `LimitIsKept` (by counting the shells of a conversation),
   `NothingAfterTeardown`.
2. `AttachedKept`: no timer takes a shell from under a view. `KeptInv` adds that the socket of a
   view is the newest of its tab and has said nothing yet, and that the host is through with
   the older ones unless two of them crossed (those tabs the property excepts). So
   nobody is left who could set a timer, and attaching clears the one that was set.
3. The Trellis tasks: where no calls but boards overlap, one call at a time is at a task, so
   `TrellisInv` is about one call (`Alone`): a call about to write or bind has found a record; an
   archived task has no active record, and whoever is bound to it is still to be unbound by
   the archiving (`Closed`). It gives `TrellisTypes` and `ArchivesClose`.
   `BoardsShowAll` is about any calls that overlap, creations, updates and archivings beside
   the board among them; only tasks in `raced` are left out. `BoardInv` says for each other task
   that it does not move while a board is being built (`Apart`), that the cached bucket has
   it exactly if it is archived unless it is just moving (`CacheTells`), and what each board has
   read so far is right of it (`BoardTells`). `TasksSurvive` excepts nothing and needs the
   types only.
4. `WorkspaceAgrees`: `WorkspaceConsistent` in `MCWorkspace`. As with `RuntimeAgrees`, a
   behaviour is one of a single part (`PartsOfWorkspace`), so what is proved of the
   terminals, the tasks, the panel and the layout alone carries over.

**`LayoutProofs`**

1. What the operators do, for every tree. A tree is seen as its leaves by pane id (`LeafAt`)
   and the ids of its nodes. The operators that pick entries of a sequence (`Only`) or add tabs
   one by one are functions defined by recursion over `0..n`. Induction over an interval is
   proved from the well-foundedness of `<` by taking the least index that fails
   (`Least`, `Inductive`), and that a function given by a step exists likewise (`Recursion`),
   so no induction theorem with an operator as parameter is needed. On these rest what
   filtering, flattening and inserting return (`OnlyLists`, `FlattenIs`, `InsertAtIs`, ...).
2. `Yields(t, r, lo, hi, c)` is what an operation may make of a tree `t`: a tree again, whose new
   nodes are numbered above `lo` and up to `hi`, which gained no tabs but those of `c`, and where
   an id that was in one place still is. Each operation (put, take out, split, remove, float, dock, merge, reconcile,
   migrate, reload) is proved to yield its result once, and the actions compose them.
3. `LayoutKept`: `LayoutInv` is inductive: the trees are well formed and their nodes disjoint
   and numbered no higher than the counter (`LayoutShape`); the git tab, an editor of a file and a
   tab of an agent's terminal are in one pane or one window at a time (`NamedPlaced`); a
   narrow viewport has left nothing in the panel it hides (`Narrowed`). `NodesDistinct` needs
   the counter, and `NarrowShowsAll` that the active pane never points into the hidden tree
   either. It gives `LayoutTypes`, `NodesStayDistinct`, `NamedTabsStayOnce`, `NarrowKeepsAll`.
4. The steps: `TabsFollow` (what a push of the host's list adds and removes, that a tab removed
   was the only one of its id being `NamedPlaced`), `ReloadKeepsTabs` (the order of the tabs in a
   flattened tree under filtering), `OpenShowsFile` (by the places a file can be open in:
   nowhere, in a tree in sight, in a hidden one, in a window) and `TabsAreKept`, which
   goes through every action: what leaves one tree arrives in the other or in a window, the
   only ones excepted being those the property names.

**`GitPanelProofs`**

1. `GitTypes`, `OneCheckout` and `NobodyWaits` rest on `GitInv`. The code compares the number a
   request was given with a counter; in the model a request owns the generations nobody has
   raised since. `SoundPanel` says what that ownership buys: a request that owns
   a generation was made for the session, the target and the filters on screen (`Aimed`); at
   most one request owns the history and one the reload (`OneHistory`, `OneReload`); a reload
   that is current has blanked the panel or belongs to the one write, so polls are
   suspended and no second write begins (`Loads`, `OneWrite`); a page that is current continues what
   is on screen, and none is current while a new history is on its way or in the course of a write
   (`Pages`). `Held` says who will take down each flag, and `PageHeld` the same of "load more", which a
   page of the present generation takes down. `NobodyWaits` is a theorem about steps: the
   flags of loads, filters and writes are awaited before and after each, and only a change
   of filters or a write leaves the flag of a page waiting for nothing (`PageStep`). Neither half
   is inductive without the other: a flag is taken down by the
   request that owns its generation, and it is the flag that keeps a second one from being made.
   Each action is proved once, from lemmas on what `Raise`, `Ask`, `Cleared` and `RefreshTarget`
   do to each field of the panel.
2. `StatusFresh`: two answers of the host can cross, and what a poll read last may arrive
   first. `Newest` adds that one request at most will put a status on screen and that what
   it has been told, if anything, is no older than what is there.

The one assumption beyond the model's is `NothingAssumption`: the value that stands for "no
request" is not a request.

**Only model-checked.**

* All liveness: `HandoffEnds`, `ReadyTaskSettles`, `MailArrives`, `EveryoneIsAnswered`,
  `AskSettles`, `AuthorizationConverges`, `ClosedTabReleases`. Fairness and ENABLED are out of
  the prover's reach.
* The two runs that end in a counterexample.

Every other property of a run is the statement of a theorem, some under restrictions the
theorem names in its ASSUME.

## 6. What the runs say about the code

Two runs end in a counterexample, each against a sentence of the repository.

1. `v_stale_update`: while a task is being reassigned it has no attempt id, and
   `update_task` compares ids only if it has one. A worker whose attempt was revoked
   in favour of itself, still running, writes its late output into the task.
2. `v_target`: the host answers `bad-request` where the panel waits for `git-target`
   (`index.ts:390`), so the recovery described in `GitView.tsx:116-117`, and tested in
   `tests/git-view-worktree.spec.tsx:415` with an error the host does not send, never runs.

Further differences seen while modelling have no run of their own. Where a formula is
named, it is violated if it is added to the configuration named with it; the others were
seen by reading.

*Task list.*

* A kick that fails an exhausted task returns without looking for another; nothing
  kicks the team, and an idle member stays beside ready work until somebody asks
  for the status (`NoStrandedWork`, `handoff` with `MaxTaskAttempts = 1`).
* The result of an external CLI run is written whatever the status of the task is, so
  a completed task can turn failed or change its output (`CompletedIsFinal`, with a
  claude-code member).
* `\A t \in Task : IsOpen(t) => Satisfied(t)`, `handoff` with `claim_for`: the captain takes
  over a task before its dependencies are completed (`tools.ts:1121`, against the
  README's description of dependencies). Members never do (`WorkIsUnblocked`).
* `lifecycle = "draft" => \A t \in Task : ~IsOpen(t)`, `removal` with
  `claim_task` and `claim_for`: the draft gate is not consulted by claims.
* `\A t \in Task : task[t].attempt <= MaxTaskAttempts`, `removal`: a
  refused delivery returns the task to the pool without giving the attempt back.
* A restart in the middle of a reassignment leaves the task marked, and no call will
  ever clear it.
* `CompletedIsFinal` in `handoff` with `send_message`, `followup_rejected` and
  `late_rejection`: a member woken by a peer claims and completes the task whose
  delivery is then refused, and the rollback, which compares only the capability,
  reopens the completed task.
* `[][\A t \in Task : task[t].status \in Terminal => task'[t].status \in Terminal]_vars`,
  `removal`: a failed or cancelled task is revived when its assignee is removed.

*Catalogs.*

* `SavedTemplatesKept` in `generation` with `SPECIFICATION Spec`, `MaxCrashes = 1` and
  `Faults = {}`: a restart between moving the live team templates away and moving
  the staged ones in leaves no live directory; the next refresh takes it as empty and
  publishes without the templates users had saved, which remain in a backup nobody
  looks for (`integration.ts:102`).
* `OneGenerationPerConsumer` with the same changes: a team creation that comes before
  the cold start's refresh reads the templates of one generation and the Skills of the next.
* `OneGenerationPerConsumer` in `generation` with `Root = {c1}`: `prepareRoot` reads the
  template of a session's root agent under the lease, but its Skills are read by the setup
  it returns, after other awaits (`template-runtime.ts:272`).
* A rename that fails during the rollback (`integration.ts:124`) is not modelled.

*Mailbox.*

* The idle listener acknowledges messages after a notice that only counts them
  (`tools.ts:308-335`), where `types.ts` documents `readAt` as read; `noticed` keeps them apart.
* `agent_teams_status` acknowledges messages of which its result has no trace, against the
  `readAt` of `types.ts:134` once more. The captain gets the last ten messages and the number of
  those (`tools.ts:1583`, `1790`), while all unread ones are acknowledged (`1592-1598`). A
  member's messages are counted at one reading (`1563`) and acknowledged by a second (`1594`),
  what arrived in between with them. `ReadWasSeen` and `MailArrives` except these two cases
  (`Overlooked`) and no other: `i \in shown \cup noticed` in their place is violated in `mailbox`.
* A message is lost when the reply of an external member (`scheduler.ts:250`, no lock)
  overlaps a locked rewrite of the same file. `NoMailLost` says that this is the only way: a message
  goes in a step that writes one over the other.
* A report whose claim fails is released after the idle listener has read the mailbox, and
  wakes nobody until the captain asks for the status.

*Session.*

* `HeldUntilDeleted`, `byclaw`: a command is answered while its team is still at work once a
  later call or turn has failed, against the comment at `session-runtime.ts:561`.
* A failed `byclaw_instantiate_template` never opens the gate again
  (`session-runtime.ts:675-682`); only the timeout of ten minutes does.
* A second start in a wake turn is not awaited, and clears the failure of the first. A
  start in the wake turn of one command whose result belongs to the next is not held.
* A snapshot read before a team was deleted can complete the gate of the next team.
  `HeldByTeam` excepts it by `seenDone`.
* A cancellation before `messageAgents` knows the agent is lost. An error in the forwarding
  chain, which has no catch, drops the later events; late chunks after settlement are
  never flushed, and a flush error in the cleanup is only logged.
* Broker: a late plain answer resolves the oldest other question; an abort during the emit
  rejects a promise nobody awaits yet; `cancelSession` is keyed by `externalSessionOf`,
  `ask` by `context.sessionId`; an emit that fails after the answer throws it away.

*Resource watch.*

* A failed synchronization of a resource event loses the event; a deletion and
  re-creation in one batch hides the re-created resource; a resource granted again
  stays hidden when `byclaw_list_resources` synchronized between the grant and the poll.

*Trellis.* On one slug, without an overlap:

* `archive.js:207`: an abort after `renameSync` leaves the archived task bound, against
  the comment at 209-210, and a cached bucket stale.
* A slug created again after archiving is hidden by the board, and cannot be archived. A
  December task archived in January is looked for in the wrong bucket.

  With calls that overlap: bind or update binds an archived task again; a board under way
  while a task moves misses it in both trees or caches a stale bucket for the next one (`BoardShowsAll` without
  `raced`, `workspace`); an update that overlaps archiving brings the active directory
  back; an update that keeps the status reverts a completed one; an unbind loses an update.

*Terminals.*

* `EveryClosedTabReleases`, `services` with `Free = {t1}`: closing a free window makes no
  `pty.close` (`Sidebar.tsx:1645`, against the comment at 1166-1168).
* `ShellsSurviveReconnects`, `workspace`: a late drop or park frame of an old socket acts on
  the shell of its replacement (`pty-manager.ts:3-8`).
* `terminal_close` is called idempotent in `tools.ts`, but `assertOwned` throws.

*Layout and Git panel.*

* `FloatIdsNeverCollide` and `IdsDistinct`, `workspace`: the counter is below the ids of
  restored windows (`state.ts:171` against the comment at 189-190).
* `OwnDropReorders`, `workspace`: the only tab of a pane dropped on its own pane is lost
  (`state.ts:500`).
* `openDiffTab` only searches `splits` (against the comment at `state.ts:735`);
  `reconcileAgentTerminals` never removes vanished tabs from the bottom tree; `openFileSide`
  always uses the right tree; an agent push between `setSession` and the effect's cleanup
  reconciles the wrong conversation.
* `logLoadingMore` stays set, and "load more" disabled, when a filter change or a write starts while a page
  loads (`[]PageAwaited`, `workspace`), until a discovery or a selection clears it; `NothingWaitsAlone`
  names it as its one exception. A failed page of an older query sets the error of the newer one.

*Seen in parts that are not modelled.* Editor: text typed while a save is in flight is
marked clean by its completion, and a refresh or a preview switch then drops it unasked
(`TextEditor.tsx`, `EditorHost.tsx`). Side chat: polls fetch the last 8 messages only, so a tab
hidden for long has a gap; closing the view while `sidechat.start` is in flight leaves a
live agent without a tab, and a remount starts a second one; a second prompt before
the first turn opens delivers the boundary twice; text typed while sending is cleared.

## 7. Not modelled

* *Worker* (`worker-runtime.ts`, `worker.ts`): supervision of a process and its stream, with no state
  shared with the rest; *settlement events and snapshots*, *projections*: read-only
  classifications of states the models have; *Skill download and models*: caches of files and
  pure conversions.
* *Side chat, agent file opens, editor, the other sidebar routes*: they keep state of their own
  and are the next components to model if the project grows; of the layout, sizes, geometry,
  persistence by debounce and the automatic terminal are left out.
* *Diff viewer, code graph, web clients, scripts, image*: presentation and installation.
* Within the modelled parts: validation, formatting and logging, which no property is about, and a
  failing rollback of a publication. Messages appear in `TeamTasks` only as turns
  started by somebody else and kicks spent on delivery; `TeamMailbox` has the rest.

`PROJECT.json` lists every component with its status.
