------------------------------ MODULE SessionTurn ------------------------------
(*****************************************************************************)
(* The asks of one ByClaw session: ByClawDshSessionRuntime.ask / performAsk, *)
(* the chain of forwarded events, the batches of answer text, the gate that  *)
(* holds a command while an AgentTeams team or a template child is at work,  *)
(* and the queue of team snapshots that may open it.                         *)
(*                                                                           *)
(* Abstractions.  The agent that answers the session, the team and the       *)
(* template child belong to the Harness: they do what they may do at any     *)
(* time.  The answer is a sequence of numbered pieces; a batch is full       *)
(* whenever the environment says so.  Of the projections of an event only    *)
(* the answer text is kept; the others are what may fail in Forward.  What   *)
(* the chain still holds when its command settles acts on a turn that nobody *)
(* reads any more, and is dropped.                                           *)
(*                                                                           *)
(* Operators introduced by "Mutation:" are wrong versions of the definition  *)
(* that follows.                                                             *)
(*****************************************************************************)
EXTENDS Naturals, Sequences

CONSTANTS
  Command,       \* messages of one (userCode, root session) key
  NoCommand,
  SessionCalls,  \* bound: asynchronous tools the agent calls
  SessionFaults, \* bound: kinds of failure; a behaviour has one kind, at any number of steps
  MaxEvents,     \* bound: events, those that end a call or a turn aside
  MaxPieces,     \* bound: pieces of answer text
  MaxTeams       \* bound: teams started

ASSUME SessionAssumption ==
  /\ NoCommand \notin Command
  /\ MaxEvents \in Nat /\ MaxPieces \in Nat /\ MaxTeams \in Nat
  /\ SessionCalls \subseteq {"start", "delete", "template"}
  /\ SessionFaults \subseteq {"open_error", "tool_error", "turn_error", "emit_error", "cancel", "slow"}

TurnEnds == {"completed", "error", "aborted"}
CallNames == {"start", "delete", "template"}
Event == [kind : {"chunk"}, piece : 1 .. MaxPieces] \cup
         [kind : {"call", "result", "failure"}, name : CallNames] \cup
         [kind : {"report", "message"}] \cup
         [kind : {"turn/end"}, reason : TurnEnds]

\* How far performAsk has come.
AskPhase == {"new", "queued", "delivering", "running", "draining", "gated", "waking",
             "settling", "cleaning", "answered", "failed"}
AskSettled == {"answered", "failed"}

VARIABLES
  phase,    \* of each command
  asks,     \* the queue of the session: commands asked and not settled, in order
  active,   \* the command whose ActiveTurn is registered
  agent,    \* the response agent: runs a turn, messages queued for it, its open
            \* call, whether it is cancelled, how its last turn ended, pieces
            \* spoken since the turn was registered, events logged
  team,     \* the captain's team: "none", "running" or "settled" (all tasks terminal)
  teams,    \* teams started so far
  child,    \* a template child is at work
  forwards,    \* turn.forwarding: the events not yet handled, or broken
  broken,   \* forwarding has failed: no later event is handled
  mark,     \* how many of the events performAsk awaits
  gate,     \* the ByClawAsyncTeamGate of the active turn
  buffer,   \* AnswerChunkBatcher
  answerText, sent,  \* turn.answer, and what has been emitted of it, for each command
  dropped,  \* some emission for this command has failed
  snapshots,     \* ByClawSnapshotRefreshQueue: pending, what runs, what it read
  failing,  \* what the cleanup of the active turn will settle its command with
  begun,    \* asynchronous calls made during the active turn, at most 2
  early,    \* the last of them was made before the agent was first found idle
  hurt,     \* the gate of the active turn has recorded a failure
  starter,  \* the command during which the start of the team was called
  seenDone, \* a snapshot has read this team as settled, or, if it was still at work
            \* when this team was started, an earlier one
  owed,     \* pieces spoken when the response agent was last found idle
  fault     \* the kind of failure of this behaviour

askVars == <<phase, asks, active, mark, failing, owed>>
agentVars == <<agent, team, teams, child, starter>>
streamVars == <<forwards, broken, buffer, answerText, sent, dropped>>
callVars == <<begun, early>>
gateVars == <<gate, hurt>>
snapVars == <<snapshots, seenDone>>
stepVars == <<askVars, agentVars, streamVars, callVars, gateVars, snapVars>>
sessionVars == <<stepVars, fault>>

NoGate == [waiting |-> FALSE, kind |-> "none", teamActive |-> FALSE, start |-> FALSE,
           delete |-> FALSE, reported |-> FALSE, failed |-> FALSE]
NoSnapshots == [pending |-> FALSE, running |-> FALSE, quiet |-> FALSE]

SessionInit ==
  /\ phase = [c \in Command |-> "new"] /\ asks = <<>> /\ active = NoCommand
  /\ agent = [running |-> FALSE, queued |-> 0, call |-> "none", cancelled |-> FALSE,
              last |-> "completed", pieces |-> 0, logged |-> 0]
  /\ team = "none" /\ teams = 0 /\ child = FALSE /\ starter = NoCommand
  /\ forwards = <<>> /\ broken = FALSE /\ mark = 0
  /\ gate = NoGate /\ begun = 0 /\ early = FALSE /\ hurt = FALSE
  /\ buffer = <<>> /\ answerText = [c \in Command |-> <<>>] /\ sent = [c \in Command |-> <<>>]
  /\ dropped = [c \in Command |-> FALSE]
  /\ snapshots = NoSnapshots /\ failing = FALSE /\ seenDone = FALSE
  /\ owed = [c \in Command |-> 0]
  /\ fault \in SessionFaults \cup {"none"}

-----------------------------------------------------------------------------
(* ByClawAsyncTeamGate *)

\* A gate that waits stays what it is.
Begin(g, kind) == IF g.waiting THEN g
                  ELSE [g EXCEPT !.waiting = TRUE, !.kind = kind, !.failed = FALSE]

FinishGate(g, error) ==
  IF g.waiting THEN [g EXCEPT !.waiting = FALSE, !.kind = "none", !.failed = @ \/ error] ELSE g

ObserveCall(g, name) ==
  CASE name = "start" -> [Begin(g, "team") EXCEPT !.start = TRUE]
    [] name = "delete" -> [g EXCEPT !.delete = TRUE]
    [] name = "template" -> [Begin(g, "template") EXCEPT !.reported = FALSE]

\* The result of a template call matches neither a start nor a delete, and is
\* returned from before the branch that would record it.
ObserveResult(g, name, error) ==
  CASE name = "start" /\ g.start ->
         IF error THEN FinishGate([g EXCEPT !.start = FALSE], TRUE)
                  ELSE [g EXCEPT !.start = FALSE, !.teamActive = TRUE]
    [] name = "delete" /\ g.delete ->
         IF error THEN FinishGate([g EXCEPT !.delete = FALSE], TRUE)
                  ELSE [g EXCEPT !.delete = FALSE, !.teamActive = FALSE]
    [] OTHER -> g

\* Mutation: a turn that ends while the team is at work opens the gate.
ObserveEndEager(g, reason) ==
  IF ~g.waiting THEN g
  ELSE IF reason = "error" THEN FinishGate(g, TRUE)
  ELSE IF g.kind = "team" \/ (g.reported /\ reason = "completed") THEN FinishGate(g, FALSE)
  ELSE g

ObserveEnd(g, reason) ==
  IF ~g.waiting THEN g
  ELSE IF reason = "error" THEN FinishGate(g, TRUE)
  ELSE IF \/ g.kind = "team" /\ ~g.start /\ ~g.teamActive
          \/ g.kind = "template" /\ g.reported /\ reason = "completed" THEN FinishGate(g, FALSE)
  ELSE g

Observe(g, e) ==
  CASE e.kind = "call" -> ObserveCall(g, e.name)
    [] e.kind = "result" -> ObserveResult(g, e.name, FALSE)
    [] e.kind = "failure" -> ObserveResult(g, e.name, TRUE)
    [] e.kind = "report" -> [g EXCEPT !.reported = TRUE]
    [] e.kind = "turn/end" -> ObserveEnd(g, e.reason)
    [] OTHER -> g

\* A snapshot that shows nothing but settled teams opens the gate of a team.
CompleteRetained(g) ==
  IF g.waiting /\ g.kind = "team" /\ ~g.start /\ g.teamActive
  THEN FinishGate([g EXCEPT !.teamActive = FALSE], FALSE) ELSE g

\* The gate changes; performAsk goes on if it awaits its completion.
GateBecomes(g) ==
  /\ gate' = g
  /\ hurt' = (hurt \/ (~gate.failed /\ g.failed))
  /\ phase' = IF gate.waiting /\ ~g.waiting /\ active # NoCommand /\ phase[active] = "gated"
              THEN [phase EXCEPT ![active] = "waking"] ELSE phase

-----------------------------------------------------------------------------
(* The response agent and what it starts (Harness) *)

\* An event of the session or of its children, while a turn is registered.
Log(e) == forwards' = IF active = NoCommand \/ broken THEN forwards ELSE Append(forwards, e)

WithinBound == agent.logged < MaxEvents

\* Queued messages start a turn.
AgentStarts ==
  /\ ~agent.running /\ agent.queued > 0
  /\ agent' = [agent EXCEPT !.running = TRUE, !.queued = 0]
  /\ UNCHANGED <<askVars, team, teams, child, starter, streamVars, callVars, gateVars, snapVars>>

AgentSpeaks ==
  /\ agent.running /\ agent.call = "none" /\ agent.pieces < MaxPieces /\ WithinBound
  /\ Log([kind |-> "chunk", piece |-> agent.pieces + 1])
  /\ agent' = [agent EXCEPT !.pieces = @ + 1, !.logged = @ + 1]
  /\ UNCHANGED <<askVars, team, teams, child, starter, broken, buffer, answerText, sent, dropped,
                 callVars, gateVars, snapVars>>

AgentCalls(name) ==
  /\ agent.running /\ agent.call = "none" /\ ~agent.cancelled /\ WithinBound
  /\ name = "start" => team = "none" /\ teams < MaxTeams
  /\ name = "delete" => team # "none"
  /\ name = "template" => ~child
  /\ Log([kind |-> "call", name |-> name])
  /\ agent' = [agent EXCEPT !.call = name, !.logged = @ + 1]
  /\ begun' = IF active # NoCommand /\ name # "delete" /\ begun < 2 THEN begun + 1 ELSE begun
  /\ early' = IF name = "delete" \/ active = NoCommand THEN early ELSE phase[active] = "running"
  /\ starter' = IF name = "start" THEN active ELSE starter
  /\ UNCHANGED <<askVars, team, teams, child, broken, buffer, answerText, sent, dropped,
                 gateVars, snapVars>>

CallSucceeds ==
  /\ agent.call # "none"
  /\ Log([kind |-> "result", name |-> agent.call])
  /\ agent' = [agent EXCEPT !.call = "none"]
  /\ CASE agent.call = "start" ->
            /\ team' = "running" /\ teams' = teams + 1
            /\ seenDone' = snapshots.quiet /\ UNCHANGED child
       [] agent.call = "delete" -> team' = "none" /\ UNCHANGED <<teams, child, seenDone>>
       [] agent.call = "template" -> child' = TRUE /\ UNCHANGED <<team, teams, seenDone>>
  /\ UNCHANGED <<askVars, starter, broken, buffer, answerText, sent, dropped, callVars, gateVars, snapshots>>

CallFails ==
  /\ fault = "tool_error"
  /\ agent.call # "none"
  /\ Log([kind |-> "failure", name |-> agent.call])
  /\ agent' = [agent EXCEPT !.call = "none"]
  /\ UNCHANGED <<askVars, team, teams, child, starter, broken, buffer, answerText, sent, dropped,
                 callVars, gateVars, snapVars>>

AgentStops(reason) ==
  /\ agent.running /\ agent.call = "none"
  /\ IF agent.cancelled THEN reason = "aborted"
     ELSE reason = "completed" \/ (reason = "error" /\ fault = "turn_error")
  /\ Log([kind |-> "turn/end", reason |-> reason])
  /\ agent' = [agent EXCEPT !.running = FALSE, !.cancelled = FALSE, !.last = reason]
  /\ UNCHANGED <<askVars, team, teams, child, starter, broken, buffer, answerText, sent, dropped,
                 callVars, gateVars, snapVars>>

\* A member's message wakes the agent; so does the end of the template child.
AgentWakes ==
  /\ agent.queued = 0
  /\ \/ team = "running" /\ WithinBound /\ Log([kind |-> "message"]) /\ UNCHANGED child
     \/ child /\ child' = FALSE /\ Log([kind |-> "report"])
  /\ agent' = [agent EXCEPT !.queued = 1, !.logged = IF @ < MaxEvents THEN @ + 1 ELSE @]
  /\ UNCHANGED <<askVars, team, teams, starter, broken, buffer, answerText, sent, dropped,
                 callVars, gateVars, snapVars>>

\* The last open task becomes terminal, in a call of a member.
TeamSettles ==
  /\ team = "running" /\ team' = "settled"
  /\ Log([kind |-> "message"])
  /\ UNCHANGED <<askVars, agent, teams, child, starter, broken, buffer, answerText, sent, dropped,
                 callVars, gateVars, snapVars>>

\* The captain adds a task to a settled team.
TeamReopens ==
  /\ team = "settled" /\ agent.running /\ agent.call = "none" /\ WithinBound
  /\ team' = "running"
  /\ agent' = [agent EXCEPT !.logged = @ + 1]
  /\ Log([kind |-> "message"])
  /\ UNCHANGED <<askVars, teams, child, starter, broken, buffer, answerText, sent, dropped,
                 callVars, gateVars, snapVars>>

-----------------------------------------------------------------------------
(* ask and performAsk *)

AgentIdle == ~agent.running /\ agent.queued = 0

\* Operations of a session run one after another, whether the last succeeded or not.
NextAsk == Head(asks)

\* Mutation: turn.forwarding is not awaited.
NotAwaited == TRUE

\* await turn.forwarding
AllForwarded == mark = 0

Ask(c) ==
  /\ phase[c] = "new"
  /\ phase' = [phase EXCEPT ![c] = "queued"] /\ asks' = Append(asks, c)
  /\ UNCHANGED <<active, mark, failing, owed, agentVars, streamVars, callVars, gateVars, snapVars>>

\* prepareRoot, resolveModel or handleFor throws: no turn has been registered.
OpenFails ==
  /\ fault = "open_error"
  /\ asks # <<>> /\ phase[NextAsk] = "queued"
  /\ phase' = [phase EXCEPT ![NextAsk] = "failed"] /\ asks' = Tail(asks)
  /\ UNCHANGED <<active, mark, failing, owed, agentVars, streamVars, callVars, gateVars, snapVars>>

\* The turn is registered before the message is delivered.
Registers ==
  /\ asks # <<>> /\ phase[NextAsk] = "queued"
  /\ phase' = [phase EXCEPT ![NextAsk] = "delivering"] /\ active' = NextAsk
  /\ agent' = [agent EXCEPT !.pieces = 0]
  /\ forwards' = <<>> /\ broken' = FALSE /\ buffer' = <<>>
  /\ gate' = NoGate /\ hurt' = FALSE /\ begun' = 0 /\ early' = FALSE
  /\ snapshots' = NoSnapshots
  /\ UNCHANGED <<asks, mark, failing, owed, team, teams, child, starter, answerText, sent, dropped, seenDone>>

Delivers ==
  /\ active # NoCommand /\ phase[active] = "delivering"
  /\ phase' = [phase EXCEPT ![active] = "running"]
  /\ agent' = [agent EXCEPT !.queued = 1]
  /\ UNCHANGED <<asks, active, mark, failing, owed, team, teams, child, starter,
                 streamVars, callVars, gateVars, snapVars>>

DeliveryFails ==
  /\ fault = "open_error"
  /\ active # NoCommand /\ phase[active] = "delivering"
  /\ phase' = [phase EXCEPT ![active] = "cleaning"] /\ failing' = TRUE
  /\ UNCHANGED <<asks, active, mark, owed, agentVars, streamVars, callVars, gateVars, snapVars>>

\* await agent.whenIdle(), then the events logged until now.
FindsIdle ==
  /\ active # NoCommand /\ phase[active] = "running" /\ AgentIdle
  /\ phase' = [phase EXCEPT ![active] = "draining"] /\ mark' = Len(forwards)
  /\ UNCHANGED <<asks, active, failing, owed, agentVars, streamVars, callVars, gateVars, snapVars>>

\* assertHealthy, then the events logged until now once more.
Settles ==
  /\ phase' = [phase EXCEPT ![active] = IF gate.failed THEN "cleaning" ELSE "settling"]
  /\ failing' = gate.failed

Drained ==
  /\ active # NoCommand /\ phase[active] = "draining" /\ AllForwarded
  /\ IF broken
     THEN phase' = [phase EXCEPT ![active] = "cleaning"] /\ failing' = TRUE /\ UNCHANGED <<mark, owed>>
     ELSE IF gate.waiting
     THEN phase' = [phase EXCEPT ![active] = "gated"] /\ UNCHANGED <<mark, failing, owed>>
     ELSE Settles /\ mark' = Len(forwards) /\ owed' = [owed EXCEPT ![active] = agent.pieces]
  /\ UNCHANGED <<asks, active, agentVars, streamVars, callVars, gateVars, snapVars>>

\* The gate is open and the turn that opened it has ended.
Awaited ==
  /\ active # NoCommand /\ phase[active] = "waking" /\ AgentIdle
  /\ Settles /\ mark' = Len(forwards) /\ owed' = [owed EXCEPT ![active] = agent.pieces]
  /\ UNCHANGED <<asks, active, agentVars, streamVars, callVars, gateVars, snapVars>>

Concludes ==
  /\ active # NoCommand /\ phase[active] = "settling" /\ AllForwarded
  /\ failing' = (broken \/ agent.last = "error")
  /\ phase' = [phase EXCEPT ![active] = "cleaning"]
  /\ UNCHANGED <<asks, active, mark, owed, agentVars, streamVars, callVars, gateVars, snapVars>>

-----------------------------------------------------------------------------
(* forwardEvent *)

\* The buffered text is emitted, and the emitter may throw.
Emit(text) ==
  \/ sent' = [sent EXCEPT ![active] = @ \o text] /\ UNCHANGED <<broken, dropped>>
  \/ /\ fault = "emit_error" /\ text # <<>>
     /\ broken' = TRUE /\ dropped' = [dropped EXCEPT ![active] = TRUE] /\ UNCHANGED sent

\* Mutation: the text that fills a batch is emitted without what was buffered.
AppendPiece1(p) ==
  \/ Emit(<<p>>) /\ buffer' = <<>>
  \/ buffer' = Append(buffer, p) /\ UNCHANGED <<sent, broken, dropped>>

\* A piece fills the batch, or is kept.
AppendPiece(p) ==
  \/ Emit(Append(buffer, p)) /\ buffer' = <<>>
  \/ buffer' = Append(buffer, p) /\ UNCHANGED <<sent, broken, dropped>>

Flushes(e) == e.kind \in {"call", "turn/end"}

AskForSnapshot(s) == [s EXCEPT !.pending = TRUE]

ForwardChunk(e) ==
  /\ answerText' = [answerText EXCEPT ![active] = Append(@, e.piece)]
  /\ AppendPiece(e.piece)
  /\ UNCHANGED <<phase, gate, hurt, snapshots>>

\* The emitter throws for the text that is flushed before anything else is done.
FlushFails(e) ==
  /\ fault = "emit_error"
  /\ Flushes(e) /\ buffer # <<>> /\ buffer' = <<>>
  /\ broken' = TRUE /\ dropped' = [dropped EXCEPT ![active] = TRUE]
  /\ UNCHANGED <<phase, sent, gate, hurt, snapshots>>

\* Every other event: text is flushed first, the gate observes, and a snapshot is
\* asked for unless a projection fails.
ForwardOther(e) ==
  /\ \/ FlushFails(e)
     \/ /\ sent' = IF Flushes(e) THEN [sent EXCEPT ![active] = @ \o buffer] ELSE sent
        /\ buffer' = IF Flushes(e) THEN <<>> ELSE buffer
        /\ broken' \in {FALSE, fault = "emit_error"}
        /\ GateBecomes(Observe(gate, e))
        /\ snapshots' = IF broken' THEN snapshots ELSE AskForSnapshot(snapshots)
        /\ UNCHANGED dropped
  /\ UNCHANGED answerText

Forward ==
  /\ active # NoCommand /\ forwards # <<>> /\ ~broken
  /\ LET e == Head(forwards) IN IF e.kind = "chunk" THEN ForwardChunk(e) ELSE ForwardOther(e)
  /\ forwards' = IF broken' THEN <<>> ELSE Tail(forwards)
  /\ mark' = IF broken' \/ mark = 0 THEN 0 ELSE mark - 1
  /\ UNCHANGED <<asks, active, failing, owed, agentVars, callVars, seenDone>>

-----------------------------------------------------------------------------
(* The gate, cancellation, the snapshots and the cleanup *)

\* Mutation: the timer is set for teams only.
ExpiresForTeams(g) == g.waiting /\ g.kind = "team"

\* The timer is set for as long as the gate waits.
Expires(g) == g.waiting

\* Ten minutes after the gate began to wait.  They pass before the turn that
\* started the team has ended only in a behaviour whose failure is "slow".
GateTimesOut ==
  /\ Expires(gate) /\ (fault = "slow" \/ phase[active] = "gated")
  /\ GateBecomes(FinishGate(gate, TRUE))
  /\ UNCHANGED <<asks, active, mark, failing, owed, agentVars, streamVars, callVars, snapVars>>

\* Has no effect before the message agent is known.
Cancel ==
  /\ fault = "cancel"
  /\ active # NoCommand /\ phase[active] \notin {"delivering", "cleaning"}
  /\ GateBecomes(FinishGate(gate, TRUE))
  /\ agent' = [agent EXCEPT !.cancelled = agent.running]
  /\ UNCHANGED <<asks, active, mark, failing, owed, team, teams, child, starter,
                 streamVars, callVars, snapVars>>

\* The timer fires (it runs while something is pending and nothing runs), or the
\* cleanup runs what is pending at once.
SnapshotReads ==
  /\ ~snapshots.running /\ snapshots.pending
  /\ snapshots' = [pending |-> FALSE, running |-> TRUE, quiet |-> team = "settled"]
  /\ seenDone' = (seenDone \/ team = "settled")
  /\ UNCHANGED <<askVars, agentVars, streamVars, callVars, gateVars>>

SnapshotEnds ==
  /\ snapshots.running
  /\ GateBecomes(IF snapshots.quiet THEN CompleteRetained(gate) ELSE gate)
  /\ snapshots' = [snapshots EXCEPT !.running = FALSE, !.quiet = FALSE]
  /\ UNCHANGED <<asks, active, mark, failing, owed, agentVars, streamVars, callVars, seenDone>>

\* The finally block: what is buffered is flushed (an error is only logged), the
\* snapshots are awaited, the turn is unregistered, and the next command goes on.
CleanUpAsk ==
  /\ active # NoCommand /\ phase[active] = "cleaning"
  /\ \/ /\ ~snapshots.pending /\ ~snapshots.running
        /\ sent' = [sent EXCEPT ![active] = @ \o buffer] /\ UNCHANGED dropped
     \/ /\ fault = "emit_error" /\ buffer # <<>>
        /\ dropped' = [dropped EXCEPT ![active] = TRUE] /\ UNCHANGED sent
  /\ phase' = [phase EXCEPT ![active] = IF failing THEN "failed" ELSE "answered"]
  /\ asks' = Tail(asks) /\ active' = NoCommand /\ failing' = FALSE /\ mark' = 0
  /\ forwards' = <<>> /\ broken' = FALSE /\ buffer' = <<>>
  /\ gate' = NoGate /\ snapshots' = NoSnapshots
  /\ UNCHANGED <<owed, agentVars, answerText, callVars, hurt, seenDone>>

-----------------------------------------------------------------------------
AgentActs ==
  \/ AgentStarts \/ AgentSpeaks \/ CallSucceeds \/ CallFails \/ AgentWakes
  \/ TeamSettles \/ TeamReopens
  \/ \E name \in SessionCalls : AgentCalls(name)
  \/ \E r \in TurnEnds : AgentStops(r)

SessionStep ==
  \/ AgentActs
  \/ \E c \in Command : Ask(c)
  \/ OpenFails \/ Registers \/ Delivers \/ DeliveryFails
  \/ FindsIdle \/ Drained \/ Awaited \/ Concludes \/ CleanUpAsk
  \/ Forward \/ GateTimesOut \/ Cancel
  \/ SnapshotReads \/ SnapshotEnds

SessionNext == SessionStep /\ UNCHANGED fault

SessionSpec == SessionInit /\ [][SessionNext]_sessionVars

\* The runtime's own steps run; a call of a tool returns and a turn ends; the
\* gate's timer fires.
SessionFairness ==
  /\ WF_stepVars(AgentStarts) /\ WF_stepVars(CallSucceeds \/ CallFails)
  /\ WF_stepVars(\E r \in TurnEnds : AgentStops(r))
  /\ WF_stepVars(OpenFails \/ Registers)
  /\ WF_stepVars(Delivers \/ DeliveryFails)
  /\ WF_stepVars(FindsIdle) /\ WF_stepVars(Drained) /\ WF_stepVars(Awaited)
  /\ WF_stepVars(Concludes) /\ WF_stepVars(CleanUpAsk)
  /\ WF_stepVars(Forward) /\ WF_stepVars(GateTimesOut)
  /\ WF_stepVars(SnapshotReads) /\ WF_stepVars(SnapshotEnds)

FairSessionSpec == SessionSpec /\ SessionFairness

-----------------------------------------------------------------------------
(* Properties *)

\* The variables have their types, a gate that is open waits for nothing, and no
\* command awaits events that will not be forwarded.
SessionTypeOK ==
  /\ phase \in [Command -> AskPhase] /\ asks \in Seq(Command)
  /\ active \in Command \cup {NoCommand} /\ mark \in 0 .. Len(forwards) /\ failing \in BOOLEAN
  /\ forwards \in Seq(Event) /\ broken \in BOOLEAN
  /\ buffer \in Seq(1 .. MaxPieces)
  /\ answerText \in [Command -> Seq(1 .. MaxPieces)] /\ sent \in [Command -> Seq(1 .. MaxPieces)]
  /\ dropped \in [Command -> BOOLEAN] /\ owed \in [Command -> 0 .. MaxPieces]
  /\ team \in {"none", "running", "settled"} /\ teams \in 0 .. MaxTeams /\ child \in BOOLEAN
  /\ starter \in Command \cup {NoCommand} /\ seenDone \in BOOLEAN
  /\ agent \in [running : BOOLEAN, queued : 0 .. 1, call : {"none"} \cup SessionCalls,
                cancelled : BOOLEAN, last : TurnEnds, pieces : 0 .. MaxPieces,
                logged : 0 .. MaxEvents]
  /\ gate \in [waiting : BOOLEAN, kind : {"none", "team", "template"}, teamActive : BOOLEAN,
               start : BOOLEAN, delete : BOOLEAN, reported : BOOLEAN, failed : BOOLEAN]
  /\ gate.waiting <=> gate.kind # "none"
  /\ fault \in SessionFaults \cup {"none"}
  /\ begun \in 0 .. 2 /\ early \in BOOLEAN /\ hurt \in BOOLEAN
  /\ snapshots \in [pending : BOOLEAN, running : BOOLEAN, quiet : BOOLEAN]

Answers(c) == phase[c] # "answered" /\ phase'[c] = "answered"

\* Commands of one session are answered in the order they were asked, one at a
\* time: none is past the queue while an earlier one is (ask).
OneAtATime ==
  /\ \A i \in 2 .. Len(asks) : phase[asks[i]] = "queued"
  /\ \A c \in Command : phase[c] \notin AskSettled \cup {"new"} => c \in {asks[i] : i \in DOMAIN asks}
  /\ active # NoCommand => asks # <<>> /\ active = Head(asks)

\* The answer a command returns holds every piece of text the agent had spoken
\* when it was found idle, in order, whatever the emitter does (performAsk).
AnswerComplete ==
  \A c \in Command : phase[c] = "answered" =>
    /\ Len(answerText[c]) >= owed[c]
    /\ \A i \in 1 .. Len(answerText[c]) : answerText[c][i] = i

\* Unless an emission failed, all that text has been streamed, in order and
\* once (AnswerChunkBatcher, flushStepBuffers, flushTurnBuffers).
StreamComplete ==
  \A c \in Command :
    /\ \A i \in 1 .. Len(sent[c]) : dropped[c] \/ sent[c][i] = i
    /\ phase[c] = "answered" /\ ~dropped[c] => Len(sent[c]) >= owed[c]

\* The active turn made at most one asynchronous call, before the agent was found idle.
OneCall == begun = 0 \/ (begun = 1 /\ early)

\* A command whose turn made one asynchronous call is answered only if that call
\* has come to a good end: never while the team it started is at work, unless a
\* snapshot has read that team as settled, or had read an earlier team of the
\* session so and was not done with it when this one was started
\* (waitForAsyncTurnCompletion); and never after a failure of the team's start or
\* cleanup, a turn that failed while the gate was shut, a cancellation or the
\* timeout (assertHealthy).
HeldByTeam ==
  [][\A c \in Command : Answers(c) /\ OneCall =>
       /\ ~(team = "running" /\ starter = c /\ ~seenDone)
       /\ ~hurt]_sessionVars

\* Every command is settled, whatever the team, the tools and the emitter do:
\* the gate's timer bounds the wait and the queue survives a failure.
AskSettles == \A c \in Command : phase[c] = "queued" ~> phase[c] \in AskSettled

\* Comment of ByClawAsyncTeamGate: a command is held until its temporary team is
\* deleted.
HeldUntilDeleted ==
  [][\A c \in Command : Answers(c) => ~(team = "running" /\ starter = c /\ ~seenDone)]_sessionVars
=============================================================================
