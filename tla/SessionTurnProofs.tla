--------------------------- MODULE SessionTurnProofs ---------------------------
(*****************************************************************************)
(* Proofs about SessionTurn, for any commands, pieces, teams, faults and     *)
(* bounds: types, the queue of commands (one turn at a time, each command    *)
(* once); what becomes of the text (every piece an agent speaks waits in the *)
(* forwarding chain, in order and once, until it is heard, so the answer and *)
(* the stream of a command hold all of it); and what holds a command (the    *)
(* call that shuts the gate waits in the chain until the gate has seen it,   *)
(* and performAsk awaits the chain before it looks at the gate).             *)
(*****************************************************************************)
EXTENDS SessionTurn, SequenceTheorems, TLAPS

GateSet == [waiting : BOOLEAN, kind : {"none", "team", "template"}, teamActive : BOOLEAN,
            start : BOOLEAN, delete : BOOLEAN, reported : BOOLEAN, failed : BOOLEAN]
\* A gate that is open waits for nothing.
GateOK(g) == g \in GateSet /\ (g.waiting <=> g.kind # "none")

AgentSet == [running : BOOLEAN, queued : 0 .. 1, call : {"none"} \cup SessionCalls,
             cancelled : BOOLEAN, last : TurnEnds, pieces : 0 .. MaxPieces, logged : 0 .. MaxEvents]

LEMMA EventKinds ==
  /\ \A p \in 1 .. MaxPieces : [kind |-> "chunk", piece |-> p] \in Event
  /\ \A n \in CallNames : /\ [kind |-> "call", name |-> n] \in Event
                          /\ [kind |-> "result", name |-> n] \in Event
                          /\ [kind |-> "failure", name |-> n] \in Event
  /\ [kind |-> "report"] \in Event /\ [kind |-> "message"] \in Event
  /\ \A r \in TurnEnds : [kind |-> "turn/end", reason |-> r] \in Event
BY DEF Event

\* Of what an event is made.
LEMMA EventFields ==
  ASSUME NEW e \in Event
  PROVE  /\ e.kind = "chunk" => e.piece \in 1 .. MaxPieces
         /\ e.kind \in {"call", "result", "failure"} => e.name \in CallNames
         /\ e.kind = "turn/end" => e.reason \in TurnEnds
BY DEF Event

LEMMA BeginOK ==
  ASSUME NEW g, GateOK(g), NEW kind \in {"team", "template"}
  PROVE  GateOK(Begin(g, kind))
BY DEF GateOK, GateSet, Begin

LEMMA FinishOK ==
  ASSUME NEW g, GateOK(g), NEW error \in BOOLEAN
  PROVE  GateOK(FinishGate(g, error))
BY DEF GateOK, GateSet, FinishGate

LEMMA FieldsOK ==
  ASSUME NEW g, GateOK(g), NEW b \in BOOLEAN
  PROVE  /\ GateOK([g EXCEPT !.start = b]) /\ GateOK([g EXCEPT !.delete = b])
         /\ GateOK([g EXCEPT !.teamActive = b]) /\ GateOK([g EXCEPT !.reported = b])
BY DEF GateOK, GateSet

LEMMA ObserveOK ==
  ASSUME NEW g, GateOK(g), NEW e \in Event
  PROVE  GateOK(Observe(g, e))
<1>1. ASSUME NEW n \in CallNames PROVE GateOK(ObserveCall(g, n))
  <2>1. CASE n = "start"
    <3>1. GateOK(Begin(g, "team"))
      BY BeginOK
    <3> QED BY <2>1, <3>1, FieldsOK DEF ObserveCall
  <2>2. CASE n = "delete"
    BY <2>2, FieldsOK DEF ObserveCall
  <2>3. CASE n = "template"
    <3>1. GateOK(Begin(g, "template"))
      BY BeginOK
    <3> QED BY <2>3, <3>1, FieldsOK DEF ObserveCall
  <2> QED BY <2>1, <2>2, <2>3 DEF CallNames
<1>2. ASSUME NEW n \in CallNames, NEW error \in BOOLEAN PROVE GateOK(ObserveResult(g, n, error))
  <2> DEFINE s == [g EXCEPT !.start = FALSE]
             d == [g EXCEPT !.delete = FALSE]
  <2>1. GateOK(s) /\ GateOK(d)
    BY FieldsOK
  <2>2. GateOK([s EXCEPT !.teamActive = TRUE]) /\ GateOK([d EXCEPT !.teamActive = FALSE])
        /\ GateOK(FinishGate(s, TRUE)) /\ GateOK(FinishGate(d, TRUE))
    <3> HIDE DEF s, d
    <3> QED BY <2>1, FieldsOK, FinishOK
  <2>3. [s EXCEPT !.teamActive = TRUE] = [g EXCEPT !.start = FALSE, !.teamActive = TRUE]
        /\ [d EXCEPT !.teamActive = FALSE] = [g EXCEPT !.delete = FALSE, !.teamActive = FALSE]
    OBVIOUS
  <2> QED BY <2>2, <2>3 DEF ObserveResult
<1>3. ASSUME NEW r \in TurnEnds PROVE GateOK(ObserveEnd(g, r))
  BY FinishOK DEF ObserveEnd
<1>4. GateOK([g EXCEPT !.reported = TRUE])
  BY FieldsOK
<1> QED
  BY <1>1, <1>2, <1>3, <1>4, EventFields DEF Observe

LEMMA CompleteOK ==
  ASSUME NEW g, GateOK(g)
  PROVE  GateOK(CompleteRetained(g))
<1>1. GateOK([g EXCEPT !.teamActive = FALSE])
  BY FieldsOK
<1> QED BY <1>1, FinishOK DEF CompleteRetained

-----------------------------------------------------------------------------
(* What the steps change *)

\* The agent logs an event, which is text if it is a piece more.
Logged == \E e \in Event : /\ Log(e)
                           /\ IF e.kind = "chunk" THEN e.piece = agent.pieces + 1 /\ agent'.pieces = e.piece
                                                  ELSE agent'.pieces = agent.pieces
Unlogged == forwards' = forwards /\ agent'.pieces = agent.pieces

AgentMoves ==
  /\ UNCHANGED <<askVars, broken, buffer, answerText, sent, dropped, gateVars, fault>>
  /\ agent' \in AgentSet
  /\ Logged \/ Unlogged

\* Only a command that is held may move, to be woken.
GateMoves ==
  /\ UNCHANGED <<asks, active, mark, failing, owed, streamVars, callVars, fault>>
  /\ \E g : GateOK(g) /\ GateBecomes(g)
  /\ agent'.pieces = agent.pieces

LEMMA AgentUpdates ==
  ASSUME NEW a \in AgentSet
  PROVE  /\ \A n \in 0 .. MaxEvents : [a EXCEPT !.logged = n] \in AgentSet
         /\ \A n \in 0 .. MaxEvents, q \in 0 .. 1 : [a EXCEPT !.queued = q, !.logged = n] \in AgentSet
         /\ \A n \in 0 .. MaxEvents, name \in SessionCalls : [a EXCEPT !.call = name, !.logged = n] \in AgentSet
         /\ \A n \in 0 .. MaxEvents, p \in 0 .. MaxPieces : [a EXCEPT !.pieces = p, !.logged = n] \in AgentSet
         /\ \A q \in 0 .. 1, b \in BOOLEAN : [a EXCEPT !.running = b, !.queued = q] \in AgentSet
<1>1. \A n \in 0 .. MaxEvents : [a EXCEPT !.logged = n] \in AgentSet
  BY DEF AgentSet
<1>2. \A n \in 0 .. MaxEvents, q \in 0 .. 1 : [a EXCEPT !.queued = q, !.logged = n] \in AgentSet
  BY DEF AgentSet
<1>3. \A n \in 0 .. MaxEvents, name \in SessionCalls : [a EXCEPT !.call = name, !.logged = n] \in AgentSet
  BY DEF AgentSet
<1>4. \A n \in 0 .. MaxEvents, p \in 0 .. MaxPieces : [a EXCEPT !.pieces = p, !.logged = n] \in AgentSet
  BY DEF AgentSet
<1>5. \A q \in 0 .. 1, b \in BOOLEAN : [a EXCEPT !.running = b, !.queued = q] \in AgentSet
  BY DEF AgentSet
<1> QED BY <1>1, <1>2, <1>3, <1>4, <1>5

LEMMA AgentShape ==
  ASSUME SessionTypeOK, AgentActs, UNCHANGED fault
  PROVE  AgentMoves /\ UNCHANGED <<snapshots>>
<1> USE SessionAssumption
<1>0. agent \in AgentSet /\ agent.pieces \in 0 .. MaxPieces /\ agent.logged \in 0 .. MaxEvents
      /\ SessionCalls \subseteq CallNames
  BY DEF SessionTypeOK, AgentSet, CallNames
<1>1. CASE AgentStarts
  <2>1. agent' = [agent EXCEPT !.running = TRUE, !.queued = 0]
    BY <1>1 DEF AgentStarts
  <2>2. agent' \in AgentSet
    <3>1. 0 \in 0 .. 1 /\ TRUE \in BOOLEAN
      OBVIOUS
    <3> QED BY <1>0, <2>1, <3>1, AgentUpdates
  <2>3. agent'.pieces = agent.pieces
    BY <1>0, <2>1 DEF AgentSet
  <2> QED BY <1>1, <2>3, <2>2 DEF AgentStarts, AgentMoves, Unlogged, streamVars, gateVars, snapVars
<1>2. CASE AgentSpeaks
  <2> DEFINE e == [kind |-> "chunk", piece |-> agent.pieces + 1]
  <2>1. agent.pieces + 1 \in 1 .. MaxPieces /\ agent.logged + 1 \in 0 .. MaxEvents
    BY <1>0, <1>2 DEF AgentSpeaks, WithinBound
  <2>2. e \in Event
    BY <2>1, EventKinds
  <2>3. Log(e) /\ agent' = [agent EXCEPT !.pieces = @ + 1, !.logged = @ + 1]
    BY <1>2 DEF AgentSpeaks
  <2>4. agent' \in AgentSet
    <3>1. agent.pieces + 1 \in 0 .. MaxPieces
      BY <2>1
    <3> QED BY <1>0, <2>1, <2>3, <3>1, AgentUpdates
  <2>5. agent'.pieces = agent.pieces + 1
    BY <1>0, <2>3 DEF AgentSet
  <2> QED BY <1>2, <2>2, <2>3, <2>4, <2>5 DEF AgentSpeaks, AgentMoves, Logged, gateVars, snapVars
<1>3. ASSUME NEW name \in SessionCalls, AgentCalls(name) PROVE AgentMoves /\ UNCHANGED <<snapshots>>
  <2> DEFINE e == [kind |-> "call", name |-> name]
  <2>2. e \in Event
    BY <1>0, EventKinds
  <2>3. Log(e) /\ agent' = [agent EXCEPT !.call = name, !.logged = @ + 1]
    BY <1>3 DEF AgentCalls
  <2>4. agent' \in AgentSet
    <3>1. agent.logged + 1 \in 0 .. MaxEvents
      BY <1>0, <1>3 DEF AgentCalls, WithinBound
    <3> QED BY <1>0, <2>3, <3>1, AgentUpdates
  <2>5. agent'.pieces = agent.pieces
    BY <1>0, <2>3 DEF AgentSet
  <2> QED BY <1>3, <2>2, <2>3, <2>4, <2>5 DEF AgentCalls, AgentMoves, Logged, gateVars, snapVars
<1>4. CASE CallSucceeds \/ CallFails
  <2>1. agent.call \in CallNames
    BY <1>0, <1>4 DEF CallSucceeds, CallFails, AgentSet
  <2>2. [kind |-> "result", name |-> agent.call] \in Event /\ [kind |-> "failure", name |-> agent.call] \in Event
    BY <2>1, EventKinds
  <2>3. agent' = [agent EXCEPT !.call = "none"]
    BY <1>4 DEF CallSucceeds, CallFails
  <2>4. agent' \in AgentSet /\ agent'.pieces = agent.pieces
    BY <1>0, <2>3 DEF AgentSet
  <2>5. Logged
    BY <1>4, <2>2, <2>4 DEF Logged, CallSucceeds, CallFails
  <2> QED BY <1>4, <2>4, <2>5 DEF CallSucceeds, CallFails, AgentMoves, gateVars, snapVars
<1>5. ASSUME NEW r \in TurnEnds, AgentStops(r) PROVE AgentMoves /\ UNCHANGED <<snapshots>>
  <2>1. [kind |-> "turn/end", reason |-> r] \in Event
    BY EventKinds
  <2>2. agent' = [agent EXCEPT !.running = FALSE, !.cancelled = FALSE, !.last = r]
    BY <1>5 DEF AgentStops
  <2>3. agent' \in AgentSet /\ agent'.pieces = agent.pieces
    BY <1>0, <2>2 DEF AgentSet
  <2>4. Logged
    BY <1>5, <2>1, <2>3 DEF Logged, AgentStops
  <2> QED BY <1>5, <2>3, <2>4 DEF AgentStops, AgentMoves, gateVars, snapVars
<1>6. CASE AgentWakes
  <2>1. agent' = [agent EXCEPT !.queued = 1, !.logged = IF @ < MaxEvents THEN @ + 1 ELSE @]
    BY <1>6 DEF AgentWakes
  <2>2. agent' \in AgentSet /\ agent'.pieces = agent.pieces
    <3> DEFINE n == IF agent.logged < MaxEvents THEN agent.logged + 1 ELSE agent.logged
    <3>1. n \in 0 .. MaxEvents /\ 1 \in 0 .. 1
      BY <1>0
    <3>2. agent' = [agent EXCEPT !.queued = 1, !.logged = n]
      BY <2>1
    <3> HIDE DEF n
    <3>3. agent'.pieces = agent.pieces
      BY <1>0, <3>2 DEF AgentSet
    <3> QED BY <1>0, <3>1, <3>2, <3>3, AgentUpdates
  <2>3. Logged
    BY <1>6, <2>2, EventKinds DEF Logged, AgentWakes
  <2> QED BY <1>6, <2>2, <2>3 DEF AgentWakes, AgentMoves, gateVars, snapVars
<1>7. CASE TeamSettles
  <2>1. Logged
    BY <1>7, EventKinds DEF Logged, TeamSettles
  <2> QED BY <1>0, <1>7, <2>1 DEF TeamSettles, AgentMoves, gateVars, snapVars
<1>8. CASE TeamReopens
  <2>1. agent' = [agent EXCEPT !.logged = @ + 1] /\ agent.logged + 1 \in 0 .. MaxEvents
    BY <1>0, <1>8 DEF TeamReopens, WithinBound
  <2>2. agent' \in AgentSet /\ agent'.pieces = agent.pieces
    <3>1. agent'.pieces = agent.pieces
      BY <1>0, <2>1 DEF AgentSet
    <3> QED BY <1>0, <2>1, <3>1, AgentUpdates
  <2>3. Logged
    BY <1>8, <2>2, EventKinds DEF Logged, TeamReopens
  <2> QED BY <1>8, <2>2, <2>3 DEF TeamReopens, AgentMoves, gateVars, snapVars
<1> QED
  BY <1>1, <1>2, <1>3, <1>4, <1>5, <1>6, <1>7, <1>8 DEF AgentActs

\* Between two commands nothing of a turn is left, and when forwarding has
\* failed nothing is awaited.
Calm ==
  /\ active = NoCommand => /\ mark = 0 /\ forwards = <<>> /\ buffer = <<>>
                           /\ ~broken /\ ~failing
  /\ broken => mark = 0 /\ forwards = <<>>
  /\ agent.call = "start" => teams < MaxTeams

\* The types that events, text and pieces have.
TextOK ==
  /\ mark \in 0 .. Len(forwards) /\ forwards \in Seq(Event) /\ broken \in BOOLEAN
  /\ buffer \in Seq(1 .. MaxPieces)
  /\ answerText \in [Command -> Seq(1 .. MaxPieces)] /\ sent \in [Command -> Seq(1 .. MaxPieces)]
  /\ dropped \in [Command -> BOOLEAN]
AskOK ==
  /\ phase \in [Command -> AskPhase] /\ asks \in Seq(Command)
  /\ active \in Command \cup {NoCommand} /\ failing \in BOOLEAN
  /\ owed \in [Command -> 0 .. MaxPieces]
TeamOK ==
  /\ team \in {"none", "running", "settled"} /\ teams \in 0 .. MaxTeams /\ child \in BOOLEAN
  /\ starter \in Command \cup {NoCommand} /\ seenDone \in BOOLEAN
  /\ begun \in 0 .. 2 /\ early \in BOOLEAN
RestOK ==
  /\ hurt \in BOOLEAN
  /\ fault \in SessionFaults \cup {"none"}
  /\ snapshots \in [pending : BOOLEAN, running : BOOLEAN, quiet : BOOLEAN]

LEMMA TypeParts == SessionTypeOK <=> TextOK /\ AskOK /\ TeamOK /\ RestOK /\ agent \in AgentSet /\ GateOK(gate)
BY DEF SessionTypeOK, TextOK, AskOK, TeamOK, RestOK, AgentSet, GateOK, GateSet

LEMMA TypeAfter ==
  TextOK' /\ AskOK' /\ TeamOK' /\ RestOK' /\ agent' \in AgentSet /\ GateOK(gate)' => SessionTypeOK'
BY DEF SessionTypeOK, TextOK, AskOK, TeamOK, RestOK, AgentSet, GateOK, GateSet

LEMMA SessionStart == SessionInit => SessionTypeOK /\ Calm
<1> SUFFICES ASSUME SessionInit PROVE SessionTypeOK /\ Calm
  OBVIOUS
<1> USE SessionAssumption
<1>a. <<>> \in Seq(1 .. MaxPieces) /\ <<>> \in Seq(Event) /\ <<>> \in Seq(Command) /\ Len(<<>>) = 0
  OBVIOUS
<1>1. TextOK
  <2>1. [c \in Command |-> <<>>] \in [Command -> Seq(1 .. MaxPieces)]
    BY <1>a
  <2>2. [c \in Command |-> FALSE] \in [Command -> BOOLEAN] /\ 0 \in 0 .. 0
    OBVIOUS
  <2>3. /\ forwards = <<>> /\ buffer = <<>> /\ mark = 0 /\ broken = FALSE
        /\ answerText = [c \in Command |-> <<>>] /\ sent = [c \in Command |-> <<>>]
        /\ dropped = [c \in Command |-> FALSE]
    BY DEF SessionInit
  <2> QED BY <1>a, <2>1, <2>2, <2>3 DEF TextOK
<1>2. AskOK
  <2>1. [c \in Command |-> 0] \in [Command -> 0 .. MaxPieces]
    OBVIOUS
  <2>2. [c \in Command |-> "new"] \in [Command -> AskPhase]
    BY DEF AskPhase
  <2> QED BY <1>a, <2>1, <2>2 DEF SessionInit, AskOK
<1>3. TeamOK /\ RestOK
  <2>1. 0 \in 0 .. MaxTeams /\ 0 \in 0 .. 2
    OBVIOUS
  <2>2. TeamOK
    BY <2>1 DEF SessionInit, TeamOK
  <2>3. RestOK
    BY DEF SessionInit, RestOK, NoSnapshots
  <2> QED BY <2>2, <2>3
<1>4. agent \in AgentSet
  BY DEF SessionInit, AgentSet, TurnEnds
<1>5. GateOK(gate)
  BY DEF SessionInit, GateOK, GateSet, NoGate
<1>6. Calm
  BY DEF SessionInit, Calm
<1> QED BY <1>1, <1>2, <1>3, <1>4, <1>5, <1>6, TypeParts

\* A new gate wakes nobody but the command it holds.
LEMMA GateShape ==
  ASSUME SessionTypeOK, NEW g, GateOK(g), GateBecomes(g)
  PROVE  /\ phase' \in [Command -> AskPhase] /\ GateOK(gate)' /\ hurt' \in BOOLEAN
         /\ \/ phase' = phase
            \/ /\ active # NoCommand /\ phase[active] = "gated"
               /\ phase' = [phase EXCEPT ![active] = "waking"]
<1>1. hurt \in BOOLEAN /\ gate.failed \in BOOLEAN /\ g.failed \in BOOLEAN
  BY DEF SessionTypeOK, GateOK, GateSet
<1>2. hurt' \in BOOLEAN
  BY <1>1 DEF GateBecomes
<1>3. phase' \in [Command -> AskPhase]
  BY DEF GateBecomes, SessionTypeOK, AskPhase
<1> QED BY <1>2, <1>3 DEF GateBecomes

LEMMA AgentTypes ==
  ASSUME SessionTypeOK, Calm, AgentActs, UNCHANGED fault
  PROVE  SessionTypeOK' /\ Calm'
<1> USE SessionAssumption
<1>0. TextOK /\ AskOK /\ TeamOK /\ RestOK /\ GateOK(gate) /\ agent \in AgentSet
  BY TypeParts
<1>1. AgentMoves /\ snapshots' = snapshots
  BY AgentShape
<1> DEFINE Idle == (active = NoCommand => /\ mark = 0 /\ forwards = <<>> /\ buffer = <<>>
                                         /\ ~broken /\ ~failing)
                   /\ (broken => mark = 0 /\ forwards = <<>>)
<1>2. TextOK' /\ Idle'
  <2>1. CASE Unlogged
    BY <1>0, <1>1, <2>1 DEF AgentMoves, TextOK, Calm, askVars, Unlogged
  <2>2. CASE Logged
    <3>1. PICK e \in Event : Log(e)
      BY <2>2 DEF Logged
    <3>2. UNCHANGED <<active, mark, broken, buffer, answerText, sent, dropped, failing>>
      BY <1>1 DEF AgentMoves, askVars
    <3> QED BY <1>0, <3>1, <3>2 DEF Log, TextOK, Calm
  <2> QED BY <1>1, <2>1, <2>2 DEF AgentMoves
<1>3. AskOK' /\ GateOK(gate)'
  BY <1>0, <1>1 DEF AgentMoves, AskOK, askVars, gateVars
<1>4. agent' \in AgentSet
  BY <1>1 DEF AgentMoves
<1>5. RestOK'
  BY <1>0, <1>1 DEF RestOK, AgentMoves, gateVars
<1>6. TeamOK' /\ (agent'.call = "start" => teams' < MaxTeams)
  <2>1. agent.call = "start" => teams < MaxTeams
    BY DEF Calm
  <2>2. active \in Command \cup {NoCommand}
    BY <1>0 DEF AskOK
  <2>3. CASE AgentStarts
    BY <1>0, <2>1, <2>3 DEF TeamOK, AgentStarts, callVars, snapVars, AgentSet
  <2>4. CASE AgentSpeaks
    BY <1>0, <2>1, <2>4 DEF TeamOK, AgentSpeaks, callVars, snapVars, AgentSet
  <2>5. CASE CallFails
    BY <1>0, <2>1, <2>5 DEF TeamOK, CallFails, callVars, snapVars, AgentSet
  <2>6. CASE AgentWakes
    BY <1>0, <2>1, <2>6 DEF TeamOK, AgentWakes, callVars, snapVars, AgentSet
  <2>7. CASE TeamSettles
    BY <1>0, <2>1, <2>7 DEF TeamOK, TeamSettles, callVars, snapVars
  <2>8. CASE TeamReopens
    BY <1>0, <2>1, <2>8 DEF TeamOK, TeamReopens, callVars, snapVars, AgentSet
  <2>9. ASSUME NEW r \in TurnEnds, AgentStops(r) PROVE TeamOK' /\ (agent'.call = "start" => teams' < MaxTeams)
    BY <1>0, <2>1, <2>9 DEF TeamOK, AgentStops, callVars, snapVars, AgentSet
  <2>10. ASSUME NEW name \in SessionCalls, AgentCalls(name)
         PROVE  TeamOK' /\ (agent'.call = "start" => teams' < MaxTeams)
    <3>1. UNCHANGED <<team, teams, child, seenDone>>
      BY <2>10 DEF AgentCalls, snapVars
    <3>2. starter' \in Command \cup {NoCommand}
      BY <1>0, <2>2, <2>10 DEF AgentCalls, TeamOK
    <3>4. early' \in BOOLEAN
      BY <1>0, <2>10 DEF AgentCalls, TeamOK
    <3>5. begun' \in 0 .. 2
      <4>1. begun' = begun \/ (begun < 2 /\ begun' = begun + 1)
        BY <2>10 DEF AgentCalls
      <4> QED BY <1>0, <4>1 DEF TeamOK
    <3>3. agent'.call = name /\ (name = "start" => teams < MaxTeams)
      BY <1>0, <2>10 DEF AgentCalls, AgentSet
    <3> QED BY <1>0, <3>1, <3>2, <3>3, <3>4, <3>5 DEF TeamOK
  <2>11. CASE CallSucceeds
    <3>1. UNCHANGED <<starter, begun, early>> /\ agent'.call = "none"
      BY <1>0, <2>11 DEF CallSucceeds, callVars, AgentSet
    <3>2. agent.call \in {"start", "delete", "template"}
      BY <1>0, <2>11 DEF CallSucceeds, AgentSet
    <3>3. teams' = teams \/ (teams < MaxTeams /\ teams' = teams + 1)
      BY <2>1, <2>11, <3>2 DEF CallSucceeds
    <3>4. team' \in {"none", "running", "settled"} /\ child' \in BOOLEAN /\ seenDone' \in BOOLEAN
      BY <1>0, <2>11, <3>2 DEF CallSucceeds, TeamOK, RestOK
    <3>5. teams' \in 0 .. MaxTeams
      BY <1>0, <3>3 DEF TeamOK
    <3> QED BY <1>0, <3>1, <3>4, <3>5 DEF TeamOK
  <2> QED BY <2>3, <2>4, <2>5, <2>6, <2>7, <2>8, <2>9, <2>10, <2>11 DEF AgentActs
<1>7. Calm'
  BY <1>2, <1>6 DEF Calm
<1>8. SessionTypeOK'
  BY <1>2, <1>3, <1>4, <1>5, <1>6, TypeAfter
<1> QED BY <1>7, <1>8

LEMMA SeqFacts ==
  ASSUME NEW S, NEW s \in Seq(S)
  PROVE  /\ Len(s) \in Nat /\ DOMAIN s = 1 .. Len(s) /\ \A i \in 1 .. Len(s) : s[i] \in S
         /\ s # <<>> => /\ Len(s) > 0 /\ Head(s) = s[1] /\ s[1] \in S
                        /\ Tail(s) \in Seq(S) /\ Len(Tail(s)) = Len(s) - 1
                        /\ \A i \in 1 .. Len(s) - 1 : Tail(s)[i] = s[i + 1]
OBVIOUS

LEMMA AppendFacts ==
  ASSUME NEW S, NEW s \in Seq(S), NEW x \in S
  PROVE  /\ Append(s, x) \in Seq(S) /\ Len(Append(s, x)) = Len(s) + 1 /\ Append(s, x) # <<>>
         /\ \A i \in 1 .. Len(s) : Append(s, x)[i] = s[i]
         /\ Append(s, x)[Len(s) + 1] = x
OBVIOUS

\* Steps of ask and performAsk, which touch text and events only to begin or end.
AskMoves ==
  \/ \E c \in Command : Ask(c)
  \/ OpenFails \/ Registers \/ Delivers \/ DeliveryFails
  \/ FindsIdle \/ Drained \/ Awaited \/ Concludes \/ CleanUpAsk

\* The queue q holds the commands that are asked and not settled, each once; all
\* but the first are only queued, and the first is either queued or active.
Waiting(ph, q) == \A i \in 1 .. Len(q) : /\ ph[q[i]] \notin AskSettled \cup {"new"}
                                         /\ i > 1 => ph[q[i]] = "queued"
Distinct(q) == \A i, j \in 1 .. Len(q) : q[i] = q[j] => i = j
Unsettled(ph, q) == \A c \in Command : ph[c] \notin AskSettled \cup {"new"} => \E i \in 1 .. Len(q) : q[i] = c
AtFront(ph, q, a) == /\ q = <<>> => a = NoCommand
                     /\ q # <<>> => IF ph[q[1]] = "queued" THEN a = NoCommand ELSE a = q[1]
Queue(ph, q, a) == Waiting(ph, q) /\ Distinct(q) /\ Unsettled(ph, q) /\ AtFront(ph, q, a)
InLine == Queue(phase, asks, active)

LEMMA AskTypes ==
  ASSUME SessionTypeOK, Calm, InLine, AskMoves, UNCHANGED fault
  PROVE  SessionTypeOK' /\ Calm'
<1> USE SessionAssumption
<1>0. TextOK /\ AskOK /\ TeamOK /\ RestOK /\ GateOK(gate) /\ agent \in AgentSet
  BY TypeParts
<1>a. GateOK(NoGate) /\ NoSnapshots \in [pending : BOOLEAN, running : BOOLEAN, quiet : BOOLEAN]
  BY DEF GateOK, GateSet, NoGate, NoSnapshots
<1>b. ASSUME forwards' = <<>>, buffer' = <<>>, broken' = FALSE, mark' = 0, answerText' = answerText,
             sent' \in [Command -> Seq(1 .. MaxPieces)], dropped' \in [Command -> BOOLEAN]
      PROVE  TextOK'
  <2>1. <<>> \in Seq(1 .. MaxPieces) /\ <<>> \in Seq(Event) /\ 0 \in 0 .. Len(<<>>)
    OBVIOUS
  <2>2. mark' \in 0 .. Len(forwards')
    BY <1>b, <2>1
  <2>3. forwards' \in Seq(Event) /\ buffer' \in Seq(1 .. MaxPieces) /\ broken' \in BOOLEAN
    BY <1>b, <2>1
  <2>4. answerText' \in [Command -> Seq(1 .. MaxPieces)]
    BY <1>0, <1>b DEF TextOK
  <2> QED BY <1>b, <2>2, <2>3, <2>4 DEF TextOK
<1>1. TeamOK' /\ RestOK' /\ teams' = teams
  <2>1. UNCHANGED <<team, teams, child, starter, seenDone, fault>>
    BY DEF AskMoves, Ask, OpenFails, Registers, Delivers, DeliveryFails, FindsIdle, Drained, Awaited, Concludes,
       CleanUpAsk, agentVars, snapVars
  <2>2. (begun' = begun \/ begun' = 0) /\ (early' = early \/ early' = FALSE) /\ (hurt' = hurt \/ hurt' = FALSE)
    BY DEF AskMoves, Ask, OpenFails, Registers, Delivers, DeliveryFails, FindsIdle, Drained, Awaited, Concludes,
       CleanUpAsk, gateVars, callVars
  <2>3. snapshots' = snapshots \/ snapshots' = NoSnapshots
    BY DEF AskMoves, Ask, OpenFails, Registers, Delivers, DeliveryFails, FindsIdle, Drained, Awaited, Concludes,
       CleanUpAsk, snapVars
  <2>4. TeamOK'
    <3>1. begun' \in 0 .. 2
      <4>1. begun \in 0 .. 2 /\ 0 \in 0 .. 2
        BY <1>0 DEF TeamOK
      <4> QED BY <2>2, <4>1
    <3>2. early' \in BOOLEAN
      BY <1>0, <2>2 DEF TeamOK
    <3> QED BY <1>0, <2>1, <3>1, <3>2 DEF TeamOK
  <2> QED BY <1>0, <1>a, <2>1, <2>2, <2>3, <2>4 DEF RestOK
<1>2. GateOK(gate)'
  <2>1. gate' = gate \/ gate' = NoGate
    BY DEF AskMoves, Ask, OpenFails, Registers, Delivers, DeliveryFails, FindsIdle, Drained, Awaited, Concludes,
       CleanUpAsk, gateVars
  <2> QED BY <1>0, <1>a, <2>1 DEF GateOK
<1>3. agent' \in AgentSet /\ agent'.call = agent.call
  <2>1. \/ agent' = agent
        \/ agent' = [agent EXCEPT !.pieces = 0]
        \/ agent' = [agent EXCEPT !.queued = 1]
    BY DEF AskMoves, Ask, OpenFails, Registers, Delivers, DeliveryFails, FindsIdle, Drained, Awaited, Concludes,
       CleanUpAsk, agentVars
  <2>2. 0 \in 0 .. MaxPieces /\ 1 \in 0 .. 1
    OBVIOUS
  <2>3. [agent EXCEPT !.pieces = 0] \in AgentSet /\ [agent EXCEPT !.queued = 1] \in AgentSet
    BY <1>0, <2>2 DEF AgentSet
  <2>4. agent'.call = agent.call
    BY <1>0, <2>1 DEF AgentSet
  <2> QED BY <1>0, <2>1, <2>3, <2>4
<1> DEFINE Idle == (active = NoCommand => /\ mark = 0 /\ forwards = <<>> /\ buffer = <<>>
                                         /\ ~broken /\ ~failing)
                   /\ (broken => mark = 0 /\ forwards = <<>>)
<1>4. ASSUME NEW c \in Command, Ask(c) PROVE TextOK' /\ AskOK' /\ Idle'
  BY <1>0, <1>4 DEF Ask, TextOK, AskOK, AskPhase, Calm, streamVars
<1>5. ASSUME OpenFails PROVE TextOK' /\ AskOK' /\ Idle'
  <2>1. phase' \in [Command -> AskPhase] /\ asks' \in Seq(Command)
    BY <1>0, <1>5 DEF OpenFails, AskOK, AskPhase, NextAsk
  <2> QED BY <1>0, <1>5, <2>1 DEF OpenFails, TextOK, AskOK, Calm, streamVars
<1>6. ASSUME UNCHANGED <<asks, active, streamVars>>, phase' \in [Command -> AskPhase],
             owed' \in [Command -> 0 .. MaxPieces], failing' \in BOOLEAN, active # NoCommand,
             mark' \in {mark, Len(forwards)}
      PROVE  TextOK' /\ AskOK' /\ Idle'
  <2>1. mark' \in 0 .. Len(forwards) /\ UNCHANGED <<forwards, broken, buffer, answerText, sent, dropped>>
    BY <1>0, <1>6 DEF TextOK, streamVars
  <2>2. TextOK'
    BY <1>0, <2>1 DEF TextOK
  <2>3. AskOK'
    BY <1>0, <1>6 DEF AskOK
  <2>4. Idle'
    <3>1. broken => Len(forwards) = 0
      BY DEF Calm
    <3> QED BY <1>6, <2>1, <3>1 DEF Calm
  <2> QED BY <2>2, <2>3, <2>4
<1>7. ASSUME NEW c \in Command, NEW p \in AskPhase PROVE [phase EXCEPT ![c] = p] \in [Command -> AskPhase]
  BY <1>0 DEF AskOK
<1>8. active # NoCommand => active \in Command /\ [owed EXCEPT ![active] = agent.pieces] \in [Command -> 0 .. MaxPieces]
  BY <1>0 DEF AskOK, AgentSet
<1>9. ASSUME Registers PROVE TextOK' /\ AskOK' /\ Idle'
  <2>1. NextAsk \in Command
    BY <1>0, <1>9 DEF Registers, AskOK, NextAsk
  <2>2. phase' \in [Command -> AskPhase]
    BY <2>1, <1>7, <1>9 DEF Registers, AskPhase
  <2>3. AskOK' /\ active' # NoCommand
    BY <1>0, <2>1, <2>2, <1>9 DEF Registers, AskOK
  <2>4. mark = 0
    BY <1>0, <1>9, SeqFacts DEF Registers, InLine, Queue, AtFront, NextAsk, Calm, AskOK
  <2>5. /\ forwards' = <<>> /\ buffer' = <<>> /\ broken' = FALSE /\ mark' = 0
        /\ UNCHANGED <<answerText, sent, dropped>>
    BY <1>9, <2>4 DEF Registers
  <2>6. TextOK'
    BY <1>0, <1>b, <2>5 DEF TextOK
  <2> QED BY <2>3, <2>5, <2>6
<1>10. ASSUME Delivers PROVE TextOK' /\ AskOK' /\ Idle'
  <2>1. phase' \in [Command -> AskPhase]
    BY <1>7, <1>8, <1>10 DEF Delivers, AskPhase
  <2> QED BY <1>0, <1>6, <1>10, <2>1 DEF Delivers, AskOK
<1>11. ASSUME DeliveryFails PROVE TextOK' /\ AskOK' /\ Idle'
  <2>1. phase' \in [Command -> AskPhase]
    BY <1>7, <1>8, <1>11 DEF DeliveryFails, AskPhase
  <2> QED BY <1>0, <1>6, <1>11, <2>1 DEF DeliveryFails, AskOK
<1>12. ASSUME FindsIdle PROVE TextOK' /\ AskOK' /\ Idle'
  <2>1. phase' \in [Command -> AskPhase]
    BY <1>7, <1>8, <1>12 DEF FindsIdle, AskPhase
  <2> QED BY <1>0, <1>6, <1>12, <2>1 DEF FindsIdle, AskOK
<1>13. ASSUME Settles, active # NoCommand PROVE phase' \in [Command -> AskPhase] /\ failing' \in BOOLEAN
  <2>1. phase' = [phase EXCEPT ![active] = "cleaning"] \/ phase' = [phase EXCEPT ![active] = "settling"]
    BY <1>13 DEF Settles
  <2>2. "cleaning" \in AskPhase /\ "settling" \in AskPhase
    BY DEF AskPhase
  <2>3. failing' \in BOOLEAN
    BY <1>0, <1>13 DEF Settles, GateOK, GateSet
  <2> QED BY <1>7, <1>8, <1>13, <2>1, <2>2, <2>3
<1>14. ASSUME Drained PROVE TextOK' /\ AskOK' /\ Idle'
  <2>1. phase' \in [Command -> AskPhase] /\ failing' \in BOOLEAN
    <3>1. CASE Settles
      BY <1>13, <1>14, <3>1 DEF Drained
    <3>2. CASE phase' = [phase EXCEPT ![active] = "cleaning"] /\ failing' = TRUE
      BY <1>7, <1>8, <1>14, <3>2 DEF Drained, AskPhase
    <3>3. CASE phase' = [phase EXCEPT ![active] = "gated"] /\ failing' = failing
      BY <1>0, <1>7, <1>8, <1>14, <3>3 DEF Drained, AskPhase, AskOK
    <3> QED BY <1>14, <3>1, <3>2, <3>3 DEF Drained
  <2>2. owed' \in [Command -> 0 .. MaxPieces] /\ mark' \in {mark, Len(forwards)}
    BY <1>0, <1>8, <1>14 DEF Drained, AskOK
  <2> QED BY <1>6, <1>14, <2>1, <2>2 DEF Drained
<1>15. ASSUME Awaited PROVE TextOK' /\ AskOK' /\ Idle'
  <2>1. phase' \in [Command -> AskPhase] /\ failing' \in BOOLEAN
    BY <1>13, <1>15 DEF Awaited
  <2>2. owed' \in [Command -> 0 .. MaxPieces] /\ mark' \in {mark, Len(forwards)}
    BY <1>8, <1>15 DEF Awaited
  <2> QED BY <1>6, <1>15, <2>1, <2>2 DEF Awaited
<1>16. ASSUME Concludes PROVE TextOK' /\ AskOK' /\ Idle'
  <2>1. phase' \in [Command -> AskPhase] /\ failing' \in BOOLEAN
    BY <1>0, <1>7, <1>8, <1>16 DEF Concludes, AskPhase, TextOK
  <2> QED BY <1>0, <1>6, <1>16, <2>1 DEF Concludes, AskOK
<1>17. ASSUME CleanUpAsk PROVE TextOK' /\ AskOK' /\ Idle'
  <2>1. phase' \in [Command -> AskPhase]
    <3>1. phase' = [phase EXCEPT ![active] = "failed"] \/ phase' = [phase EXCEPT ![active] = "answered"]
      BY <1>17 DEF CleanUpAsk
    <3>2. "failed" \in AskPhase /\ "answered" \in AskPhase
      BY DEF AskPhase
    <3> QED BY <1>7, <1>8, <1>17, <3>1, <3>2 DEF CleanUpAsk
  <2>2. asks # <<>>
    BY <1>17 DEF CleanUpAsk, InLine, Queue, AtFront
  <2>3. AskOK' /\ active' = NoCommand
    <3>1. asks' \in Seq(Command)
      BY <1>0, <1>17, <2>2 DEF CleanUpAsk, AskOK
    <3>2. active' = NoCommand /\ failing' = FALSE /\ owed' = owed
      BY <1>17 DEF CleanUpAsk
    <3> QED BY <1>0, <2>1, <3>1, <3>2 DEF AskOK
  <2>4. /\ forwards' = <<>> /\ buffer' = <<>> /\ broken' = FALSE /\ mark' = 0 /\ failing' = FALSE
        /\ answerText' = answerText
    BY <1>17 DEF CleanUpAsk
  <2>5. sent' \in [Command -> Seq(1 .. MaxPieces)] /\ dropped' \in [Command -> BOOLEAN]
    <3>1. active \in Command /\ sent[active] \o buffer \in Seq(1 .. MaxPieces)
      BY <1>0, <1>8, <1>17 DEF CleanUpAsk, TextOK
    <3>2. sent' = sent \/ sent' = [sent EXCEPT ![active] = sent[active] \o buffer]
      BY <1>17 DEF CleanUpAsk
    <3>3. dropped' = dropped \/ dropped' = [dropped EXCEPT ![active] = TRUE]
      BY <1>17 DEF CleanUpAsk
    <3> QED BY <1>0, <3>1, <3>2, <3>3 DEF TextOK
  <2>6. TextOK'
    BY <1>0, <1>b, <2>4, <2>5 DEF TextOK
  <2> QED BY <2>3, <2>4, <2>6
<1>18. TextOK' /\ AskOK' /\ Idle'
  BY <1>4, <1>5, <1>9, <1>10, <1>11, <1>12, <1>14, <1>15, <1>16, <1>17 DEF AskMoves
<1>19. Calm'
  BY <1>1, <1>3, <1>18 DEF Calm
<1>20. SessionTypeOK'
  BY <1>1, <1>2, <1>3, <1>18, TypeAfter
<1> QED BY <1>19, <1>20

\* What Forward makes of the first event: text is emitted with what was buffered,
\* or buffered, or lost to an emitter that throws.
TextMoves(e) ==
  LET text == IF e.kind = "chunk" THEN Append(buffer, e.piece) ELSE buffer IN
  /\ answerText' = IF e.kind = "chunk" THEN [answerText EXCEPT ![active] = Append(@, e.piece)] ELSE answerText
  /\ \/ sent' = [sent EXCEPT ![active] = @ \o text] /\ buffer' = <<>> /\ dropped' = dropped
     \/ sent' = sent /\ buffer' = text /\ dropped' = dropped
     \/ /\ sent' = sent /\ buffer' = <<>> /\ broken' = TRUE
        /\ dropped' = [dropped EXCEPT ![active] = TRUE]

LEMMA ForwardShape ==
  ASSUME SessionTypeOK, Forward
  PROVE  /\ Head(forwards) \in Event /\ broken' \in BOOLEAN
         /\ active \in Command /\ forwards # <<>> /\ ~broken
         /\ TextMoves(Head(forwards))
         /\ forwards' = IF broken' THEN <<>> ELSE Tail(forwards)
         /\ mark' = IF broken' \/ mark = 0 THEN 0 ELSE mark - 1
         /\ UNCHANGED <<asks, active, failing, owed, agentVars, callVars, seenDone>>
         /\ \/ UNCHANGED <<phase, gate, hurt>>
            \/ GateBecomes(Observe(gate, Head(forwards)))
         /\ snapshots' \in {snapshots, AskForSnapshot(snapshots)}
<1> DEFINE e == Head(forwards)
<1>1. e \in Event /\ active \in Command /\ forwards # <<>> /\ ~broken
  BY DEF Forward, SessionTypeOK
<1>2. CASE e.kind = "chunk"
  <2>0. ForwardChunk(e)
    BY <1>2 DEF Forward
  <2>1. \/ Emit(Append(buffer, e.piece)) /\ buffer' = <<>>
        \/ buffer' = Append(buffer, e.piece) /\ UNCHANGED <<sent, broken, dropped>>
    BY <2>0 DEF ForwardChunk, AppendPiece
  <2>2. TextMoves(e) /\ (broken' = broken \/ broken' = TRUE)
    BY <1>2, <2>0, <2>1 DEF ForwardChunk, TextMoves, Emit
  <2>3. UNCHANGED <<phase, gate, hurt, snapshots>>
    BY <2>0 DEF ForwardChunk
  <2>4. broken' \in BOOLEAN
    BY <2>2 DEF SessionTypeOK
  <2> QED BY <1>1, <2>2, <2>3, <2>4 DEF Forward
<1>3. CASE e.kind # "chunk"
  <2>0. ForwardOther(e)
    BY <1>3 DEF Forward
  <2>1. CASE FlushFails(e)
    <3>1. TextMoves(e) /\ broken' = TRUE
      BY <1>3, <2>0, <2>1 DEF ForwardOther, FlushFails, TextMoves
    <3> QED BY <1>1, <2>1, <3>1 DEF Forward, FlushFails
  <2>2. CASE ~FlushFails(e)
    <3>1. /\ sent' = IF Flushes(e) THEN [sent EXCEPT ![active] = @ \o buffer] ELSE sent
          /\ buffer' = IF Flushes(e) THEN <<>> ELSE buffer
          /\ broken' \in {FALSE, fault = "emit_error"}
          /\ GateBecomes(Observe(gate, e))
          /\ snapshots' = IF broken' THEN snapshots ELSE AskForSnapshot(snapshots)
          /\ dropped' = dropped /\ answerText' = answerText
      BY <2>0, <2>2 DEF ForwardOther
    <3>2. TextMoves(e)
      BY <1>3, <3>1 DEF TextMoves
    <3>3. broken' \in BOOLEAN
      BY <3>1
    <3> QED BY <1>1, <3>1, <3>2, <3>3 DEF Forward
  <2> QED BY <2>1, <2>2
<1> QED BY <1>2, <1>3

\* The gate's timer, a cancellation and the snapshots touch no text.
OtherMoves == GateTimesOut \/ Cancel \/ SnapshotReads \/ SnapshotEnds

LEMMA OtherShape ==
  ASSUME SessionTypeOK, OtherMoves
  PROVE  /\ UNCHANGED <<asks, active, mark, failing, owed, streamVars, callVars, team, teams, child, starter>>
         /\ agent' \in AgentSet /\ agent'.pieces = agent.pieces /\ agent'.call = agent.call
         /\ seenDone' \in BOOLEAN
         /\ snapshots' \in [pending : BOOLEAN, running : BOOLEAN, quiet : BOOLEAN]
         /\ UNCHANGED <<phase, gate, hurt>> \/ \E g : GateOK(g) /\ GateBecomes(g)
<1>0. TextOK /\ AskOK /\ TeamOK /\ RestOK /\ GateOK(gate) /\ agent \in AgentSet
  BY TypeParts
<1>1. TRUE \in BOOLEAN /\ GateOK(FinishGate(gate, TRUE)) /\ GateOK(CompleteRetained(gate))
  BY <1>0, FinishOK, CompleteOK
<1>2. CASE GateTimesOut
  BY <1>0, <1>1, <1>2 DEF GateTimesOut, agentVars, snapVars, TeamOK, RestOK
<1>3. CASE Cancel
  <2>1. agent' = [agent EXCEPT !.cancelled = agent.running]
    BY <1>3 DEF Cancel
  <2>2. agent' \in AgentSet /\ agent'.pieces = agent.pieces /\ agent'.call = agent.call
    BY <1>0, <2>1 DEF AgentSet
  <2> QED BY <1>0, <1>1, <1>3, <2>2 DEF Cancel, snapVars, TeamOK, RestOK
<1>4. CASE SnapshotReads
  <2>1. seenDone' \in BOOLEAN
    BY <1>0, <1>4 DEF SnapshotReads, TeamOK
  <2>2. snapshots' \in [pending : BOOLEAN, running : BOOLEAN, quiet : BOOLEAN]
    BY <1>4 DEF SnapshotReads
  <2> QED BY <1>0, <1>4, <2>1, <2>2 DEF SnapshotReads, agentVars, askVars, gateVars
<1>5. CASE SnapshotEnds
  <2>1. snapshots' \in [pending : BOOLEAN, running : BOOLEAN, quiet : BOOLEAN]
    BY <1>0, <1>5 DEF SnapshotEnds, RestOK
  <2>2. \E g : GateOK(g) /\ GateBecomes(g)
    BY <1>0, <1>1, <1>5 DEF SnapshotEnds
  <2> QED BY <1>0, <1>5, <2>1, <2>2 DEF SnapshotEnds, agentVars, TeamOK
<1> QED BY <1>2, <1>3, <1>4, <1>5 DEF OtherMoves

LEMMA ForwardTypes ==
  ASSUME SessionTypeOK, Calm, Forward, UNCHANGED fault
  PROVE  SessionTypeOK' /\ Calm'
<1> DEFINE e == Head(forwards)
<1>0. TextOK /\ AskOK /\ TeamOK /\ RestOK /\ GateOK(gate) /\ agent \in AgentSet
  BY TypeParts
<1>1. /\ e \in Event /\ broken' \in BOOLEAN /\ active \in Command /\ forwards # <<>> /\ ~broken
      /\ TextMoves(e)
      /\ forwards' = IF broken' THEN <<>> ELSE Tail(forwards)
      /\ mark' = IF broken' \/ mark = 0 THEN 0 ELSE mark - 1
      /\ UNCHANGED <<asks, active, failing, owed, agentVars, callVars, seenDone>>
      /\ UNCHANGED <<phase, gate, hurt>> \/ GateBecomes(Observe(gate, e))
      /\ snapshots' \in {snapshots, AskForSnapshot(snapshots)}
  BY ForwardShape
<1>2. forwards' \in Seq(Event) /\ mark' \in 0 .. Len(forwards')
  <2>1. CASE broken'
    <3>1. <<>> \in Seq(Event) /\ 0 \in 0 .. Len(<<>>)
      OBVIOUS
    <3> QED BY <1>1, <2>1, <3>1
  <2>2. CASE ~broken'
    <3>1. Tail(forwards) \in Seq(Event) /\ Len(Tail(forwards)) = Len(forwards) - 1 /\ Len(forwards) \in Nat
          /\ Len(forwards) > 0
      BY <1>0, <1>1 DEF TextOK
    <3> QED BY <1>0, <1>1, <2>2, <3>1 DEF TextOK
  <2> QED BY <2>1, <2>2
<1>3. /\ buffer' \in Seq(1 .. MaxPieces) /\ dropped' \in [Command -> BOOLEAN]
      /\ answerText' \in [Command -> Seq(1 .. MaxPieces)] /\ sent' \in [Command -> Seq(1 .. MaxPieces)]
  <2> DEFINE text == IF e.kind = "chunk" THEN Append(buffer, e.piece) ELSE buffer
  <2>1. text \in Seq(1 .. MaxPieces)
    <3>1. buffer \in Seq(1 .. MaxPieces) /\ (e.kind = "chunk" => e.piece \in 1 .. MaxPieces)
      BY <1>0, <1>1, EventFields DEF TextOK
    <3>2. CASE e.kind = "chunk"
      <4>1. Append(buffer, e.piece) \in Seq(1 .. MaxPieces)
        BY <3>1, <3>2, AppendFacts
      <4> QED BY <3>2, <4>1
    <3>3. CASE e.kind # "chunk"
      BY <3>1, <3>3
    <3> QED BY <3>2, <3>3
  <2>2. e.kind = "chunk" => Append(answerText[active], e.piece) \in Seq(1 .. MaxPieces)
    BY <1>0, <1>1, EventFields DEF TextOK
  <2>3. sent[active] \o text \in Seq(1 .. MaxPieces)
    BY <1>0, <1>1, <2>1 DEF TextOK
  <2>4. answerText' \in [Command -> Seq(1 .. MaxPieces)]
    <3>1. answerText' = answerText \/ (e.kind = "chunk" /\ answerText' = [answerText EXCEPT ![active] = Append(answerText[active], e.piece)])
      BY <1>1 DEF TextMoves
    <3> QED BY <1>0, <1>1, <2>2, <3>1 DEF TextOK
  <2>5. /\ sent' = sent \/ sent' = [sent EXCEPT ![active] = sent[active] \o text]
        /\ buffer' = <<>> \/ buffer' = text
        /\ dropped' = dropped \/ dropped' = [dropped EXCEPT ![active] = TRUE]
    BY <1>1 DEF TextMoves
  <2> HIDE DEF text
  <2>6. <<>> \in Seq(1 .. MaxPieces)
    OBVIOUS
  <2>7. sent' \in [Command -> Seq(1 .. MaxPieces)]
    BY <1>0, <1>1, <2>3, <2>5 DEF TextOK
  <2>8. dropped' \in [Command -> BOOLEAN]
    BY <1>0, <1>1, <2>5 DEF TextOK
  <2> QED BY <2>1, <2>4, <2>5, <2>6, <2>7, <2>8
<1>4. TextOK'
  BY <1>1, <1>2, <1>3 DEF TextOK
<1>5. phase' \in [Command -> AskPhase] /\ GateOK(gate)' /\ hurt' \in BOOLEAN
  <2>1. CASE UNCHANGED <<phase, gate, hurt>>
    BY <1>0, <2>1 DEF AskOK, RestOK
  <2>2. CASE GateBecomes(Observe(gate, e))
    BY <1>0, <1>1, <2>2, ObserveOK, GateShape
  <2> QED BY <1>1, <2>1, <2>2
<1>6. AskOK'
  BY <1>0, <1>1, <1>5 DEF AskOK
<1>7. TeamOK' /\ agent' = agent /\ teams' = teams
  BY <1>0, <1>1 DEF TeamOK, agentVars, callVars
<1>8. RestOK'
  <2>1. AskForSnapshot(snapshots) \in [pending : BOOLEAN, running : BOOLEAN, quiet : BOOLEAN]
    BY <1>0 DEF RestOK, AskForSnapshot
  <2> QED BY <1>0, <1>1, <1>5, <2>1 DEF RestOK
<1>9. SessionTypeOK'
  BY <1>0, <1>4, <1>5, <1>6, <1>7, <1>8, TypeAfter
<1>10. Calm'
  <2>1. active' # NoCommand
    BY <1>1, SessionAssumption
  <2>2. broken' => mark' = 0 /\ forwards' = <<>>
    BY <1>1
  <2> QED BY <1>7, <2>1, <2>2 DEF Calm
<1> QED BY <1>9, <1>10

LEMMA OtherTypes ==
  ASSUME SessionTypeOK, Calm, OtherMoves, UNCHANGED fault
  PROVE  SessionTypeOK' /\ Calm'
<1>0. TextOK /\ AskOK /\ TeamOK /\ RestOK /\ GateOK(gate) /\ agent \in AgentSet
  BY TypeParts
<1>1. /\ UNCHANGED <<asks, active, mark, failing, owed, streamVars, callVars, team, teams, child, starter>>
      /\ agent' \in AgentSet /\ agent'.call = agent.call
      /\ seenDone' \in BOOLEAN
      /\ snapshots' \in [pending : BOOLEAN, running : BOOLEAN, quiet : BOOLEAN]
      /\ UNCHANGED <<phase, gate, hurt>> \/ \E g : GateOK(g) /\ GateBecomes(g)
  BY OtherShape
<1>2. phase' \in [Command -> AskPhase] /\ GateOK(gate)' /\ hurt' \in BOOLEAN
  <2>1. CASE UNCHANGED <<phase, gate, hurt>>
    BY <1>0, <2>1 DEF AskOK, RestOK
  <2>2. ASSUME NEW g, GateOK(g), GateBecomes(g) PROVE phase' \in [Command -> AskPhase] /\ GateOK(gate)' /\ hurt' \in BOOLEAN
    BY <2>2, GateShape
  <2> QED BY <1>1, <2>1, <2>2
<1>3. TextOK' /\ Calm'
  BY <1>0, <1>1 DEF TextOK, Calm, streamVars
<1>4. AskOK'
  BY <1>0, <1>1, <1>2 DEF AskOK
<1>5. TeamOK' /\ RestOK'
  BY <1>0, <1>1, <1>2 DEF TeamOK, RestOK, callVars
<1> QED BY <1>0, <1>1, <1>2, <1>3, <1>4, <1>5, TypeAfter

\* Phases in which a command has left the queue and is not settled.
AtWork == AskPhase \ (AskSettled \cup {"new", "queued"})

LEMMA QueueWorks ==
  ASSUME NEW ph \in [Command -> AskPhase], NEW q \in Seq(Command), NEW a, Queue(ph, q, a), a # NoCommand,
         NEW p \in AtWork
  PROVE  Queue([ph EXCEPT ![a] = p], q, a)
<1> DEFINE ph2 == [ph EXCEPT ![a] = p]
<1>1. q # <<>> /\ Len(q) \in Nat /\ Len(q) > 0 /\ q[1] \in Command /\ \A i \in 1 .. Len(q) : q[i] \in Command
  <2>1. q # <<>>
    BY DEF Queue, Waiting, Distinct, Unsettled, AtFront
  <2> QED BY <2>1, SeqFacts
<1>2. a = q[1] /\ ph[a] # "queued" /\ ph[a] \notin AskSettled \cup {"new"}
  <2>1. 1 \in 1 .. Len(q)
    BY <1>1
  <2>2. ph[q[1]] \notin AskSettled \cup {"new"}
    BY <2>1 DEF Queue, Waiting
  <2>3. a = q[1] /\ ph[q[1]] # "queued"
    BY <1>1 DEF Queue, AtFront
  <2> QED BY <2>2, <2>3
<1>3. p \notin AskSettled \cup {"new"} /\ p # "queued"
  BY DEF AtWork
<1>4. ph2[a] = p /\ \A c \in Command : c # a => ph2[c] = ph[c]
  BY <1>1, <1>2
<1> HIDE DEF ph2
<1>5. \A i \in 1 .. Len(q) : i > 1 => q[i] # a
  BY <1>1, <1>2 DEF Queue, Waiting, Distinct, Unsettled, AtFront
<1>6. \A i \in 1 .. Len(q) : /\ ph2[q[i]] \notin AskSettled \cup {"new"}
                             /\ i > 1 => ph2[q[i]] = "queued"
  BY <1>1, <1>3, <1>4, <1>5 DEF Queue, Waiting, Distinct, Unsettled, AtFront
<1>7. \A c \in Command : ph2[c] \notin AskSettled \cup {"new"} => \E i \in 1 .. Len(q) : q[i] = c
  BY <1>1, <1>2, <1>4 DEF Queue, Waiting, Distinct, Unsettled, AtFront
<1>8. \A i, j \in 1 .. Len(q) : q[i] = q[j] => i = j
  BY DEF Queue, Waiting, Distinct, Unsettled, AtFront
<1>9. Waiting(ph2, q) /\ Unsettled(ph2, q) /\ Distinct(q)
  BY <1>6, <1>7, <1>8 DEF Waiting, Unsettled, Distinct
<1>10. AtFront(ph2, q, a)
  BY <1>1, <1>2, <1>3, <1>4 DEF AtFront
<1> QED BY <1>9, <1>10 DEF ph2, Queue

\* The first command of the queue is settled.
LEMMA QueueLeaves ==
  ASSUME NEW ph \in [Command -> AskPhase], NEW q \in Seq(Command), NEW a, Queue(ph, q, a), q # <<>>,
         NEW p \in AskSettled
  PROVE  Queue([ph EXCEPT ![q[1]] = p], Tail(q), NoCommand)
<1> DEFINE ph2 == [ph EXCEPT ![q[1]] = p]
           q2 == Tail(q)
<1>1. Len(q) \in Nat /\ Len(q) > 0 /\ q[1] \in Command /\ \A i \in 1 .. Len(q) : q[i] \in Command
  BY SeqFacts
<1>2. q2 \in Seq(Command) /\ Len(q2) = Len(q) - 1 /\ \A i \in 1 .. Len(q2) : q2[i] = q[i + 1]
  BY SeqFacts
<1>3. ph2[q[1]] = p /\ \A c \in Command : c # q[1] => ph2[c] = ph[c]
  BY <1>1
<1> HIDE DEF ph2, q2
<1>4. \A i \in 1 .. Len(q) : i > 1 => q[i] # q[1] /\ ph[q[i]] = "queued"
  <2> TAKE i \in 1 .. Len(q)
  <2>1. 1 \in 1 .. Len(q)
    BY <1>1
  <2>2. i > 1 => q[i] # q[1]
    BY <2>1 DEF Queue, Distinct
  <2>3. i > 1 => ph[q[i]] = "queued"
    BY DEF Queue, Waiting
  <2> QED BY <2>2, <2>3
<1>5. \A i \in 1 .. Len(q2) : ph2[q2[i]] = "queued"
  <2> TAKE i \in 1 .. Len(q2)
  <2>1. i + 1 \in 1 .. Len(q) /\ i + 1 > 1
    BY <1>1, <1>2
  <2> QED BY <1>1, <1>2, <1>3, <1>4, <2>1
<1>6. \A i, j \in 1 .. Len(q2) : q2[i] = q2[j] => i = j
  <2> TAKE i, j \in 1 .. Len(q2)
  <2>1. i + 1 \in 1 .. Len(q) /\ j + 1 \in 1 .. Len(q)
    BY <1>1, <1>2
  <2>2. q[i + 1] = q[j + 1] => i + 1 = j + 1
    BY <2>1 DEF Queue, Waiting, Distinct, Unsettled, AtFront
  <2> QED BY <1>1, <1>2, <2>2
<1>7. ASSUME NEW c \in Command, ph2[c] \notin AskSettled \cup {"new"}
      PROVE  \E i \in 1 .. Len(q2) : q2[i] = c
  <2>1. c # q[1] /\ ph[c] \notin AskSettled \cup {"new"}
    BY <1>3, <1>7
  <2>2. PICK i \in 1 .. Len(q) : q[i] = c
    BY <2>1 DEF Queue, Waiting, Distinct, Unsettled, AtFront
  <2>3. i - 1 \in 1 .. Len(q2) /\ (i - 1) + 1 = i
    BY <1>1, <1>2, <2>1, <2>2
  <2> QED BY <1>2, <2>2, <2>3
<1>8. q2 # <<>> => ph2[q2[1]] = "queued"
  <2>1. q2 # <<>> => Len(q2) \in Nat /\ Len(q2) > 0
    BY <1>2, SeqFacts
  <2> QED BY <1>5, <2>1
<1>9. "queued" \notin AskSettled \cup {"new"}
  BY DEF AskSettled
<1>10. Waiting(ph2, q2) /\ Distinct(q2) /\ Unsettled(ph2, q2)
  BY <1>5, <1>6, <1>7, <1>9 DEF Waiting, Distinct, Unsettled
<1>11. AtFront(ph2, q2, NoCommand)
  BY <1>8 DEF AtFront
<1> QED BY <1>10, <1>11 DEF ph2, q2, Queue

\* A new command takes its place at the end.
LEMMA QueueJoins ==
  ASSUME NEW ph \in [Command -> AskPhase], NEW q \in Seq(Command), NEW a, Queue(ph, q, a),
         NEW c \in Command, ph[c] = "new"
  PROVE  Queue([ph EXCEPT ![c] = "queued"], Append(q, c), a)
<1> DEFINE ph2 == [ph EXCEPT ![c] = "queued"]
           q2 == Append(q, c)
<1>1. Len(q) \in Nat /\ (q # <<>> => Len(q) > 0) /\ \A i \in 1 .. Len(q) : q[i] \in Command
  BY SeqFacts
<1>2. q2 # <<>> /\ Len(q2) = Len(q) + 1 /\ q2[Len(q) + 1] = c /\ \A i \in 1 .. Len(q) : q2[i] = q[i]
  BY AppendFacts
<1>3. ph2[c] = "queued" /\ \A d \in Command : d # c => ph2[d] = ph[d]
  OBVIOUS
<1> HIDE DEF ph2, q2
<1>4. \A i \in 1 .. Len(q) : q[i] # c
  BY DEF Queue, Waiting
<1>5. "queued" \notin AskSettled \cup {"new"}
  BY DEF AskSettled
<1>6. \A i \in 1 .. Len(q2) : i \in 1 .. Len(q) \/ i = Len(q) + 1
  BY <1>1, <1>2
<1>7. \A i \in 1 .. Len(q2) : /\ ph2[q2[i]] \notin AskSettled \cup {"new"}
                              /\ i > 1 => ph2[q2[i]] = "queued"
  BY <1>1, <1>2, <1>3, <1>4, <1>5, <1>6 DEF Queue, Waiting, Distinct, Unsettled, AtFront
<1>8. \A i, j \in 1 .. Len(q2) : q2[i] = q2[j] => i = j
  BY <1>1, <1>2, <1>4, <1>6 DEF Queue, Waiting, Distinct, Unsettled, AtFront
<1>9. ASSUME NEW d \in Command, ph2[d] \notin AskSettled \cup {"new"} PROVE \E i \in 1 .. Len(q2) : q2[i] = d
  <2>1. CASE d = c
    <3>1. Len(q) + 1 \in 1 .. Len(q2)
      BY <1>1, <1>2
    <3> QED BY <1>2, <2>1, <3>1
  <2>2. CASE d # c
    <3>1. PICK i \in 1 .. Len(q) : q[i] = d
      BY <1>3, <1>9, <2>2 DEF Queue, Waiting, Distinct, Unsettled, AtFront
    <3>2. i \in 1 .. Len(q2)
      BY <1>1, <1>2
    <3> QED BY <1>2, <3>1, <3>2
  <2> QED BY <2>1, <2>2
<1>10. IF ph2[q2[1]] = "queued" THEN a = NoCommand ELSE a = q2[1]
  <2>1. CASE q = <<>>
    <3>1. Len(q) = 0
      BY <2>1
    <3> QED BY <1>2, <1>3, <2>1, <3>1 DEF Queue, Waiting, Distinct, Unsettled, AtFront
  <2>2. CASE q # <<>>
    <3>1. 1 \in 1 .. Len(q)
      BY <1>1, <2>2
    <3> QED BY <1>1, <1>2, <1>3, <1>4, <2>2, <3>1 DEF Queue, Waiting, Distinct, Unsettled, AtFront
  <2> QED BY <2>1, <2>2
<1>11. Waiting(ph2, q2) /\ Distinct(q2)
  BY <1>7, <1>8 DEF Waiting, Distinct
<1>12. Unsettled(ph2, q2)
  BY <1>9 DEF Unsettled
<1>13. AtFront(ph2, q2, a)
  BY <1>2, <1>10 DEF AtFront
<1> QED BY <1>11, <1>12, <1>13 DEF ph2, q2, Queue

\* The first command of the queue becomes active.
LEMMA QueueBegins ==
  ASSUME NEW ph \in [Command -> AskPhase], NEW q \in Seq(Command), NEW a, Queue(ph, q, a), q # <<>>
  PROVE  Queue([ph EXCEPT ![q[1]] = "delivering"], q, q[1])
<1> DEFINE ph2 == [ph EXCEPT ![q[1]] = "delivering"]
<1>2. Len(q) \in Nat /\ Len(q) > 0 /\ q[1] \in Command /\ \A i \in 1 .. Len(q) : q[i] \in Command
  BY SeqFacts
<1>3. ph2[q[1]] = "delivering" /\ \A c \in Command : c # q[1] => ph2[c] = ph[c]
  BY <1>2
<1> HIDE DEF ph2
<1>4. \A i \in 1 .. Len(q) : i > 1 => q[i] # q[1] /\ ph[q[i]] = "queued"
  <2> TAKE i \in 1 .. Len(q)
  <2>1. 1 \in 1 .. Len(q)
    BY <1>2
  <2>2. i > 1 => q[i] # q[1]
    BY <2>1 DEF Queue, Distinct
  <2>3. i > 1 => ph[q[i]] = "queued"
    BY DEF Queue, Waiting
  <2> QED BY <2>2, <2>3
<1>5. "queued" \notin AskSettled \cup {"new"} /\ "delivering" \notin AskSettled \cup {"new"}
  BY DEF AskSettled
<1>6. \A i \in 1 .. Len(q) : /\ ph2[q[i]] \notin AskSettled \cup {"new"}
                             /\ i > 1 => ph2[q[i]] = "queued"
  BY <1>2, <1>3, <1>4, <1>5
<1>7. \A c \in Command : ph2[c] \notin AskSettled \cup {"new"} => \E i \in 1 .. Len(q) : q[i] = c
  <2>1. 1 \in 1 .. Len(q)
    BY <1>2
  <2> QED BY <1>3, <2>1 DEF Queue, Waiting, Distinct, Unsettled, AtFront
<1>8. \A i, j \in 1 .. Len(q) : q[i] = q[j] => i = j
  BY DEF Queue, Waiting, Distinct, Unsettled, AtFront
<1>9. Waiting(ph2, q) /\ Distinct(q) /\ Unsettled(ph2, q)
  BY <1>6, <1>7, <1>8 DEF Waiting, Distinct, Unsettled
<1>10. AtFront(ph2, q, q[1])
  BY <1>3 DEF AtFront
<1> QED BY <1>9, <1>10 DEF ph2, Queue

LEMMA InLineAsk ==
  ASSUME SessionTypeOK, InLine, AskMoves
  PROVE  InLine'
<1> USE SessionAssumption
<1>0. phase \in [Command -> AskPhase] /\ asks \in Seq(Command) /\ Queue(phase, asks, active)
  BY DEF SessionTypeOK, InLine
<1>1. asks # <<>> => NextAsk = asks[1]
  BY <1>0, SeqFacts DEF NextAsk
<1>2. active # NoCommand => asks # <<>> /\ active = asks[1]
  BY <1>0 DEF Queue, Waiting, Distinct, Unsettled, AtFront
<1>3. ASSUME NEW c \in Command, Ask(c) PROVE InLine'
  BY <1>0, <1>3, QueueJoins DEF Ask, InLine
<1>4. ASSUME OpenFails PROVE InLine'
  <2>1. "failed" \in AskSettled /\ active = NoCommand
    BY <1>0, <1>1, <1>4 DEF AskSettled, OpenFails, Queue, Waiting, Distinct, Unsettled, AtFront
  <2> QED BY <1>0, <1>1, <1>4, <2>1, QueueLeaves DEF OpenFails, InLine
<1>5. ASSUME Registers PROVE InLine'
  BY <1>0, <1>1, <1>5, QueueBegins DEF Registers, InLine
<1>6. ASSUME CleanUpAsk PROVE InLine'
  <2>1. PICK p \in AskSettled : phase' = [phase EXCEPT ![asks[1]] = p]
    BY <1>2, <1>6 DEF CleanUpAsk, AskSettled
  <2>2. asks # <<>> /\ asks' = Tail(asks) /\ active' = NoCommand
    BY <1>2, <1>6 DEF CleanUpAsk
  <2> QED BY <1>0, <2>1, <2>2, QueueLeaves DEF InLine
<1>7. ASSUME Delivers \/ DeliveryFails \/ FindsIdle \/ Drained \/ Awaited \/ Concludes PROVE InLine'
  <2>1. active # NoCommand /\ UNCHANGED <<asks, active>>
    BY <1>7 DEF Delivers, DeliveryFails, FindsIdle, Drained, Awaited, Concludes
  <2>2. \E p \in {"running", "cleaning", "draining", "gated", "settling"} : phase' = [phase EXCEPT ![active] = p]
    BY <1>7 DEF Delivers, DeliveryFails, FindsIdle, Drained, Awaited, Concludes, Settles
  <2>3. {"running", "cleaning", "draining", "gated", "settling"} \subseteq AtWork
    BY DEF AtWork, AskPhase, AskSettled
  <2>4. PICK p \in AtWork : phase' = [phase EXCEPT ![active] = p]
    BY <2>2, <2>3
  <2> QED BY <1>0, <2>1, <2>4, QueueWorks DEF InLine
<1> QED BY <1>3, <1>4, <1>5, <1>6, <1>7 DEF AskMoves

LEMMA InLineGate ==
  ASSUME SessionTypeOK, InLine, UNCHANGED <<asks, active>>,
         phase' = phase \/ \E g : GateOK(g) /\ GateBecomes(g)
  PROVE  InLine'
<1>0. phase \in [Command -> AskPhase] /\ asks \in Seq(Command) /\ Queue(phase, asks, active)
  BY DEF SessionTypeOK, InLine
<1>1. "waking" \in AtWork
  BY DEF AtWork, AskPhase, AskSettled
<1>2. CASE phase' = phase
  BY <1>2 DEF InLine
<1>3. ASSUME NEW g, GateOK(g), GateBecomes(g) PROVE InLine'
  <2>1. phase' = phase \/ (active # NoCommand /\ phase' = [phase EXCEPT ![active] = "waking"])
    BY <1>3 DEF GateBecomes
  <2> QED BY <1>0, <1>1, <1>2, <2>1, QueueWorks DEF InLine
<1> QED BY <1>2, <1>3

LEMMA InLineStart == SessionInit => InLine
<1> SUFFICES ASSUME SessionInit PROVE InLine
  OBVIOUS
<1>1. asks = <<>> /\ active = NoCommand /\ \A c \in Command : phase[c] = "new"
  BY DEF SessionInit
<1>2. \A i \in 1 .. Len(asks) : FALSE
  BY <1>1
<1> QED BY <1>1, <1>2 DEF InLine, Queue, Waiting, Distinct, Unsettled, AtFront

\* Between them the steps of a session.
LEMMA SessionMoves ==
  ASSUME SessionNext
  PROVE  UNCHANGED fault /\ (AgentActs \/ AskMoves \/ Forward \/ OtherMoves)
BY DEF SessionNext, SessionStep, AskMoves, OtherMoves

SessionInv == SessionTypeOK /\ Calm /\ InLine

LEMMA SessionInvStep ==
  ASSUME SessionInv, [SessionNext]_sessionVars
  PROVE  SessionInv'
<1> USE DEF SessionInv
<1>1. CASE UNCHANGED sessionVars
  <2>1. UNCHANGED <<phase, asks, active>>
    BY <1>1 DEF sessionVars, stepVars, askVars
  <2>2. SessionTypeOK' /\ Calm'
    BY <1>1 DEF SessionTypeOK, Calm, sessionVars, stepVars, askVars, agentVars, streamVars, callVars, gateVars, snapVars
  <2> QED BY <2>1, <2>2, InLineGate
<1>2. ASSUME AgentActs, UNCHANGED fault PROVE SessionInv'
  <2>1. UNCHANGED <<phase, asks, active>>
    BY <1>2, AgentShape DEF AgentMoves, askVars
  <2> QED BY <1>2, <2>1, AgentTypes, InLineGate
<1>3. ASSUME AskMoves, UNCHANGED fault PROVE SessionInv'
  BY <1>3, AskTypes, InLineAsk
<1>4. ASSUME Forward, UNCHANGED fault PROVE SessionInv'
  <2>1. SessionTypeOK' /\ Calm'
    BY <1>4, ForwardTypes
  <2>2. Head(forwards) \in Event /\ UNCHANGED <<asks, active>> /\ (phase' = phase \/ GateBecomes(Observe(gate, Head(forwards))))
    BY <1>4, ForwardShape
  <2>3. GateOK(Observe(gate, Head(forwards)))
    BY <2>2, TypeParts, ObserveOK
  <2> QED BY <2>1, <2>2, <2>3, InLineGate
<1>5. ASSUME OtherMoves, UNCHANGED fault PROVE SessionInv'
  <2>1. SessionTypeOK' /\ Calm'
    BY <1>5, OtherTypes
  <2>2. UNCHANGED <<asks, active>> /\ (phase' = phase \/ \E g : GateOK(g) /\ GateBecomes(g))
    BY <1>5, OtherShape
  <2> QED BY <2>1, <2>2, InLineGate
<1> QED BY <1>1, <1>2, <1>3, <1>4, <1>5, SessionMoves

\* Commands of one session run one at a time, in the order they were asked.
THEOREM SessionInLine == SessionSpec => [](SessionTypeOK /\ OneAtATime)
<1>1. SessionInit => SessionInv
  BY SessionStart, InLineStart DEF SessionInv
<1>2. SessionInv => SessionTypeOK /\ OneAtATime
  <2> SUFFICES ASSUME SessionInv PROVE OneAtATime
    BY DEF SessionInv
  <2>0. asks \in Seq(Command)
    BY DEF SessionInv, SessionTypeOK
  <2>1. Len(asks) \in Nat /\ DOMAIN asks = 1 .. Len(asks) /\ (asks # <<>> => Head(asks) = asks[1])
    BY <2>0, SeqFacts
  <2>2. \A i \in 2 .. Len(asks) : i \in 1 .. Len(asks) /\ i > 1
    BY <2>1
  <2>3. \A i \in 2 .. Len(asks) : phase[asks[i]] = "queued"
    BY <2>2 DEF SessionInv, InLine, Queue, Waiting
  <2>4. \A c \in Command : phase[c] \notin AskSettled \cup {"new"} => c \in {asks[i] : i \in DOMAIN asks}
    BY <2>1 DEF SessionInv, InLine, Queue, Unsettled
  <2>5. active # NoCommand => asks # <<>> /\ active = Head(asks)
    BY <2>1 DEF SessionInv, InLine, Queue, AtFront
  <2> QED BY <2>3, <2>4, <2>5 DEF OneAtATime
<1> QED
  BY <1>1, <1>2, SessionInvStep, PTL DEF SessionSpec

-----------------------------------------------------------------------------
(* What is said, forwarded and streamed *)

\* A text is the pieces from the first on, in order.
Spoken(text) == \A i \in 1 .. Len(text) : text[i] = i

\* Of n pieces the first k have been forwarded; the others wait in f, in order.
Within(f, k, n) == \A i \in 1 .. Len(f) : f[i].kind = "chunk" => k < f[i].piece /\ f[i].piece <= n
Rising(f) == \A i, j \in 1 .. Len(f) :
               f[i].kind = "chunk" /\ f[j].kind = "chunk" /\ i < j => f[i].piece < f[j].piece
Covers(f, k, n) == \A p \in k + 1 .. n : \E i \in 1 .. Len(f) : f[i].kind = "chunk" /\ f[i].piece = p
Unheard(f, k, n) == k <= n /\ Within(f, k, n) /\ Rising(f) /\ Covers(f, k, n)

\* Behind the first m events of f wait only pieces spoken after the first o.
Beyond(f, m, o) == \A i \in 1 .. Len(f) : i > m /\ f[i].kind = "chunk" => f[i].piece > o

\* What is emitted and what is buffered make up k pieces, in order and once.
Streamed(s, b, k) == /\ Len(s) + Len(b) = k
                     /\ \A i \in 1 .. Len(s) : s[i] = i
                     /\ \A i \in 1 .. Len(b) : b[i] = Len(s) + i

Held(c) == IF c = active THEN buffer ELSE <<>>

\* The active turn hears every piece once; what performAsk awaits when it settles
\* is all that was spoken when it found the agent idle.
HearsAll ==
  active # NoCommand =>
    /\ ~broken => Unheard(forwards, Len(answerText[active]), agent.pieces)
    /\ phase[active] = "settling" /\ ~broken =>
         owed[active] <= agent.pieces /\ Beyond(forwards, mark, owed[active])
    /\ phase[active] = "cleaning" /\ ~failing => owed[active] <= Len(answerText[active])
SaysAll ==
  \A c \in Command :
    /\ Spoken(answerText[c])
    /\ phase[c] = "answered" => owed[c] <= Len(answerText[c])
    /\ phase[c] \in {"new", "queued"} => answerText[c] = <<>> /\ sent[c] = <<>> /\ ~dropped[c]
StreamsAll == \A c \in Command : ~dropped[c] => Streamed(sent[c], Held(c), Len(answerText[c]))
TextInv == HearsAll /\ SaysAll /\ StreamsAll

LEMMA EventSeq ==
  ASSUME NEW f \in Seq(Event)
  PROVE  \A i \in 1 .. Len(f) : f[i].kind = "chunk" => f[i].piece \in 1 .. MaxPieces
<1> TAKE i \in 1 .. Len(f)
<1>1. f[i] \in Event
  BY SeqFacts
<1> QED BY <1>1, EventFields

LEMMA LogOther ==
  ASSUME NEW f \in Seq(Event), NEW e \in Event, e.kind # "chunk", NEW k \in Nat, NEW n \in Nat, Unheard(f, k, n)
  PROVE  Unheard(Append(f, e), k, n)
<1> DEFINE g == Append(f, e)
<1>1. Len(f) \in Nat /\ Len(g) = Len(f) + 1 /\ g[Len(f) + 1] = e /\ \A i \in 1 .. Len(f) : g[i] = f[i]
  BY SeqFacts, AppendFacts
<1> HIDE DEF g
<1>2. \A i \in 1 .. Len(g) : g[i].kind = "chunk" => i \in 1 .. Len(f) /\ g[i] = f[i]
  BY <1>1
<1>3. Within(g, k, n)
  BY <1>2 DEF Unheard, Within
<1>4. Rising(g)
  BY <1>2 DEF Unheard, Rising
<1>5. Covers(g, k, n)
  <2> SUFFICES ASSUME NEW p \in k + 1 .. n PROVE \E i \in 1 .. Len(g) : g[i].kind = "chunk" /\ g[i].piece = p
    BY DEF Covers
  <2>1. PICK i \in 1 .. Len(f) : f[i].kind = "chunk" /\ f[i].piece = p
    BY DEF Unheard, Covers
  <2>2. i \in 1 .. Len(g) /\ g[i] = f[i]
    BY <1>1
  <2> QED BY <2>1, <2>2
<1>6. k <= n
  BY DEF Unheard
<1> QED BY <1>3, <1>4, <1>5, <1>6 DEF Unheard, g

LEMMA LogPiece ==
  ASSUME NEW f \in Seq(Event), NEW e \in Event, e.kind = "chunk", NEW k \in Nat, NEW n \in Nat,
         e.piece = n + 1, Unheard(f, k, n)
  PROVE  Unheard(Append(f, e), k, n + 1)
<1> DEFINE g == Append(f, e)
<1>0. \A i \in 1 .. Len(f) : f[i].kind = "chunk" => f[i].piece \in Nat
  BY EventSeq, SessionAssumption
<1>1. Len(f) \in Nat /\ Len(g) = Len(f) + 1 /\ g[Len(f) + 1] = e /\ \A i \in 1 .. Len(f) : g[i] = f[i]
  BY SeqFacts, AppendFacts
<1> HIDE DEF g
<1>2. \A i \in 1 .. Len(g) : (i \in 1 .. Len(f) /\ g[i] = f[i]) \/ (i = Len(f) + 1 /\ g[i] = e)
  BY <1>1
<1>6. k <= n
  BY DEF Unheard
<1>3. Within(g, k, n + 1)
  <2> SUFFICES ASSUME NEW i \in 1 .. Len(g), g[i].kind = "chunk" PROVE k < g[i].piece /\ g[i].piece <= n + 1
    BY DEF Within
  <2>1. CASE i \in 1 .. Len(f) /\ g[i] = f[i]
    <3>1. k < f[i].piece /\ f[i].piece <= n /\ f[i].piece \in Nat
      BY <1>0, <2>1 DEF Unheard, Within
    <3> QED BY <2>1, <3>1
  <2>2. CASE g[i] = e
    BY <1>6, <2>2
  <2> QED BY <1>2, <2>1, <2>2
<1>4. Rising(g)
  <2> SUFFICES ASSUME NEW i \in 1 .. Len(g), NEW j \in 1 .. Len(g), g[i].kind = "chunk", g[j].kind = "chunk", i < j
               PROVE  g[i].piece < g[j].piece
    BY DEF Rising
  <2>1. i \in 1 .. Len(f) /\ g[i] = f[i]
    BY <1>1, <1>2
  <2>2. CASE j \in 1 .. Len(f) /\ g[j] = f[j]
    BY <2>1, <2>2 DEF Unheard, Rising
  <2>3. CASE g[j] = e
    <3>1. f[i].piece <= n /\ f[i].piece \in Nat
      BY <1>0, <2>1 DEF Unheard, Within
    <3> QED BY <2>1, <2>3, <3>1
  <2> QED BY <1>2, <2>2, <2>3
<1>5. Covers(g, k, n + 1)
  <2> SUFFICES ASSUME NEW p \in k + 1 .. n + 1 PROVE \E i \in 1 .. Len(g) : g[i].kind = "chunk" /\ g[i].piece = p
    BY DEF Covers
  <2>1. CASE p = n + 1
    <3>1. Len(f) + 1 \in 1 .. Len(g)
      BY <1>1
    <3> QED BY <1>1, <2>1, <3>1
  <2>2. CASE p # n + 1
    <3>0. p \in k + 1 .. n
      BY <2>2
    <3>1. PICK i \in 1 .. Len(f) : f[i].kind = "chunk" /\ f[i].piece = p
      BY <3>0 DEF Unheard, Covers
    <3>2. i \in 1 .. Len(g) /\ g[i] = f[i]
      BY <1>1
    <3> QED BY <3>1, <3>2
  <2> QED BY <2>1, <2>2
<1> QED BY <1>3, <1>4, <1>5, <1>6 DEF Unheard, g

\* The first event, when it is text, is the next piece.
LEMMA HeadIsNext ==
  ASSUME NEW f \in Seq(Event), f # <<>>, f[1].kind = "chunk", NEW k \in Nat, NEW n \in Nat, Unheard(f, k, n)
  PROVE  f[1].piece = k + 1 /\ Unheard(Tail(f), k + 1, n)
<1> DEFINE g == Tail(f)
<1>0. \A i \in 1 .. Len(f) : f[i].kind = "chunk" => f[i].piece \in Nat
  BY EventSeq, SessionAssumption
<1>1. Len(f) \in Nat /\ Len(f) > 0 /\ Len(g) = Len(f) - 1 /\ \A i \in 1 .. Len(g) : g[i] = f[i + 1]
  BY SeqFacts
<1> HIDE DEF g
<1>2. 1 \in 1 .. Len(f) /\ \A i \in 1 .. Len(g) : i + 1 \in 1 .. Len(f) /\ 1 < i + 1
  BY <1>1
<1>3. k < f[1].piece /\ f[1].piece <= n /\ f[1].piece \in Nat
  BY <1>0, <1>2 DEF Unheard, Within
<1>4. f[1].piece = k + 1
  <2>1. k + 1 \in k + 1 .. n
    BY <1>3
  <2>2. PICK i \in 1 .. Len(f) : f[i].kind = "chunk" /\ f[i].piece = k + 1
    BY <2>1 DEF Unheard, Covers
  <2>3. i # 1 => f[1].piece < f[i].piece
    BY <1>2, <2>2 DEF Unheard, Rising
  <2> QED BY <1>3, <2>2, <2>3
<1>5. Within(g, k + 1, n)
  <2> SUFFICES ASSUME NEW i \in 1 .. Len(g), g[i].kind = "chunk" PROVE k + 1 < g[i].piece /\ g[i].piece <= n
    BY DEF Within
  <2>1. f[i + 1].kind = "chunk" /\ g[i].piece = f[i + 1].piece
    BY <1>1
  <2>2. f[1].piece < f[i + 1].piece /\ f[i + 1].piece <= n
    BY <1>2, <2>1 DEF Unheard, Rising, Within
  <2> QED BY <1>4, <2>1, <2>2
<1>6. Rising(g)
  <2> SUFFICES ASSUME NEW i \in 1 .. Len(g), NEW j \in 1 .. Len(g), g[i].kind = "chunk", g[j].kind = "chunk", i < j
               PROVE  g[i].piece < g[j].piece
    BY DEF Rising
  <2>1. g[i] = f[i + 1] /\ g[j] = f[j + 1] /\ i + 1 < j + 1
    BY <1>1
  <2> QED BY <1>2, <2>1 DEF Unheard, Rising
<1>7. Covers(g, k + 1, n)
  <2> SUFFICES ASSUME NEW p \in (k + 1) + 1 .. n PROVE \E i \in 1 .. Len(g) : g[i].kind = "chunk" /\ g[i].piece = p
    BY DEF Covers
  <2>0. p \in k + 1 .. n
    OBVIOUS
  <2>1. PICK i \in 1 .. Len(f) : f[i].kind = "chunk" /\ f[i].piece = p
    BY <2>0 DEF Unheard, Covers
  <2>2. i - 1 \in 1 .. Len(g) /\ (i - 1) + 1 = i
    BY <1>1, <1>4, <2>1
  <2> QED BY <1>1, <2>1, <2>2
<1>8. k + 1 <= n
  BY <1>3
<1> QED BY <1>4, <1>5, <1>6, <1>7, <1>8 DEF Unheard, g

LEMMA OtherIsPassed ==
  ASSUME NEW f \in Seq(Event), f # <<>>, f[1].kind # "chunk", NEW k \in Nat, NEW n \in Nat, Unheard(f, k, n)
  PROVE  Unheard(Tail(f), k, n)
<1> DEFINE g == Tail(f)
<1>1. Len(f) \in Nat /\ Len(f) > 0 /\ Len(g) = Len(f) - 1 /\ \A i \in 1 .. Len(g) : g[i] = f[i + 1]
  BY SeqFacts
<1> HIDE DEF g
<1>2. \A i \in 1 .. Len(g) : i + 1 \in 1 .. Len(f)
  BY <1>1
<1>5. Within(g, k, n)
  BY <1>1, <1>2 DEF Unheard, Within
<1>6. Rising(g)
  <2> SUFFICES ASSUME NEW i \in 1 .. Len(g), NEW j \in 1 .. Len(g), g[i].kind = "chunk", g[j].kind = "chunk", i < j
               PROVE  g[i].piece < g[j].piece
    BY DEF Rising
  <2>1. g[i] = f[i + 1] /\ g[j] = f[j + 1] /\ i + 1 < j + 1
    BY <1>1
  <2> QED BY <1>2, <2>1 DEF Unheard, Rising
<1>7. Covers(g, k, n)
  <2> SUFFICES ASSUME NEW p \in k + 1 .. n PROVE \E i \in 1 .. Len(g) : g[i].kind = "chunk" /\ g[i].piece = p
    BY DEF Covers
  <2>1. PICK i \in 1 .. Len(f) : f[i].kind = "chunk" /\ f[i].piece = p
    BY DEF Unheard, Covers
  <2>2. i - 1 \in 1 .. Len(g) /\ (i - 1) + 1 = i
    BY <1>1, <2>1
  <2> QED BY <1>1, <2>1, <2>2
<1>8. k <= n
  BY DEF Unheard
<1> QED BY <1>5, <1>6, <1>7, <1>8 DEF Unheard, g

LEMMA NothingUnheard == Unheard(<<>>, 0, 0)
<1>1. \A i \in 1 .. Len(<<>>) : FALSE
  OBVIOUS
<1>2. \A p \in 0 + 1 .. 0 : FALSE
  OBVIOUS
<1> QED BY <1>1, <1>2 DEF Unheard, Within, Rising, Covers

\* When all that was awaited has been handled, all that was owed has been heard.
LEMMA AllHeard ==
  ASSUME NEW f \in Seq(Event), NEW k \in Nat, NEW n \in Nat, NEW o \in Nat,
         Unheard(f, k, n), Beyond(f, 0, o), o <= n
  PROVE  o <= k
<1> SUFFICES ASSUME ~(o <= k) PROVE FALSE
  OBVIOUS
<1>1. k + 1 \in k + 1 .. n
  OBVIOUS
<1>2. PICK i \in 1 .. Len(f) : f[i].kind = "chunk" /\ f[i].piece = k + 1
  BY <1>1 DEF Unheard, Covers
<1>3. Len(f) \in Nat
  BY SeqFacts
<1>4. f[i].piece > o
  BY <1>2, <1>3 DEF Beyond
<1> QED BY <1>2, <1>4

LEMMA BeyondLog ==
  ASSUME NEW f \in Seq(Event), NEW e \in Event, NEW m \in 0 .. Len(f), NEW o \in Nat, Beyond(f, m, o),
         e.kind = "chunk" => e.piece > o
  PROVE  Beyond(Append(f, e), m, o)
<1> DEFINE g == Append(f, e)
<1>1. Len(f) \in Nat /\ Len(g) = Len(f) + 1 /\ g[Len(f) + 1] = e /\ \A i \in 1 .. Len(f) : g[i] = f[i]
  BY SeqFacts, AppendFacts
<1> HIDE DEF g
<1>2. \A i \in 1 .. Len(g) : (i \in 1 .. Len(f) /\ g[i] = f[i]) \/ (i = Len(f) + 1 /\ g[i] = e)
  BY <1>1
<1>3. Beyond(g, m, o)
  BY <1>2 DEF Beyond
<1> QED BY <1>3 DEF g

LEMMA BeyondTail ==
  ASSUME NEW f \in Seq(Event), f # <<>>, NEW m \in 0 .. Len(f), NEW o \in Nat, Beyond(f, m, o)
  PROVE  Beyond(Tail(f), IF m = 0 THEN 0 ELSE m - 1, o)
<1> DEFINE g == Tail(f)
<1>1. Len(f) \in Nat /\ Len(f) > 0 /\ Len(g) = Len(f) - 1 /\ \A i \in 1 .. Len(g) : g[i] = f[i + 1]
  BY SeqFacts
<1> HIDE DEF g
<1>2. \A i \in 1 .. Len(g) : i + 1 \in 1 .. Len(f)
  BY <1>1
<1>3. \A i \in 1 .. Len(g) : i > (IF m = 0 THEN 0 ELSE m - 1) => i + 1 > m
  BY <1>1
<1>4. Beyond(g, IF m = 0 THEN 0 ELSE m - 1, o)
  BY <1>1, <1>2, <1>3 DEF Beyond
<1> QED BY <1>4 DEF g

-----------------------------------------------------------------------------
(* Batches *)

LEMMA StreamsPiece ==
  ASSUME NEW s \in Seq(1 .. MaxPieces), NEW b \in Seq(1 .. MaxPieces), NEW k \in Nat, Streamed(s, b, k),
         k + 1 \in 1 .. MaxPieces
  PROVE  Streamed(s, Append(b, k + 1), k + 1)
<1>1. Len(s) \in Nat /\ Len(b) \in Nat
  BY SeqFacts
<1>2. /\ Len(Append(b, k + 1)) = Len(b) + 1 /\ Append(b, k + 1)[Len(b) + 1] = k + 1
      /\ \A i \in 1 .. Len(b) : Append(b, k + 1)[i] = b[i]
  BY AppendFacts
<1> DEFINE b2 == Append(b, k + 1)
<1> HIDE DEF b2
<1>3. Len(b2) = Len(b) + 1 /\ b2[Len(b) + 1] = k + 1 /\ \A i \in 1 .. Len(b) : b2[i] = b[i]
  BY <1>2 DEF b2
<1>4. \A i \in 1 .. Len(b2) : i \in 1 .. Len(b) \/ i = Len(b) + 1
  BY <1>1, <1>3
<1>5. ASSUME NEW i \in 1 .. Len(b2) PROVE b2[i] = Len(s) + i
  <2>1. CASE i \in 1 .. Len(b)
    BY <1>3, <2>1 DEF Streamed
  <2>2. CASE i = Len(b) + 1
    <3>1. k = Len(s) + Len(b)
      BY DEF Streamed
    <3> QED BY <1>1, <1>3, <2>2, <3>1
  <2> QED BY <1>4, <2>1, <2>2
<1>6. Streamed(s, b2, k + 1)
  BY <1>1, <1>3, <1>5 DEF Streamed
<1> QED BY <1>6 DEF b2

LEMMA StreamsBatch ==
  ASSUME NEW s \in Seq(1 .. MaxPieces), NEW b \in Seq(1 .. MaxPieces), NEW k \in Nat, Streamed(s, b, k)
  PROVE  Streamed(s \o b, <<>>, k)
<1>1. Len(s) \in Nat /\ Len(b) \in Nat
  BY SeqFacts
<1> DEFINE t == s \o b
<1>2. Len(t) = Len(s) + Len(b)
      /\ \A i \in 1 .. Len(s) + Len(b) : t[i] = IF i <= Len(s) THEN s[i] ELSE b[i - Len(s)]
  BY ConcatProperties
<1> HIDE DEF t
<1>3. /\ Len(t) = Len(s) + Len(b)
      /\ \A i \in 1 .. Len(s) : t[i] = s[i]
      /\ \A i \in Len(s) + 1 .. Len(s) + Len(b) : t[i] = b[i - Len(s)]
  BY <1>1, <1>2
<1>4. \A i \in Len(s) + 1 .. Len(s) + Len(b) : t[i] = i
  <2> TAKE i \in Len(s) + 1 .. Len(s) + Len(b)
  <2>1. i - Len(s) \in 1 .. Len(b)
    BY <1>1
  <2> QED BY <1>1, <1>3, <2>1 DEF Streamed
<1>5. \A i \in 1 .. Len(t) : i \in 1 .. Len(s) \/ i \in Len(s) + 1 .. Len(s) + Len(b)
  BY <1>1, <1>3
<1>6. \A i \in 1 .. Len(t) : t[i] = i
  BY <1>3, <1>4, <1>5 DEF Streamed
<1>7. Len(<<>>) = 0 /\ \A i \in 1 .. Len(<<>>) : FALSE
  OBVIOUS
<1>8. Streamed(t, <<>>, k)
  BY <1>1, <1>3, <1>6, <1>7 DEF Streamed
<1> QED BY <1>8 DEF t

LEMMA SpeaksPiece ==
  ASSUME NEW t \in Seq(1 .. MaxPieces), Spoken(t), Len(t) + 1 \in 1 .. MaxPieces
  PROVE  Spoken(Append(t, Len(t) + 1))
<1>1. Len(t) \in Nat
  BY SeqFacts
<1>2. /\ Len(Append(t, Len(t) + 1)) = Len(t) + 1 /\ Append(t, Len(t) + 1)[Len(t) + 1] = Len(t) + 1
      /\ \A i \in 1 .. Len(t) : Append(t, Len(t) + 1)[i] = t[i]
  BY AppendFacts
<1> DEFINE u == Append(t, Len(t) + 1)
<1> HIDE DEF u
<1>3. Len(u) = Len(t) + 1 /\ u[Len(t) + 1] = Len(t) + 1 /\ \A i \in 1 .. Len(t) : u[i] = t[i]
  BY <1>2 DEF u
<1>4. \A i \in 1 .. Len(u) : i \in 1 .. Len(t) \/ i = Len(t) + 1
  BY <1>1, <1>3
<1>5. Spoken(u)
  BY <1>3, <1>4 DEF Spoken
<1> QED BY <1>5 DEF u

LEMMA ActiveWorks ==
  ASSUME SessionInv, active # NoCommand
  PROVE  /\ active \in Command /\ asks # <<>> /\ active = asks[1] /\ NextAsk = active
         /\ phase[active] \in AtWork
<1>0. phase \in [Command -> AskPhase] /\ asks \in Seq(Command) /\ Queue(phase, asks, active)
  BY DEF SessionInv, SessionTypeOK, InLine
<1>1. asks # <<>> /\ active = asks[1] /\ phase[active] # "queued"
  BY <1>0 DEF Queue, AtFront
<1>2. Len(asks) \in Nat /\ Len(asks) > 0 /\ active \in Command /\ NextAsk = active
  BY <1>0, <1>1, SeqFacts DEF NextAsk
<1>3. 1 \in 1 .. Len(asks)
  BY <1>2
<1>4. phase[active] \notin AskSettled \cup {"new"}
  BY <1>0, <1>1, <1>3 DEF Queue, Waiting
<1> QED BY <1>0, <1>1, <1>2, <1>4 DEF AtWork

LEMMA Numbers ==
  ASSUME SessionInv
  PROVE  /\ agent.pieces \in Nat /\ forwards \in Seq(Event) /\ mark \in 0 .. Len(forwards)
         /\ buffer \in Seq(1 .. MaxPieces) /\ broken \in BOOLEAN /\ failing \in BOOLEAN
         /\ \A c \in Command : /\ owed[c] \in Nat /\ Len(answerText[c]) \in Nat
                               /\ answerText[c] \in Seq(1 .. MaxPieces) /\ sent[c] \in Seq(1 .. MaxPieces)
                               /\ dropped[c] \in BOOLEAN
<1> USE SessionAssumption
<1>0. TextOK /\ AskOK /\ agent \in AgentSet
  BY TypeParts DEF SessionInv
<1>1. agent.pieces \in Nat
  BY <1>0 DEF AgentSet
<1>2. \A c \in Command : /\ answerText[c] \in Seq(1 .. MaxPieces) /\ sent[c] \in Seq(1 .. MaxPieces)
                         /\ dropped[c] \in BOOLEAN
  BY <1>0 DEF TextOK
<1>3. \A c \in Command : Len(answerText[c]) \in Nat
  BY <1>2, SeqFacts
<1>4. \A c \in Command : owed[c] \in Nat
  BY <1>0 DEF AskOK
<1> QED BY <1>0, <1>1, <1>2, <1>3, <1>4 DEF TextOK, AskOK

LEMMA TextStart == SessionInit => TextInv
<1> SUFFICES ASSUME SessionInit PROVE TextInv
  OBVIOUS
<1>1. Len(<<>>) = 0 /\ \A i \in 1 .. Len(<<>>) : FALSE
  OBVIOUS
<1>2. /\ active = NoCommand /\ buffer = <<>>
      /\ \A c \in Command : /\ answerText[c] = <<>> /\ sent[c] = <<>> /\ dropped[c] = FALSE
                            /\ phase[c] = "new"
  BY DEF SessionInit
<1>3. Streamed(<<>>, <<>>, 0) /\ Spoken(<<>>)
  BY <1>1 DEF Streamed, Spoken
<1>4. \A c \in Command : Held(c) = <<>>
  BY <1>2 DEF Held
<1> QED BY <1>1, <1>2, <1>3, <1>4 DEF TextInv, HearsAll, SaysAll, StreamsAll

\* The agent speaks, and performAsk is none the wiser.
LEMMA AgentTells ==
  ASSUME SessionInv, TextInv, AgentActs, UNCHANGED fault
  PROVE  TextInv'
<1>1. AgentMoves
  BY AgentShape DEF SessionInv
<1>2. /\ UNCHANGED <<phase, active, mark, failing, owed, broken, buffer, answerText, sent, dropped>>
      /\ Logged \/ Unlogged
  BY <1>1 DEF AgentMoves, askVars
<1>3. SaysAll' /\ StreamsAll'
  BY <1>2 DEF TextInv, SaysAll, StreamsAll, Held
<1>4. HearsAll'
  <2> SUFFICES ASSUME active # NoCommand PROVE HearsAll'
    BY <1>2 DEF HearsAll
  <2> DEFINE k == Len(answerText[active])
             n == agent.pieces
             o == owed[active]
  <2>1. active \in Command
    BY ActiveWorks
  <2>2. k \in Nat /\ n \in Nat /\ o \in Nat /\ forwards \in Seq(Event) /\ mark \in 0 .. Len(forwards)
    BY <2>1, Numbers
  <2>3. /\ ~broken => Unheard(forwards, k, n)
        /\ phase[active] = "settling" /\ ~broken => o <= n /\ Beyond(forwards, mark, o)
        /\ phase[active] = "cleaning" /\ ~failing => o <= k
    BY DEF TextInv, HearsAll
  <2>4. CASE Unlogged \/ broken
    BY <1>2, <2>3, <2>4 DEF Unlogged, HearsAll
  <2>5. CASE Logged /\ ~broken
    <3>1. PICK e \in Event : /\ forwards' = Append(forwards, e)
                             /\ IF e.kind = "chunk" THEN e.piece = n + 1 /\ agent'.pieces = e.piece
                                                    ELSE agent'.pieces = n
      BY <2>5 DEF Logged, Log
    <3> HIDE DEF k, n, o
    <3>2. Unheard(forwards', k, agent'.pieces)
      BY <2>2, <2>3, <2>5, <3>1, LogPiece, LogOther
    <3>3. phase[active] = "settling" => o <= agent'.pieces /\ Beyond(forwards', mark, o)
      <4> SUFFICES ASSUME phase[active] = "settling" PROVE o <= agent'.pieces /\ Beyond(forwards', mark, o)
        OBVIOUS
      <4>1. o <= n /\ Beyond(forwards, mark, o)
        BY <2>3, <2>5
      <4>2. o <= agent'.pieces /\ (e.kind = "chunk" => e.piece > o)
        BY <2>2, <3>1, <4>1
      <4>3. Beyond(Append(forwards, e), mark, o)
        BY <2>2, <4>1, <4>2, BeyondLog
      <4> QED BY <3>1, <4>2, <4>3
    <3> QED BY <1>2, <2>3, <2>5, <3>2, <3>3 DEF HearsAll, k, n, o
  <2> QED BY <1>2, <2>4, <2>5
<1> QED BY <1>3, <1>4 DEF TextInv

\* Steps that only move the active command from one phase to another.
LEMMA TextStays ==
  ASSUME SessionInv, TextInv, active # NoCommand,
         UNCHANGED <<active, forwards, broken, buffer, answerText, sent, dropped, owed>>,
         agent'.pieces = agent.pieces,
         NEW p \in AtWork, phase' = [phase EXCEPT ![active] = p],
         p = "settling" /\ ~broken => owed[active] <= agent.pieces /\ Beyond(forwards, mark', owed[active]),
         p = "cleaning" /\ ~failing' => owed[active] <= Len(answerText[active])
  PROVE  TextInv'
<1>1. active \in Command /\ phase \in [Command -> AskPhase]
  BY ActiveWorks DEF SessionInv, SessionTypeOK
<1>2. phase'[active] = p /\ \A c \in Command : c # active => phase'[c] = phase[c]
  BY <1>1
<1>3. p \notin {"new", "queued", "answered"}
  BY DEF AtWork, AskSettled
<1>4. SaysAll'
  BY <1>2, <1>3 DEF TextInv, SaysAll
<1>5. StreamsAll'
  BY DEF TextInv, StreamsAll, Held
<1>6. HearsAll'
  BY <1>2 DEF TextInv, HearsAll
<1> QED BY <1>4, <1>5, <1>6 DEF TextInv

LEMMA AskTells ==
  ASSUME SessionInv, TextInv, AskMoves
  PROVE  TextInv'
<1> USE SessionAssumption
<1>0. phase \in [Command -> AskPhase] /\ asks \in Seq(Command) /\ owed \in [Command -> 0 .. MaxPieces]
  BY DEF SessionInv, SessionTypeOK
<1>a. asks # <<>> => NextAsk = asks[1] /\ NextAsk \in Command /\ (phase[NextAsk] = "queued" => active = NoCommand)
  <2>1. asks # <<>> => NextAsk = asks[1] /\ NextAsk \in Command
    BY <1>0, SeqFacts DEF NextAsk
  <2> QED BY <2>1 DEF SessionInv, InLine, Queue, AtFront
<1>1. ASSUME NEW c \in Command, Ask(c) PROVE TextInv'
  <2>1. /\ phase[c] = "new" /\ phase' = [phase EXCEPT ![c] = "queued"]
        /\ UNCHANGED <<active, mark, failing, owed, forwards, broken, buffer, answerText, sent, dropped, agent>>
    BY <1>1 DEF Ask, streamVars, agentVars
  <2>2. phase'[c] = "queued" /\ \A d \in Command : d # c => phase'[d] = phase[d]
    BY <1>0, <2>1
  <2>3. active # NoCommand => active \in Command /\ active # c
    BY <2>1, ActiveWorks DEF AtWork
  <2>4. HearsAll'
    BY <2>1, <2>2, <2>3 DEF TextInv, HearsAll
  <2>5. SaysAll'
    BY <2>1, <2>2 DEF TextInv, SaysAll
  <2>6. StreamsAll'
    BY <2>1 DEF TextInv, StreamsAll, Held
  <2> QED BY <2>4, <2>5, <2>6 DEF TextInv
<1>2. ASSUME OpenFails PROVE TextInv'
  <2>1. /\ NextAsk \in Command /\ phase' = [phase EXCEPT ![NextAsk] = "failed"] /\ active = NoCommand
        /\ UNCHANGED <<active, owed, buffer, answerText, sent, dropped>>
    BY <1>2, <1>a DEF OpenFails, streamVars
  <2>2. phase'[NextAsk] = "failed" /\ \A d \in Command : d # NextAsk => phase'[d] = phase[d]
    BY <1>0, <2>1
  <2>3. HearsAll'
    BY <2>1 DEF HearsAll
  <2>4. SaysAll'
    BY <2>1, <2>2 DEF TextInv, SaysAll
  <2>5. StreamsAll'
    BY <2>1 DEF TextInv, StreamsAll, Held
  <2> QED BY <2>3, <2>4, <2>5 DEF TextInv
<1>3. ASSUME Registers PROVE TextInv'
  <2> DEFINE c == NextAsk
  <2>1. /\ c \in Command /\ active = NoCommand /\ phase[c] = "queued"
        /\ phase' = [phase EXCEPT ![c] = "delivering"] /\ active' = c
        /\ forwards' = <<>> /\ broken' = FALSE /\ buffer' = <<>> /\ agent' = [agent EXCEPT !.pieces = 0]
        /\ UNCHANGED <<owed, answerText, sent, dropped>>
    BY <1>3, <1>a DEF Registers
  <2>2. phase'[c] = "delivering" /\ \A d \in Command : d # c => phase'[d] = phase[d]
    BY <1>0, <2>1
  <2>3. answerText[c] = <<>> /\ Len(<<>>) = 0
    BY <2>1 DEF TextInv, SaysAll
  <2>4. agent'.pieces = 0
    <3>1. agent \in AgentSet
      BY TypeParts DEF SessionInv
    <3> QED BY <2>1, <3>1 DEF AgentSet
  <2>5. HearsAll'
    BY <2>1, <2>2, <2>3, <2>4, NothingUnheard DEF HearsAll
  <2>6. SaysAll'
    BY <2>1, <2>2 DEF TextInv, SaysAll
  <2>7. \A d \in Command : Held(d)' = <<>> /\ Held(d) = <<>>
    BY <2>1 DEF Held
  <2>8. StreamsAll'
    BY <2>1, <2>7 DEF TextInv, StreamsAll
  <2> QED BY <2>5, <2>6, <2>8 DEF TextInv
<1>4. ASSUME Delivers PROVE TextInv'
  <2>1. agent \in AgentSet
    BY TypeParts DEF SessionInv
  <2>2. agent'.pieces = agent.pieces
    BY <1>4, <2>1 DEF Delivers, AgentSet
  <2>3. "running" \in AtWork /\ "running" # "settling" /\ "running" # "cleaning"
    BY DEF AtWork, AskPhase, AskSettled
  <2> QED BY <1>4, <2>2, <2>3, TextStays DEF Delivers, streamVars
<1>5. ASSUME DeliveryFails PROVE TextInv'
  <2>1. "cleaning" \in AtWork /\ "settling" # "cleaning"
    BY DEF AtWork, AskPhase, AskSettled
  <2> QED BY <1>5, <2>1, TextStays DEF DeliveryFails, streamVars, agentVars
<1>6. ASSUME FindsIdle PROVE TextInv'
  <2>1. "draining" \in AtWork /\ "draining" # "settling" /\ "draining" # "cleaning"
    BY DEF AtWork, AskPhase, AskSettled
  <2> QED BY <1>6, <2>1, TextStays DEF FindsIdle, streamVars, agentVars
<1>7. ASSUME active # NoCommand, Settles, mark' = Len(forwards), owed' = [owed EXCEPT ![active] = agent.pieces],
             UNCHANGED <<active, forwards, broken, buffer, answerText, sent, dropped, agent>>
      PROVE  TextInv'
  <2>1. active \in Command /\ phase[active] \in AtWork
    BY <1>7, ActiveWorks
  <2>2. PICK p \in {"settling", "cleaning"} : phase' = [phase EXCEPT ![active] = p] /\ (p = "cleaning" => failing')
    BY <1>7 DEF Settles
  <2>3. phase'[active] = p /\ \A d \in Command : d # active => phase'[d] = phase[d]
    BY <1>0, <2>1, <2>2
  <2>4. owed'[active] = agent.pieces /\ \A d \in Command : d # active => owed'[d] = owed[d]
    BY <1>0, <1>7, <2>1
  <2>5. agent.pieces \in Nat /\ Len(forwards) \in Nat
    BY Numbers, SeqFacts
  <2>6. agent.pieces <= agent.pieces /\ Beyond(forwards, Len(forwards), agent.pieces)
    <3>1. \A i \in 1 .. Len(forwards) : ~(i > Len(forwards))
      BY <2>5
    <3> QED BY <2>5, <3>1 DEF Beyond
  <2>7. HearsAll'
    BY <1>7, <2>2, <2>3, <2>4, <2>6 DEF TextInv, HearsAll
  <2>8. SaysAll'
    BY <1>7, <2>2, <2>3, <2>4 DEF TextInv, SaysAll
  <2>9. StreamsAll'
    BY <1>7 DEF TextInv, StreamsAll, Held
  <2> QED BY <2>7, <2>8, <2>9 DEF TextInv
<1>8. ASSUME Drained PROVE TextInv'
  <2>1. active # NoCommand /\ UNCHANGED <<active, forwards, broken, buffer, answerText, sent, dropped, agent>>
    BY <1>8 DEF Drained, streamVars, agentVars
  <2>2. CASE broken
    <3>1. "cleaning" \in AtWork /\ "settling" # "cleaning"
      BY DEF AtWork, AskPhase, AskSettled
    <3> QED BY <1>8, <2>1, <2>2, <3>1, TextStays DEF Drained
  <2>3. CASE ~broken /\ gate.waiting
    <3>1. "gated" \in AtWork /\ "gated" # "settling" /\ "gated" # "cleaning"
      BY DEF AtWork, AskPhase, AskSettled
    <3> QED BY <1>8, <2>1, <2>3, <3>1, TextStays DEF Drained
  <2>4. CASE ~broken /\ ~gate.waiting
    BY <1>7, <1>8, <2>1, <2>4 DEF Drained
  <2> QED BY <2>2, <2>3, <2>4
<1>9. ASSUME Awaited PROVE TextInv'
  BY <1>7, <1>9 DEF Awaited, streamVars, agentVars
<1>10. ASSUME Concludes PROVE TextInv'
  <2>1. "cleaning" \in AtWork /\ "settling" # "cleaning"
    BY DEF AtWork, AskPhase, AskSettled
  <2>2. active \in Command
    BY <1>10, ActiveWorks DEF Concludes
  <2>3. ~failing' => owed[active] <= Len(answerText[active])
    <3> SUFFICES ASSUME ~failing' PROVE owed[active] <= Len(answerText[active])
      OBVIOUS
    <3>1. ~broken /\ mark = 0 /\ phase[active] = "settling" /\ active # NoCommand
      BY <1>10 DEF Concludes, AllForwarded
    <3>2. Unheard(forwards, Len(answerText[active]), agent.pieces) /\ owed[active] <= agent.pieces /\ Beyond(forwards, 0, owed[active])
      BY <3>1 DEF TextInv, HearsAll
    <3> QED BY <2>2, <3>2, AllHeard, Numbers
  <2> QED BY <1>10, <2>1, <2>3, TextStays DEF Concludes, streamVars, agentVars
<1>11. ASSUME CleanUpAsk PROVE TextInv'
  <2>1. /\ active # NoCommand /\ phase[active] = "cleaning" /\ active' = NoCommand /\ buffer' = <<>>
        /\ phase' = [phase EXCEPT ![active] = IF failing THEN "failed" ELSE "answered"]
        /\ UNCHANGED <<owed, answerText>>
        /\ \/ sent' = [sent EXCEPT ![active] = @ \o buffer] /\ dropped' = dropped
           \/ sent' = sent /\ dropped' = [dropped EXCEPT ![active] = TRUE]
    BY <1>11 DEF CleanUpAsk
  <2>2. active \in Command /\ sent \in [Command -> Seq(1 .. MaxPieces)] /\ dropped \in [Command -> BOOLEAN]
    BY <2>1, ActiveWorks DEF SessionInv, SessionTypeOK
  <2>3. /\ phase'[active] = IF failing THEN "failed" ELSE "answered"
        /\ \A d \in Command : d # active => phase'[d] = phase[d] /\ sent'[d] = sent[d] /\ dropped'[d] = dropped[d]
    BY <1>0, <2>1, <2>2
  <2>4. HearsAll'
    BY <2>1 DEF HearsAll
  <2>5. ~failing => owed[active] <= Len(answerText[active])
    BY <2>1 DEF TextInv, HearsAll
  <2>6. SaysAll'
    BY <2>1, <2>2, <2>3, <2>5 DEF TextInv, SaysAll
  <2>7. StreamsAll'
    <3> SUFFICES ASSUME NEW d \in Command, ~dropped'[d] PROVE Streamed(sent'[d], <<>>, Len(answerText[d]))
      BY <2>1 DEF StreamsAll, Held
    <3>1. CASE d # active
      BY <2>3, <3>1 DEF TextInv, StreamsAll, Held
    <3>2. CASE d = active
      <4>1. dropped' = dropped /\ sent'[d] = sent[d] \o buffer
        BY <2>1, <2>2, <3>2
      <4>2. Streamed(sent[d], buffer, Len(answerText[d]))
        BY <3>2, <4>1 DEF TextInv, StreamsAll, Held
      <4> QED BY <4>1, <4>2, StreamsBatch, Numbers
    <3> QED BY <3>1, <3>2
  <2> QED BY <2>4, <2>6, <2>7 DEF TextInv
<1> QED BY <1>1, <1>2, <1>3, <1>4, <1>5, <1>6, <1>8, <1>9, <1>10, <1>11 DEF AskMoves

\* A new gate wakes the command it holds, or nobody.
Woken == \/ phase' = phase
         \/ /\ active # NoCommand /\ phase[active] = "gated"
            /\ phase' = [phase EXCEPT ![active] = "waking"]

LEMMA WakesOne ==
  ASSUME SessionInv, Woken
  PROVE  /\ \A c \in Command : phase'[c] = phase[c] \/ (phase[c] = "gated" /\ phase'[c] = "waking")
<1>1. phase \in [Command -> AskPhase] /\ (active # NoCommand => active \in Command)
  BY DEF SessionInv, SessionTypeOK
<1> QED BY <1>1 DEF Woken

LEMMA OtherTells ==
  ASSUME SessionInv, TextInv, OtherMoves
  PROVE  TextInv'
<1>1. /\ UNCHANGED <<active, mark, failing, owed, forwards, broken, buffer, answerText, sent, dropped>>
      /\ agent'.pieces = agent.pieces
      /\ UNCHANGED <<phase, gate, hurt>> \/ \E g : GateOK(g) /\ GateBecomes(g)
  BY OtherShape DEF SessionInv, streamVars
<1>2. Woken
  BY <1>1 DEF Woken, GateBecomes
<1>3. CASE phase' = phase
  BY <1>1, <1>3 DEF TextInv, HearsAll, SaysAll, StreamsAll, Held
<1>4. CASE active # NoCommand /\ phase' = [phase EXCEPT ![active] = "waking"]
  <2>1. "waking" \in AtWork /\ "waking" # "settling" /\ "waking" # "cleaning"
    BY DEF AtWork, AskPhase, AskSettled
  <2> QED BY <1>1, <1>4, <2>1, TextStays
<1> QED BY <1>2, <1>3, <1>4 DEF Woken

LEMMA ForwardTells ==
  ASSUME SessionInv, TextInv, Forward
  PROVE  TextInv'
<1> DEFINE e == forwards[1]
           k == Len(answerText[active])
           n == agent.pieces
           o == owed[active]
           k2 == IF e.kind = "chunk" THEN k + 1 ELSE k
<1>1. /\ Head(forwards) \in Event /\ broken' \in BOOLEAN
      /\ active \in Command /\ forwards # <<>> /\ ~broken
      /\ TextMoves(Head(forwards))
      /\ forwards' = IF broken' THEN <<>> ELSE Tail(forwards)
      /\ mark' = IF broken' \/ mark = 0 THEN 0 ELSE mark - 1
      /\ UNCHANGED <<active, failing, owed, agent>>
      /\ UNCHANGED <<phase, gate, hurt>> \/ GateBecomes(Observe(gate, Head(forwards)))
  BY ForwardShape DEF SessionInv, agentVars
<1>2. active # NoCommand
  BY <1>1, SessionAssumption
<1>3. /\ k \in Nat /\ n \in Nat /\ o \in Nat /\ forwards \in Seq(Event) /\ mark \in 0 .. Len(forwards)
      /\ buffer \in Seq(1 .. MaxPieces)
      /\ answerText[active] \in Seq(1 .. MaxPieces) /\ sent[active] \in Seq(1 .. MaxPieces)
      /\ answerText \in [Command -> Seq(1 .. MaxPieces)] /\ sent \in [Command -> Seq(1 .. MaxPieces)]
      /\ dropped \in [Command -> BOOLEAN]
  BY <1>1, Numbers DEF SessionInv, SessionTypeOK
<1>4. Head(forwards) = e /\ e \in Event
  BY <1>1, <1>3, SeqFacts
<1>5. Unheard(forwards, k, n)
  BY <1>1, <1>2 DEF TextInv, HearsAll
<1>6. e.kind = "chunk" => e.piece = k + 1 /\ k + 1 \in 1 .. MaxPieces
  BY <1>1, <1>3, <1>4, <1>5, HeadIsNext, EventFields
<1>7. Unheard(Tail(forwards), k2, n)
  BY <1>1, <1>3, <1>5, HeadIsNext, OtherIsPassed
<1>8. /\ answerText'[active] = IF e.kind = "chunk" THEN Append(answerText[active], k + 1) ELSE answerText[active]
      /\ \A c \in Command : c # active => answerText'[c] = answerText[c]
  <2>1. answerText' = IF e.kind = "chunk" THEN [answerText EXCEPT ![active] = Append(@, e.piece)] ELSE answerText
    BY <1>1, <1>4 DEF TextMoves
  <2> QED BY <1>1, <1>3, <1>6, <2>1
<1>9. Len(answerText'[active]) = k2
  BY <1>3, <1>6, <1>8, AppendFacts
<1>10. \A c \in Command : phase'[c] = phase[c] \/ (phase[c] = "gated" /\ phase'[c] = "waking")
  BY <1>1, WakesOne DEF Woken, GateBecomes
<1>11. HearsAll'
  <2>1. ~broken' => Unheard(forwards', k2, n)
    BY <1>1, <1>7
  <2>2. phase'[active] = "settling" /\ ~broken' => o <= n /\ Beyond(forwards', mark', o)
    <3> SUFFICES ASSUME phase'[active] = "settling", ~broken' PROVE o <= n /\ Beyond(forwards', mark', o)
      OBVIOUS
    <3>1. phase[active] = "settling"
      BY <1>1, <1>10
    <3>2. o <= n /\ Beyond(forwards, mark, o)
      BY <1>1, <1>2, <3>1 DEF TextInv, HearsAll
    <3>3. Beyond(Tail(forwards), IF mark = 0 THEN 0 ELSE mark - 1, o)
      BY <1>1, <1>3, <3>2, BeyondTail
    <3> QED BY <1>1, <3>2, <3>3
  <2>3. phase'[active] = "cleaning" /\ ~failing => o <= k2
    <3> SUFFICES ASSUME phase'[active] = "cleaning", ~failing PROVE o <= k2
      OBVIOUS
    <3>1. phase[active] = "cleaning"
      BY <1>1, <1>10
    <3>2. o <= k
      BY <1>2, <3>1 DEF TextInv, HearsAll
    <3> QED BY <1>3, <3>2
  <2> HIDE DEF k2
  <2> QED BY <1>1, <1>9, <2>1, <2>2, <2>3 DEF HearsAll
<1>12. SaysAll'
  <2> SUFFICES ASSUME NEW c \in Command
               PROVE  /\ Spoken(answerText'[c])
                      /\ phase'[c] = "answered" => owed[c] <= Len(answerText'[c])
                      /\ phase'[c] \in {"new", "queued"} => answerText'[c] = <<>> /\ sent'[c] = <<>> /\ ~dropped'[c]
    BY <1>1 DEF SaysAll
  <2>1. /\ Spoken(answerText[c])
        /\ phase[c] = "answered" => owed[c] <= Len(answerText[c])
        /\ phase[c] \in {"new", "queued"} => answerText[c] = <<>> /\ sent[c] = <<>> /\ ~dropped[c]
    BY DEF TextInv, SaysAll
  <2>2. CASE c # active
    <3>1. sent'[c] = sent[c] /\ dropped'[c] = dropped[c]
      BY <1>1, <1>3, <2>2 DEF TextMoves
    <3> QED BY <1>8, <1>10, <2>1, <2>2, <3>1
  <2>3. CASE c = active
    <3>1. phase'[c] \notin {"answered", "new", "queued"}
      BY <1>2, <1>10, <2>3, ActiveWorks DEF AtWork, AskSettled
    <3>2. Spoken(answerText'[c])
      BY <1>3, <1>6, <1>8, <2>1, <2>3, SpeaksPiece
    <3> QED BY <3>1, <3>2
  <2> QED BY <2>2, <2>3
<1>13. StreamsAll'
  <2> SUFFICES ASSUME NEW c \in Command, ~dropped'[c]
               PROVE  Streamed(sent'[c], IF c = active THEN buffer' ELSE <<>>, Len(answerText'[c]))
    BY <1>1 DEF StreamsAll, Held
  <2>1. CASE c # active
    <3>1. sent'[c] = sent[c] /\ dropped'[c] = dropped[c]
      BY <1>1, <1>3, <2>1 DEF TextMoves
    <3> QED BY <1>8, <2>1, <3>1 DEF TextInv, StreamsAll, Held
  <2>2. CASE c = active
    <3> DEFINE text == IF e.kind = "chunk" THEN Append(buffer, k + 1) ELSE buffer
    <3>1. ~dropped[c] /\ \/ sent'[c] = sent[c] \o text /\ buffer' = <<>>
                         \/ sent'[c] = sent[c] /\ buffer' = text
      <4>1. text = IF e.kind = "chunk" THEN Append(buffer, e.piece) ELSE buffer
        BY <1>6
      <4>2. \/ sent' = [sent EXCEPT ![active] = @ \o text] /\ buffer' = <<>> /\ dropped' = dropped
            \/ sent' = sent /\ buffer' = text /\ dropped' = dropped
            \/ dropped' = [dropped EXCEPT ![active] = TRUE]
        <5>1. TextMoves(e)
          BY <1>1, <1>4
        <5> HIDE DEF text, e
        <5> QED BY <4>1, <5>1 DEF TextMoves
      <4> HIDE DEF text
      <4> QED BY <1>1, <1>3, <2>2, <4>2
    <3>2. Streamed(sent[c], buffer, k)
      BY <2>2, <3>1 DEF TextInv, StreamsAll, Held
    <3>3. Streamed(sent[c], text, k2) /\ text \in Seq(1 .. MaxPieces) /\ k2 \in Nat
      <4>1. CASE e.kind = "chunk"
        <5>1. k + 1 \in 1 .. MaxPieces /\ text = Append(buffer, k + 1) /\ k2 = k + 1
          BY <1>6, <4>1
        <5>2. Streamed(sent[active], Append(buffer, k + 1), k + 1)
          <6>1. Streamed(sent[active], buffer, k)
            BY <2>2, <3>2
          <6>2. k \in Nat /\ buffer \in Seq(1 .. MaxPieces) /\ sent[active] \in Seq(1 .. MaxPieces) /\ k + 1 \in 1 .. MaxPieces
            BY <1>3, <5>1
          <6> HIDE DEF k
          <6> QED BY <6>1, <6>2, StreamsPiece
        <5>3. Append(buffer, k + 1) \in Seq(1 .. MaxPieces)
          <6> HIDE DEF k
          <6> QED BY <1>3, <5>1, AppendFacts
        <5>4. k + 1 \in Nat
          BY <1>3
        <5> HIDE DEF text, k2, k
        <5> QED BY <2>2, <5>1, <5>2, <5>3, <5>4
      <4>2. CASE e.kind # "chunk"
        BY <1>3, <3>2, <4>2
      <4> QED BY <4>1, <4>2
    <3> HIDE DEF text, k2
    <3>4. Streamed(sent[c] \o text, <<>>, k2)
      BY <1>3, <2>2, <3>3, StreamsBatch
    <3> QED BY <1>9, <2>2, <3>1, <3>3, <3>4
  <2> QED BY <2>1, <2>2
<1> QED BY <1>11, <1>12, <1>13 DEF TextInv

LEMMA TextStep ==
  ASSUME SessionInv, TextInv, [SessionNext]_sessionVars
  PROVE  TextInv'
<1>1. CASE UNCHANGED sessionVars
  BY <1>1 DEF TextInv, HearsAll, SaysAll, StreamsAll, Held, sessionVars, stepVars, askVars, agentVars, streamVars
<1>2. CASE SessionNext
  BY <1>2, SessionMoves, AgentTells, AskTells, ForwardTells, OtherTells
<1> QED BY <1>1, <1>2

\* The answer a command returns holds every piece spoken before the agent was
\* found idle, in order and once, whatever tools, team, gate and emitter do.
THEOREM SessionAnswers == SessionSpec => []AnswerComplete
<1>1. SessionInit => SessionInv /\ TextInv
  BY SessionStart, InLineStart, TextStart DEF SessionInv
<1>2. SessionInv /\ TextInv => AnswerComplete
  <2> SUFFICES ASSUME SessionInv, TextInv, NEW c \in Command, phase[c] = "answered"
               PROVE  Len(answerText[c]) >= owed[c] /\ \A i \in 1 .. Len(answerText[c]) : answerText[c][i] = i
    BY DEF AnswerComplete
  <2>1. Spoken(answerText[c]) /\ owed[c] <= Len(answerText[c])
    BY DEF TextInv, SaysAll
  <2> QED BY <2>1, Numbers DEF Spoken
<1> QED
  BY <1>1, <1>2, SessionInvStep, TextStep, PTL DEF SessionSpec

\* All that text has been streamed, in order and once, unless an emission failed.
THEOREM SessionStreams == SessionSpec => []StreamComplete
<1>1. SessionInit => SessionInv /\ TextInv
  BY SessionStart, InLineStart, TextStart DEF SessionInv
<1>2. SessionInv /\ TextInv => StreamComplete
  <2> SUFFICES ASSUME SessionInv, TextInv, NEW c \in Command
               PROVE  /\ \A i \in 1 .. Len(sent[c]) : dropped[c] \/ sent[c][i] = i
                      /\ phase[c] = "answered" /\ ~dropped[c] => Len(sent[c]) >= owed[c]
    BY DEF StreamComplete
  <2>1. ~dropped[c] => Streamed(sent[c], Held(c), Len(answerText[c]))
    BY DEF TextInv, StreamsAll
  <2>2. phase[c] = "answered" => owed[c] <= Len(answerText[c]) /\ c # active
    <3>1. phase[c] = "answered" => c # active
      BY ActiveWorks, SessionAssumption DEF AtWork, AskSettled
    <3> QED BY <3>1 DEF TextInv, SaysAll
  <2>3. c # active /\ ~dropped[c] => Len(sent[c]) = Len(answerText[c])
    <3>1. Len(<<>>) = 0 /\ Len(sent[c]) \in Nat
      BY Numbers, SeqFacts
    <3> QED BY <2>1, <3>1 DEF Held, Streamed
  <2>4. \A i \in 1 .. Len(sent[c]) : dropped[c] \/ sent[c][i] = i
    BY <2>1 DEF Streamed
  <2> QED BY <2>2, <2>3, <2>4, Numbers
<1> QED
  BY <1>1, <1>2, SessionInvStep, TextStep, PTL DEF SessionSpec

-----------------------------------------------------------------------------
(* What holds a command *)

\* Events of the start and of the cleanup of a team, and of what shuts the gate.
Shuts(e) == e.kind = "call" /\ e.name \in {"start", "template"}
StartCalled(e) == e.kind = "call" /\ e.name = "start"
StartAnswered(e) == e.kind \in {"result", "failure"} /\ e.name = "start"
Started(e) == e.kind = "result" /\ e.name = "start"
Deleted(e) == e.kind = "result" /\ e.name = "delete"

Free(g) == ~g.waiting /\ ~g.failed
\* The gate waits for a team, or has failed.
Holds(g) == (g.waiting /\ g.kind = "team") \/ g.failed

NoneShuts(f) == \A i \in 1 .. Len(f) : ~Shuts(f[i])
OneShuts(f) == \A i, j \in 1 .. Len(f) : Shuts(f[i]) /\ Shuts(f[j]) => i = j
ShutsBy(f, m) == \A i \in 1 .. Len(f) : Shuts(f[i]) => i <= m

\* The start of a team is called: of the events in f its call is the last, or the
\* gate has seen it.
CallWaits(f) == \E i \in 1 .. Len(f) : StartCalled(f[i]) /\ \A k \in 1 .. Len(f) : k > i => ~StartAnswered(f[k])
CallSeen(f, g) == g.start /\ Holds(g) /\ \A k \in 1 .. Len(f) : ~StartAnswered(f[k])

\* The team is started: its call and the result, the result alone, or neither,
\* waits in f, and after the result nothing that ends the team.
Latest(f, i, j) == /\ Started(f[j]) /\ i < j
                   /\ \A k \in 1 .. Len(f) : /\ k > i /\ StartAnswered(f[k]) => k = j
                                             /\ k > j => ~Deleted(f[k])
TeamWaits(f) == \E i, j \in 1 .. Len(f) : StartCalled(f[i]) /\ Latest(f, i, j)
ResultWaits(f, g) == g.start /\ Holds(g) /\ \E j \in 1 .. Len(f) : Latest(f, 0, j)
TeamSeen(f, g) == g.teamActive /\ Holds(g) /\ \A k \in 1 .. Len(f) : ~StartAnswered(f[k]) /\ ~Deleted(f[k])

Past == {"draining", "gated", "waking", "settling", "cleaning"}
Passed == phase[active] = "settling" \/ (phase[active] = "cleaning" /\ ~failing)

\* The active command has started a team which no snapshot has read as settled.
Unread == starter = active /\ team # "none" /\ ~seenDone

Behind ==
  /\ agent.call # "none" => agent.running
  /\ agent.call = "start" => team = "none"
  /\ snapshots.quiet => seenDone
  /\ \A c \in Command : starter = c => phase[c] \notin {"new", "queued"}

\* While one asynchronous call at most is made, the gate fails once at most.
Shutting ==
  begun <= 1 =>
    /\ OneShuts(forwards)
    /\ begun = 0 => NoneShuts(forwards)
    /\ begun = 0 \/ ~NoneShuts(forwards) => Free(gate) /\ ~hurt
    /\ hurt => gate.failed

\* If it was made before the agent was found idle, performAsk waits for it.
Holding ==
  /\ starter = active => begun >= 1
  /\ phase[active] = "delivering" => ~early
  /\ OneCall =>
       /\ phase[active] = "draining" => ShutsBy(forwards, mark)
       /\ phase[active] \in Past \ {"draining"} => NoneShuts(forwards)
       /\ phase[active] \in Past /\ starter = active => agent.call # "start"
       /\ phase[active] = "waking" => ~gate.waiting
       /\ Passed => Free(gate)

\* The gate knows of the team, or will.
Knowing ==
  /\ ~broken /\ begun = 1 /\ starter = active =>
       /\ agent.call = "start" => CallWaits(forwards) \/ CallSeen(forwards, gate)
       /\ Unread => TeamWaits(forwards) \/ ResultWaits(forwards, gate) \/ TeamSeen(forwards, gate)
  /\ OneCall /\ phase[active] = "cleaning" /\ ~failing => ~Unread

HeldInv == Behind /\ (active # NoCommand => Shutting /\ Holding /\ Knowing)

-----------------------------------------------------------------------------
(* The gate *)

\* A gate that does not shut: it stays free, open and failed.
Mild(g, h) == /\ Free(g) => Free(h)
              /\ ~g.waiting => ~h.waiting
              /\ g.failed => h.failed

LEMMA FinishIsMild ==
  ASSUME NEW g, GateOK(g), NEW error \in BOOLEAN
  PROVE  /\ Mild(g, FinishGate(g, error))
         /\ FinishGate(g, error).start = g.start /\ FinishGate(g, error).teamActive = g.teamActive
         /\ Holds(g) => Holds(FinishGate(g, TRUE))
BY DEF GateOK, GateSet, FinishGate, Mild, Free, Holds

LEMMA CompleteIsMild ==
  ASSUME NEW g, GateOK(g)
  PROVE  /\ Mild(g, CompleteRetained(g))
         /\ CompleteRetained(g).start = g.start
         /\ g.start /\ Holds(g) => Holds(CompleteRetained(g))
BY DEF GateOK, GateSet, FinishGate, Mild, Free, Holds, CompleteRetained

\* A gate that observes an event other than an asynchronous call does not shut.
LEMMA ObserveIsMild ==
  ASSUME NEW g, GateOK(g), NEW e \in Event, ~Shuts(e)
  PROVE  /\ Mild(g, Observe(g, e))
         /\ Holds(g) /\ (g.start \/ g.teamActive) => Holds(Observe(g, e))
         /\ g.start /\ ~StartAnswered(e) => Observe(g, e).start
         /\ g.teamActive /\ ~Deleted(e) => Observe(g, e).teamActive
<1> DEFINE Kept(h) == /\ Mild(g, h)
                      /\ Holds(g) /\ (g.start \/ g.teamActive) => Holds(h)
                      /\ g.start /\ ~StartAnswered(e) => h.start
                      /\ g.teamActive /\ ~Deleted(e) => h.teamActive
<1>0. Kept(g)
  BY DEF Mild
<1>1. CASE e.kind = "call"
  <2>1. e.name = "delete"
    BY <1>1, EventFields DEF Shuts, CallNames
  <2> QED BY <1>1, <2>1 DEF Observe, ObserveCall, GateOK, GateSet, Mild, Free, Holds
<1>2. ASSUME NEW error \in BOOLEAN, NEW n \in CallNames, n = "start" => StartAnswered(e),
             n = "delete" /\ ~error => Deleted(e)
      PROVE  Kept(ObserveResult(g, n, error))
  <2>1. CASE n = "start" /\ g.start
    BY <1>2, <2>1 DEF ObserveResult, FinishGate, GateOK, GateSet, Mild, Free, Holds
  <2>2. CASE n = "delete" /\ g.delete
    BY <1>2, <2>2 DEF ObserveResult, FinishGate, GateOK, GateSet, Mild, Free, Holds
  <2>3. CASE ~(n = "start" /\ g.start) /\ ~(n = "delete" /\ g.delete)
    BY <1>0, <2>3 DEF ObserveResult
  <2> QED BY <2>1, <2>2, <2>3
<1>3. CASE e.kind = "result"
  <2>1. Observe(g, e) = ObserveResult(g, e.name, FALSE)
    BY <1>3 DEF Observe
  <2>2. e.name \in CallNames /\ (e.name = "start" => StartAnswered(e)) /\ (e.name = "delete" => Deleted(e))
    BY <1>3, EventFields DEF StartAnswered, Deleted
  <2> HIDE DEF Kept
  <2>3. Kept(ObserveResult(g, e.name, FALSE))
    BY <1>2, <2>2
  <2> QED BY <2>1, <2>3 DEF Kept
<1>4. CASE e.kind = "failure"
  <2>1. Observe(g, e) = ObserveResult(g, e.name, TRUE)
    BY <1>4 DEF Observe
  <2>2. e.name \in CallNames /\ (e.name = "start" => StartAnswered(e))
    BY <1>4, EventFields DEF StartAnswered
  <2> HIDE DEF Kept
  <2>3. Kept(ObserveResult(g, e.name, TRUE))
    BY <1>2, <2>2
  <2> QED BY <2>1, <2>3 DEF Kept
<1>5. CASE e.kind = "report"
  BY <1>5 DEF Observe, GateOK, GateSet, Mild, Free, Holds
<1>6. CASE e.kind = "turn/end"
  <2>1. Observe(g, e) = ObserveEnd(g, e.reason)
    BY <1>6 DEF Observe
  <2>2. Kept(ObserveEnd(g, e.reason))
    BY DEF ObserveEnd, FinishGate, GateOK, GateSet, Mild, Free, Holds
  <2> QED BY <2>1, <2>2
<1>7. CASE e.kind \in {"chunk", "message"}
  BY <1>0, <1>7 DEF Observe
<1>8. e.kind \in {"call", "result", "failure", "report", "turn/end", "chunk", "message"}
  BY DEF Event
<1> QED BY <1>1, <1>3, <1>4, <1>5, <1>6, <1>7, <1>8

\* The call of a start shuts a free gate, and its result keeps it shut.
LEMMA StartHolds ==
  ASSUME NEW g, GateOK(g), NEW e \in Event
  PROVE  /\ Free(g) /\ StartCalled(e) => Observe(g, e).start /\ Holds(Observe(g, e))
         /\ g.start /\ Holds(g) /\ Started(e) => Observe(g, e).teamActive /\ Holds(Observe(g, e))
<1>1. Free(g) /\ StartCalled(e) => Observe(g, e).start /\ Holds(Observe(g, e))
  BY DEF StartCalled, Observe, ObserveCall, Begin, GateOK, GateSet, Free, Holds
<1>2. g.start /\ Holds(g) /\ Started(e) => Observe(g, e).teamActive /\ Holds(Observe(g, e))
  BY DEF Started, Observe, ObserveResult, GateOK, GateSet, Holds
<1> QED BY <1>1, <1>2

-----------------------------------------------------------------------------
(* Events that are logged and forwarded *)

LEMMA Grow ==
  ASSUME NEW f \in Seq(Event), NEW e \in Event
  PROVE  /\ \A i \in 1 .. Len(Append(f, e)) : \/ (i \in 1 .. Len(f) /\ Append(f, e)[i] = f[i])
                                              \/ (i = Len(f) + 1 /\ Append(f, e)[i] = e)
         /\ \A i \in 1 .. Len(f) : i \in 1 .. Len(Append(f, e)) /\ Append(f, e)[i] = f[i] /\ i < Len(f) + 1
         /\ Len(f) + 1 \in 1 .. Len(Append(f, e)) /\ Append(f, e)[Len(f) + 1] = e
<1>1. Len(f) \in Nat
  BY SeqFacts
<1>2. /\ Len(Append(f, e)) = Len(f) + 1 /\ Append(f, e)[Len(f) + 1] = e
      /\ \A i \in 1 .. Len(f) : Append(f, e)[i] = f[i]
  BY AppendFacts
<1>3. \A i \in 1 .. Len(f) + 1 : i \in 1 .. Len(f) \/ i = Len(f) + 1
  BY <1>1
<1>4. \A i \in 1 .. Len(f) : i \in 1 .. Len(f) + 1 /\ i < Len(f) + 1
  BY <1>1
<1>5. Len(f) + 1 \in 1 .. Len(f) + 1
  BY <1>1
<1> QED BY <1>2, <1>3, <1>4, <1>5

LEMMA Shrink ==
  ASSUME NEW f \in Seq(Event), f # <<>>
  PROVE  /\ \A i \in 1 .. Len(Tail(f)) : i + 1 \in 1 .. Len(f) /\ i + 1 > 1 /\ Tail(f)[i] = f[i + 1]
         /\ \A i \in 1 .. Len(f) : i = 1 \/ (i - 1 \in 1 .. Len(Tail(f)) /\ Tail(f)[i - 1] = f[i])
         /\ 1 \in 1 .. Len(f) /\ f[1] \in Event /\ Head(f) = f[1]
<1>1. /\ Len(f) \in Nat /\ Len(f) > 0 /\ Len(Tail(f)) = Len(f) - 1 /\ f[1] \in Event /\ Head(f) = f[1]
      /\ \A i \in 1 .. Len(f) - 1 : Tail(f)[i] = f[i + 1]
  BY SeqFacts
<1>2. \A i \in 1 .. Len(Tail(f)) : i + 1 \in 1 .. Len(f) /\ i + 1 > 1 /\ Tail(f)[i] = f[i + 1]
  BY <1>1
<1>3. ASSUME NEW i \in 1 .. Len(f), i # 1 PROVE i - 1 \in 1 .. Len(Tail(f)) /\ Tail(f)[i - 1] = f[i]
  <2>1. i - 1 \in 1 .. Len(f) - 1 /\ (i - 1) + 1 = i
    BY <1>1, <1>3
  <2> QED BY <1>1, <2>1
<1> QED BY <1>1, <1>2, <1>3

LEMMA GrowShuts ==
  ASSUME NEW f \in Seq(Event), NEW e \in Event
  PROVE  /\ NoneShuts(f) => OneShuts(Append(f, e))
         /\ ~Shuts(e) => /\ NoneShuts(f) => NoneShuts(Append(f, e))
                         /\ OneShuts(f) => OneShuts(Append(f, e))
                         /\ NoneShuts(Append(f, e)) => NoneShuts(f)
                         /\ \A m \in Nat : ShutsBy(f, m) => ShutsBy(Append(f, e), m)
<1> DEFINE g == Append(f, e)
<1>1. /\ \A i \in 1 .. Len(g) : (i \in 1 .. Len(f) /\ g[i] = f[i]) \/ (i = Len(f) + 1 /\ g[i] = e)
      /\ \A i \in 1 .. Len(f) : i \in 1 .. Len(g) /\ g[i] = f[i]
  BY Grow
<1> HIDE DEF g
<1>2. NoneShuts(f) => OneShuts(g)
  BY <1>1 DEF NoneShuts, OneShuts
<1>3. ~Shuts(e) /\ NoneShuts(f) => NoneShuts(g)
  BY <1>1 DEF NoneShuts
<1>4. ~Shuts(e) /\ OneShuts(f) => OneShuts(g)
  BY <1>1 DEF OneShuts
<1>5. NoneShuts(g) => NoneShuts(f)
  BY <1>1 DEF NoneShuts
<1>6. ~Shuts(e) => \A m \in Nat : ShutsBy(f, m) => ShutsBy(g, m)
  BY <1>1 DEF ShutsBy
<1> QED BY <1>2, <1>3, <1>4, <1>5, <1>6 DEF g

LEMMA GrowWaits ==
  ASSUME NEW f \in Seq(Event), NEW e \in Event, NEW g
  PROVE  /\ StartCalled(e) => CallWaits(Append(f, e))
         /\ ~StartAnswered(e) => /\ CallWaits(f) => CallWaits(Append(f, e))
                                 /\ CallSeen(f, g) => CallSeen(Append(f, e), g)
         /\ ~StartAnswered(e) /\ ~Deleted(e) =>
              /\ TeamWaits(f) => TeamWaits(Append(f, e))
              /\ ResultWaits(f, g) => ResultWaits(Append(f, e), g)
              /\ TeamSeen(f, g) => TeamSeen(Append(f, e), g)
         /\ Started(e) => /\ CallWaits(f) => TeamWaits(Append(f, e))
                          /\ CallSeen(f, g) => ResultWaits(Append(f, e), g)
<1> DEFINE h == Append(f, e)
           n == Len(f) + 1
<1>1. /\ \A i \in 1 .. Len(h) : (i \in 1 .. Len(f) /\ h[i] = f[i]) \/ (i = n /\ h[i] = e)
      /\ \A i \in 1 .. Len(f) : i \in 1 .. Len(h) /\ h[i] = f[i] /\ i < n
      /\ n \in 1 .. Len(h) /\ h[n] = e
  BY Grow
<1>2. n \in Nat /\ n > 0 /\ \A k \in 1 .. Len(h) : ~(k > n)
  <2>1. Len(f) \in Nat /\ Len(h) = n
    BY SeqFacts, AppendFacts
  <2> QED BY <2>1
<1> HIDE DEF h, n
<1>3. StartCalled(e) => CallWaits(h)
  BY <1>1, <1>2 DEF CallWaits
<1>4. ~StartAnswered(e) /\ CallWaits(f) => CallWaits(h)
  <2> SUFFICES ASSUME ~StartAnswered(e), CallWaits(f) PROVE CallWaits(h)
    OBVIOUS
  <2>1. PICK i \in 1 .. Len(f) : StartCalled(f[i]) /\ \A k \in 1 .. Len(f) : k > i => ~StartAnswered(f[k])
    BY DEF CallWaits
  <2>2. i \in 1 .. Len(h) /\ StartCalled(h[i])
    BY <1>1, <2>1
  <2>3. \A k \in 1 .. Len(h) : k > i => ~StartAnswered(h[k])
    BY <1>1, <2>1
  <2> QED BY <2>2, <2>3 DEF CallWaits
<1>5. ~StartAnswered(e) /\ CallSeen(f, g) => CallSeen(h, g)
  BY <1>1 DEF CallSeen
<1>6. ASSUME ~StartAnswered(e), ~Deleted(e), NEW i \in 0 .. Len(f), NEW j \in 1 .. Len(f), Latest(f, i, j)
      PROVE  Latest(h, i, j)
  <2>1. Started(h[j]) /\ i < j
    BY <1>1, <1>6 DEF Latest
  <2>2. ASSUME NEW k \in 1 .. Len(h) PROVE (k > i /\ StartAnswered(h[k]) => k = j) /\ (k > j => ~Deleted(h[k]))
    BY <1>1, <1>6 DEF Latest
  <2> QED BY <2>1, <2>2 DEF Latest
<1>7. ~StartAnswered(e) /\ ~Deleted(e) /\ TeamWaits(f) => TeamWaits(h)
  <2> SUFFICES ASSUME ~StartAnswered(e), ~Deleted(e), TeamWaits(f) PROVE TeamWaits(h)
    OBVIOUS
  <2>1. PICK i \in 1 .. Len(f), j \in 1 .. Len(f) : StartCalled(f[i]) /\ Latest(f, i, j)
    BY DEF TeamWaits
  <2>2. i \in 0 .. Len(f)
    OBVIOUS
  <2>3. Latest(h, i, j)
    BY <1>6, <2>1, <2>2
  <2> QED BY <1>1, <2>1, <2>3 DEF TeamWaits
<1>8. ~StartAnswered(e) /\ ~Deleted(e) /\ ResultWaits(f, g) => ResultWaits(h, g)
  <2> SUFFICES ASSUME ~StartAnswered(e), ~Deleted(e), ResultWaits(f, g) PROVE ResultWaits(h, g)
    OBVIOUS
  <2>1. PICK j \in 1 .. Len(f) : Latest(f, 0, j)
    BY DEF ResultWaits
  <2>2. 0 \in 0 .. Len(f)
    BY SeqFacts
  <2>3. Latest(h, 0, j)
    BY <1>6, <2>1, <2>2
  <2> QED BY <1>1, <2>3 DEF ResultWaits
<1>9. ~StartAnswered(e) /\ ~Deleted(e) /\ TeamSeen(f, g) => TeamSeen(h, g)
  BY <1>1 DEF TeamSeen
<1>10. Started(e) /\ CallWaits(f) => TeamWaits(h)
  <2> SUFFICES ASSUME Started(e), CallWaits(f) PROVE TeamWaits(h)
    OBVIOUS
  <2>1. PICK i \in 1 .. Len(f) : StartCalled(f[i]) /\ \A k \in 1 .. Len(f) : k > i => ~StartAnswered(f[k])
    BY DEF CallWaits
  <2>2. i \in 1 .. Len(h) /\ StartCalled(h[i]) /\ i < n
    BY <1>1, <2>1
  <2>3. Latest(h, i, n)
    BY <1>1, <1>2, <2>1, <2>2 DEF Latest
  <2> QED BY <1>1, <2>2, <2>3 DEF TeamWaits
<1>11. Started(e) /\ CallSeen(f, g) => ResultWaits(h, g)
  <2> SUFFICES ASSUME Started(e), CallSeen(f, g) PROVE ResultWaits(h, g)
    OBVIOUS
  <2>1. Latest(h, 0, n)
    BY <1>1, <1>2 DEF Latest, CallSeen
  <2> QED BY <1>1, <2>1 DEF ResultWaits, CallSeen
<1> QED BY <1>3, <1>4, <1>5, <1>7, <1>8, <1>9, <1>10, <1>11 DEF h

LEMMA ShrinkShuts ==
  ASSUME NEW f \in Seq(Event), f # <<>>
  PROVE  /\ NoneShuts(f) => NoneShuts(Tail(f)) /\ ~Shuts(f[1])
         /\ OneShuts(f) => OneShuts(Tail(f)) /\ (Shuts(f[1]) => NoneShuts(Tail(f)))
         /\ \A m \in Nat : ShutsBy(f, m) => ShutsBy(Tail(f), IF m = 0 THEN 0 ELSE m - 1)
<1> DEFINE g == Tail(f)
<1>1. /\ \A i \in 1 .. Len(g) : i + 1 \in 1 .. Len(f) /\ i + 1 > 1 /\ g[i] = f[i + 1]
      /\ 1 \in 1 .. Len(f)
  BY Shrink
<1>0. Len(g) \in Nat
  BY SeqFacts
<1> HIDE DEF g
<1>2. NoneShuts(f) => NoneShuts(g) /\ ~Shuts(f[1])
  BY <1>1 DEF NoneShuts
<1>3. OneShuts(f) => OneShuts(g)
  <2> SUFFICES ASSUME OneShuts(f), NEW i \in 1 .. Len(g), NEW j \in 1 .. Len(g), Shuts(g[i]), Shuts(g[j]) PROVE i = j
    BY DEF OneShuts
  <2>1. i + 1 = j + 1
    BY <1>1 DEF OneShuts
  <2> QED BY <2>1
<1>4. OneShuts(f) /\ Shuts(f[1]) => NoneShuts(g)
  <2> SUFFICES ASSUME OneShuts(f), Shuts(f[1]), NEW i \in 1 .. Len(g), Shuts(g[i]) PROVE FALSE
    BY DEF NoneShuts
  <2>1. i + 1 = 1
    BY <1>1 DEF OneShuts
  <2> QED BY <1>1, <2>1
<1>5. ASSUME NEW m \in Nat, ShutsBy(f, m) PROVE ShutsBy(g, IF m = 0 THEN 0 ELSE m - 1)
  <2> SUFFICES ASSUME NEW i \in 1 .. Len(g), Shuts(g[i]) PROVE i <= IF m = 0 THEN 0 ELSE m - 1
    BY DEF ShutsBy
  <2>1. i + 1 <= m
    BY <1>1, <1>5 DEF ShutsBy
  <2> QED BY <1>0, <2>1
<1> QED BY <1>2, <1>3, <1>4, <1>5 DEF g

LEMMA ShrinkCall ==
  ASSUME NEW f \in Seq(Event), f # <<>>
  PROVE  /\ (\A k \in 1 .. Len(f) : ~StartAnswered(f[k]))
              => ~StartAnswered(f[1]) /\ \A k \in 1 .. Len(Tail(f)) : ~StartAnswered(Tail(f)[k])
         /\ (\A k \in 1 .. Len(f) : ~Deleted(f[k]))
              => ~Deleted(f[1]) /\ \A k \in 1 .. Len(Tail(f)) : ~Deleted(Tail(f)[k])
         /\ CallWaits(f) => \/ CallWaits(Tail(f))
                            \/ /\ StartCalled(f[1])
                               /\ \A k \in 1 .. Len(Tail(f)) : ~StartAnswered(Tail(f)[k])
<1> DEFINE g == Tail(f)
<1>1. /\ \A i \in 1 .. Len(g) : i + 1 \in 1 .. Len(f) /\ i + 1 > 1 /\ g[i] = f[i + 1]
      /\ \A i \in 1 .. Len(f) : i = 1 \/ (i - 1 \in 1 .. Len(g) /\ g[i - 1] = f[i])
      /\ 1 \in 1 .. Len(f)
  BY Shrink
<1> HIDE DEF g
<1>2. (\A k \in 1 .. Len(f) : ~StartAnswered(f[k])) => ~StartAnswered(f[1]) /\ \A k \in 1 .. Len(g) : ~StartAnswered(g[k])
  BY <1>1
<1>3. (\A k \in 1 .. Len(f) : ~Deleted(f[k])) => ~Deleted(f[1]) /\ \A k \in 1 .. Len(g) : ~Deleted(g[k])
  BY <1>1
<1>4. ASSUME CallWaits(f) PROVE CallWaits(g) \/ (StartCalled(f[1]) /\ \A k \in 1 .. Len(g) : ~StartAnswered(g[k]))
  <2>1. PICK i \in 1 .. Len(f) : StartCalled(f[i]) /\ \A k \in 1 .. Len(f) : k > i => ~StartAnswered(f[k])
    BY <1>4 DEF CallWaits
  <2>2. CASE i = 1
    BY <1>1, <2>1, <2>2
  <2>3. CASE i # 1
    <3>1. i - 1 \in 1 .. Len(g) /\ StartCalled(g[i - 1])
      BY <1>1, <2>1, <2>3
    <3>2. ASSUME NEW k \in 1 .. Len(g), k > i - 1 PROVE ~StartAnswered(g[k])
      <4>1. k + 1 > i
        BY <3>2
      <4> QED BY <1>1, <2>1, <4>1
    <3> QED BY <3>1, <3>2 DEF CallWaits
  <2> QED BY <2>2, <2>3
<1> QED BY <1>2, <1>3, <1>4 DEF g

LEMMA ShrinkTeam ==
  ASSUME NEW f \in Seq(Event), f # <<>>
  PROVE  /\ TeamWaits(f) => \/ TeamWaits(Tail(f))
                            \/ StartCalled(f[1]) /\ \E j \in 1 .. Len(Tail(f)) : Latest(Tail(f), 0, j)
         /\ (\E j \in 1 .. Len(f) : Latest(f, 0, j))
              => \/ ~StartAnswered(f[1]) /\ \E j \in 1 .. Len(Tail(f)) : Latest(Tail(f), 0, j)
                 \/ /\ Started(f[1])
                    /\ \A k \in 1 .. Len(Tail(f)) : ~StartAnswered(Tail(f)[k]) /\ ~Deleted(Tail(f)[k])
<1> DEFINE g == Tail(f)
<1>1. /\ \A i \in 1 .. Len(g) : i + 1 \in 1 .. Len(f) /\ i + 1 > 1 /\ g[i] = f[i + 1]
      /\ \A i \in 1 .. Len(f) : i = 1 \/ (i - 1 \in 1 .. Len(g) /\ g[i - 1] = f[i])
      /\ 1 \in 1 .. Len(f)
  BY Shrink
<1> HIDE DEF g
<1>2. ASSUME NEW i \in 1 .. Len(f), NEW j \in 1 .. Len(f), Latest(f, i, j)
      PROVE  j - 1 \in 1 .. Len(g) /\ Latest(g, i - 1, j - 1)
  <2>1. Started(f[j]) /\ i < j
    BY <1>2 DEF Latest
  <2>2. j - 1 \in 1 .. Len(g) /\ g[j - 1] = f[j] /\ i - 1 < j - 1
    BY <1>1, <2>1
  <2>3. ASSUME NEW k \in 1 .. Len(g) PROVE (k > i - 1 /\ StartAnswered(g[k]) => k = j - 1) /\ (k > j - 1 => ~Deleted(g[k]))
    <3>1. k + 1 \in 1 .. Len(f) /\ g[k] = f[k + 1] /\ (k > i - 1 => k + 1 > i) /\ (k > j - 1 => k + 1 > j)
      BY <1>1
    <3>2. (k + 1 > i /\ StartAnswered(f[k + 1]) => k + 1 = j) /\ (k + 1 > j => ~Deleted(f[k + 1]))
      BY <1>2, <3>1 DEF Latest
    <3> QED BY <3>1, <3>2
  <2> QED BY <2>1, <2>2, <2>3 DEF Latest
<1>3. ASSUME TeamWaits(f) PROVE TeamWaits(g) \/ (StartCalled(f[1]) /\ \E j \in 1 .. Len(g) : Latest(g, 0, j))
  <2>1. PICK i \in 1 .. Len(f), j \in 1 .. Len(f) : StartCalled(f[i]) /\ Latest(f, i, j)
    BY <1>3 DEF TeamWaits
  <2>2. j - 1 \in 1 .. Len(g) /\ Latest(g, i - 1, j - 1)
    BY <1>2, <2>1
  <2>3. CASE i = 1
    BY <2>1, <2>2, <2>3
  <2>4. CASE i # 1
    <3>1. i - 1 \in 1 .. Len(g) /\ StartCalled(g[i - 1])
      BY <1>1, <2>1, <2>4
    <3> QED BY <2>2, <3>1 DEF TeamWaits
  <2> QED BY <2>3, <2>4
<1>4. ASSUME NEW j \in 1 .. Len(f), Latest(f, 0, j)
      PROVE  \/ ~StartAnswered(f[1]) /\ \E k \in 1 .. Len(g) : Latest(g, 0, k)
             \/ Started(f[1]) /\ \A k \in 1 .. Len(g) : ~StartAnswered(g[k]) /\ ~Deleted(g[k])
  <2>1. Started(f[j]) /\ \A k \in 1 .. Len(f) : (StartAnswered(f[k]) => k = j) /\ (k > j => ~Deleted(f[k]))
    BY <1>4 DEF Latest
  <2>2. CASE j = 1
    BY <1>1, <2>1, <2>2
  <2>3. CASE j # 1
    <3>1. j - 1 \in 1 .. Len(g) /\ g[j - 1] = f[j] /\ 0 < j - 1
      BY <1>1, <2>3
    <3>2. ASSUME NEW k \in 1 .. Len(g) PROVE (StartAnswered(g[k]) => k = j - 1) /\ (k > j - 1 => ~Deleted(g[k]))
      <4>1. k + 1 \in 1 .. Len(f) /\ g[k] = f[k + 1] /\ (k > j - 1 => k + 1 > j)
        BY <1>1
      <4> QED BY <2>1, <4>1
    <3>3. Latest(g, 0, j - 1)
      BY <2>1, <3>1, <3>2 DEF Latest
    <3> QED BY <1>1, <2>1, <2>3, <3>1, <3>3
  <2> QED BY <2>2, <2>3
<1> QED BY <1>3, <1>4 DEF g

-----------------------------------------------------------------------------
(* The agent's steps *)

\* A step of the agent that neither calls a team or a template nor starts a team.
AgentKeeps ==
  /\ UNCHANGED <<phase, active, mark, failing, broken, gate, hurt, begun, early, starter>>
  /\ agent'.call = "start" => agent.call = "start"
  /\ Unread' => Unread
  /\ \/ forwards' = forwards
     \/ \E e \in Event : /\ Log(e) /\ ~Shuts(e)
                         /\ agent'.call = "start" => ~StartAnswered(e)
                         /\ Unread' => ~StartAnswered(e) /\ ~Deleted(e)

LEMMA KeepsHeld ==
  ASSUME SessionInv, HeldInv, active # NoCommand, AgentKeeps
  PROVE  Shutting' /\ Holding' /\ Knowing'
<1>0. /\ UNCHANGED <<phase, active, mark, failing, broken, gate, hurt, begun, early, starter>>
      /\ agent'.call = "start" => agent.call = "start"
      /\ Unread' => Unread
  BY DEF AgentKeeps
<1>a. Shutting /\ Holding /\ Knowing
  BY DEF HeldInv
<1>b. forwards \in Seq(Event) /\ mark \in Nat
  <2>1. forwards \in Seq(Event) /\ mark \in 0 .. Len(forwards) /\ Len(forwards) \in Nat
    BY SeqFacts DEF SessionInv, SessionTypeOK
  <2> QED BY <2>1
<1>1. CASE forwards' = forwards
  <2>1. Shutting'
    BY <1>0, <1>a, <1>1 DEF Shutting
  <2>2. Holding'
    BY <1>0, <1>a, <1>1 DEF Holding, OneCall, Passed
  <2>3. Knowing'
    BY <1>0, <1>a, <1>1 DEF Knowing, OneCall
  <2> QED BY <2>1, <2>2, <2>3
<1>2. ASSUME NEW e \in Event, ~Shuts(e), forwards' = Append(forwards, e),
             agent'.call = "start" => ~StartAnswered(e),
             Unread' => ~StartAnswered(e) /\ ~Deleted(e)
      PROVE  Shutting' /\ Holding' /\ Knowing'
  <2>0. /\ NoneShuts(forwards) => NoneShuts(forwards')
        /\ OneShuts(forwards) => OneShuts(forwards')
        /\ NoneShuts(forwards') => NoneShuts(forwards)
        /\ ShutsBy(forwards, mark) => ShutsBy(forwards', mark)
    BY <1>b, <1>2, GrowShuts
  <2>1. Shutting'
    BY <1>0, <1>a, <2>0 DEF Shutting
  <2>2. Holding'
    BY <1>0, <1>a, <2>0 DEF Holding, OneCall, Passed
  <2>3. /\ ~StartAnswered(e) => /\ CallWaits(forwards) => CallWaits(forwards')
                                /\ CallSeen(forwards, gate) => CallSeen(forwards', gate)
        /\ ~StartAnswered(e) /\ ~Deleted(e) =>
             /\ TeamWaits(forwards) => TeamWaits(forwards')
             /\ ResultWaits(forwards, gate) => ResultWaits(forwards', gate)
             /\ TeamSeen(forwards, gate) => TeamSeen(forwards', gate)
    BY <1>b, <1>2, GrowWaits
  <2>4. Knowing'
    BY <1>0, <1>2, <1>a, <2>3 DEF Knowing, OneCall
  <2> QED BY <2>1, <2>2, <2>4
<1> QED BY <1>1, <1>2 DEF AgentKeeps, Log

LEMMA CallStarts ==
  ASSUME SessionInv, HeldInv, active # NoCommand, NEW name \in {"start", "template"}, name \in SessionCalls, AgentCalls(name)
  PROVE  Shutting' /\ Holding' /\ Knowing'
<1> DEFINE e == [kind |-> "call", name |-> name]
<1>0. /\ UNCHANGED <<phase, active, mark, failing, broken, gate, hurt, team, seenDone>>
      /\ begun' = IF begun < 2 THEN begun + 1 ELSE begun
      /\ early' = (phase[active] = "running")
      /\ starter' = IF name = "start" THEN active ELSE starter
      /\ name = "start" => team = "none"
  BY DEF AgentCalls, askVars, gateVars, snapVars
<1>a. Shutting /\ Holding /\ Knowing
  BY DEF HeldInv
<1>b. forwards \in Seq(Event) /\ begun \in 0 .. 2 /\ agent \in AgentSet /\ name \in CallNames
  BY DEF SessionInv, SessionTypeOK, AgentSet, CallNames
<1>c. agent'.call = name
  BY <1>b DEF AgentCalls, AgentSet
<1>d. e \in Event
  BY <1>b, EventKinds
<1>1. begun' >= 1 /\ (begun' <= 1 => begun = 0 /\ begun' = 1)
  BY <1>0, <1>b
<1>2. forwards' = forwards \/ forwards' = Append(forwards, e)
  BY DEF AgentCalls, Log
<1>e. OneCall' => phase'[active'] = "running"
  <2>1. begun' # 0
    BY <1>1
  <2>2. OneCall' => early'
    BY <2>1 DEF OneCall
  <2>3. early' => phase'[active'] = "running"
    BY <1>0
  <2> QED BY <2>2, <2>3
<1>3. NoneShuts(forwards) => OneShuts(forwards')
  <2>1. NoneShuts(forwards) => OneShuts(forwards)
    BY DEF NoneShuts, OneShuts
  <2> QED BY <1>2, <1>b, <1>d, <2>1, GrowShuts
<1>4. Shutting'
  BY <1>0, <1>1, <1>3, <1>a DEF Shutting
<1>5. Holding'
  <2>1. (phase'[active'] = "delivering" => ~early')
    BY <1>0
  <2>2. OneCall' => phase'[active'] = "running"
    BY <1>e
  <2>3. "running" \notin Past /\ "running" # "settling" /\ "running" # "cleaning" /\ "running" # "draining" /\ "running" # "waking"
    BY DEF Past
  <2> HIDE DEF e
  <2> QED BY <1>1, <2>1, <2>2, <2>3 DEF Holding, Passed
<1>6. CASE name = "start"
  <2>1. ~Unread'
    BY <1>0, <1>6 DEF Unread
  <2>2. ~broken' => forwards' = Append(forwards, e) /\ StartCalled(e)
    BY <1>0, <1>6 DEF AgentCalls, Log, StartCalled
  <2> HIDE DEF e
  <2>3. ~broken' => CallWaits(forwards')
    BY <1>b, <1>d, <2>2, GrowWaits
  <2> QED BY <1>4, <1>5, <2>1, <2>3 DEF Knowing
<1>7. CASE name = "template"
  <2>1. starter' = active' => begun >= 1
    BY <1>0, <1>7, <1>a DEF Holding
  <2>2. starter' = active' => begun' = 2
    BY <1>0, <1>b, <2>1
  <2>3. OneCall' /\ phase'[active'] = "cleaning" => FALSE
    BY <1>e
  <2> QED BY <1>4, <1>5, <2>2, <2>3 DEF Knowing
<1> QED BY <1>6, <1>7

LEMMA StartSucceeds ==
  ASSUME SessionInv, HeldInv, active # NoCommand, CallSucceeds, agent.call = "start"
  PROVE  Shutting' /\ Holding' /\ Knowing'
<1> DEFINE e == [kind |-> "result", name |-> "start"]
<1>0. /\ UNCHANGED <<phase, active, mark, failing, broken, gate, hurt, begun, early, starter>>
  BY DEF CallSucceeds, askVars, gateVars, callVars
<1>a. Shutting /\ Holding /\ Knowing
  BY DEF HeldInv
<1>b. forwards \in Seq(Event) /\ agent \in AgentSet /\ mark \in Nat
  <2>1. forwards \in Seq(Event) /\ mark \in 0 .. Len(forwards) /\ Len(forwards) \in Nat /\ agent \in AgentSet
    BY SeqFacts DEF SessionInv, SessionTypeOK, AgentSet
  <2> QED BY <2>1
<1>c. agent'.call = "none"
  BY <1>b DEF CallSucceeds, AgentSet
<1>d. e \in Event /\ ~Shuts(e) /\ Started(e)
  <2>1. e \in Event
    BY EventKinds DEF CallNames
  <2> QED BY <2>1 DEF Shuts, Started
<1>2. (broken /\ forwards' = forwards) \/ (~broken /\ forwards' = Append(forwards, e))
  BY DEF CallSucceeds, Log
<1> HIDE DEF e
<1>3. /\ NoneShuts(forwards) => NoneShuts(forwards')
      /\ OneShuts(forwards) => OneShuts(forwards')
      /\ NoneShuts(forwards') => NoneShuts(forwards)
      /\ ShutsBy(forwards, mark) => ShutsBy(forwards', mark)
  BY <1>2, <1>b, <1>d, GrowShuts
<1>4. Shutting'
  BY <1>0, <1>3, <1>a DEF Shutting
<1>5. Holding'
  BY <1>0, <1>3, <1>a, <1>c DEF Holding, OneCall, Passed
<1>6. ~broken => /\ CallWaits(forwards) => TeamWaits(forwards')
                 /\ CallSeen(forwards, gate) => ResultWaits(forwards', gate)
  BY <1>2, <1>b, <1>d, GrowWaits
<1>7. ~broken' /\ begun' = 1 /\ starter' = active' => TeamWaits(forwards') \/ ResultWaits(forwards', gate')
  BY <1>0, <1>6, <1>a DEF Knowing
<1>8. OneCall' /\ phase'[active'] = "cleaning" => starter' # active'
  <2>1. "cleaning" \in Past
    BY DEF Past
  <2> QED BY <1>0, <1>a, <2>1 DEF Holding, OneCall
<1> QED BY <1>4, <1>5, <1>7, <1>8, <1>c DEF Knowing, Unread

LEMMA AgentHolds ==
  ASSUME SessionInv, HeldInv, active # NoCommand, AgentActs
  PROVE  Shutting' /\ Holding' /\ Knowing'
<1>0. agent \in AgentSet /\ SessionCalls \subseteq {"start", "delete", "template"}
  BY SessionAssumption DEF SessionInv, SessionTypeOK, AgentSet
<1>a. agent.call = "start" => team = "none"
  BY DEF HeldInv, Behind
<1> DEFINE Still == UNCHANGED <<phase, active, mark, failing, broken, gate, hurt, begun, early, starter>>
           Other(k) == k \notin {"call", "result", "failure"}
<1>b. ASSUME NEW e \in Event, Log(e), Still, Other(e.kind), agent'.call = "start" => agent.call = "start", Unread' => Unread
      PROVE  AgentKeeps
  <2>1. ~Shuts(e) /\ ~StartAnswered(e) /\ ~Deleted(e)
    BY <1>b DEF Shuts, StartAnswered, Deleted
  <2> QED BY <1>b, <2>1 DEF AgentKeeps
<1>1. CASE AgentStarts
  <2>1. agent'.call = agent.call
    BY <1>0, <1>1 DEF AgentStarts, AgentSet
  <2>2. AgentKeeps
    BY <1>1, <2>1 DEF AgentStarts, AgentKeeps, Unread, askVars, streamVars, callVars, gateVars, snapVars
  <2> QED BY <2>2, KeepsHeld
<1>2. CASE AgentSpeaks
  <2>1. agent'.call = agent.call
    BY <1>0, <1>2 DEF AgentSpeaks, AgentSet
  <2>2. Still /\ UNCHANGED <<team, seenDone>>
    BY <1>2 DEF AgentSpeaks, askVars, callVars, gateVars, snapVars
  <2>3. [kind |-> "chunk", piece |-> agent.pieces + 1] \in Event
    <3>1. agent.pieces + 1 \in 1 .. MaxPieces
      BY <1>0, <1>2, SessionAssumption DEF AgentSpeaks, AgentSet
    <3> QED BY <3>1, EventKinds
  <2>4. AgentKeeps
    BY <1>2, <1>b, <2>1, <2>2, <2>3 DEF AgentSpeaks, Unread
  <2> QED BY <2>4, KeepsHeld
<1>3. ASSUME NEW r \in TurnEnds, AgentStops(r) PROVE Shutting' /\ Holding' /\ Knowing'
  <2>1. agent'.call = agent.call
    BY <1>0, <1>3 DEF AgentStops, AgentSet
  <2>2. Still /\ UNCHANGED <<team, seenDone>>
    BY <1>3 DEF AgentStops, askVars, callVars, gateVars, snapVars
  <2>4. AgentKeeps
    BY <1>3, <1>b, <2>1, <2>2, EventKinds DEF AgentStops, Unread
  <2> QED BY <2>4, KeepsHeld
<1>4. CASE AgentWakes
  <2>1. agent'.call = agent.call
    BY <1>0, <1>4 DEF AgentWakes, AgentSet
  <2>2. Still /\ UNCHANGED <<team, seenDone>>
    BY <1>4 DEF AgentWakes, askVars, callVars, gateVars, snapVars
  <2>3. Unread' => Unread
    BY <2>2 DEF Unread
  <2>4. AgentKeeps
    <3>1. CASE Log([kind |-> "message"])
      BY <1>b, <2>1, <2>2, <2>3, <3>1, EventKinds
    <3>2. CASE Log([kind |-> "report"])
      BY <1>b, <2>1, <2>2, <2>3, <3>2, EventKinds
    <3> QED BY <1>4, <3>1, <3>2 DEF AgentWakes
  <2> QED BY <2>4, KeepsHeld
<1>5. CASE TeamSettles \/ TeamReopens
  <2>1. agent'.call = agent.call
    BY <1>0, <1>5 DEF TeamSettles, TeamReopens, AgentSet
  <2>2. Still /\ UNCHANGED <<seenDone>> /\ team # "none" /\ Log([kind |-> "message"])
    BY <1>5 DEF TeamSettles, TeamReopens, askVars, callVars, gateVars, snapVars
  <2>3. Unread' => Unread
    BY <2>2 DEF Unread
  <2>4. AgentKeeps
    BY <1>b, <2>1, <2>2, <2>3, EventKinds
  <2> QED BY <2>4, KeepsHeld
<1>6. ASSUME NEW name \in SessionCalls, AgentCalls(name) PROVE Shutting' /\ Holding' /\ Knowing'
  <2>1. CASE name = "delete"
    <3>1. agent'.call = "delete"
      BY <1>0, <1>6, <2>1 DEF AgentCalls, AgentSet
    <3>2. Still /\ UNCHANGED <<team, seenDone>>
      BY <1>6, <2>1 DEF AgentCalls, askVars, gateVars, snapVars
    <3>3. [kind |-> "call", name |-> "delete"] \in Event
      BY EventKinds DEF CallNames
    <3>4. AgentKeeps
      BY <1>6, <2>1, <3>1, <3>2, <3>3 DEF AgentCalls, AgentKeeps, Unread, Shuts, StartAnswered, Deleted
    <3> QED BY <3>4, KeepsHeld
  <2>2. CASE name \in {"start", "template"}
    BY <1>6, <2>2, CallStarts
  <2> QED BY <1>0, <2>1, <2>2
<1>7. CASE CallSucceeds
  <2>1. CASE agent.call = "start"
    BY <1>7, <2>1, StartSucceeds
  <2>2. CASE agent.call # "start"
    <3>1. agent'.call = "none"
      BY <1>0, <1>7 DEF CallSucceeds, AgentSet
    <3>2. Still
      BY <1>7 DEF CallSucceeds, askVars, callVars, gateVars
    <3>0. agent.call \in {"delete", "template"} /\ agent.call \in CallNames
      BY <1>0, <1>7, <2>2 DEF CallSucceeds, AgentSet, CallNames
    <3> DEFINE e == [kind |-> "result", name |-> agent.call]
    <3>3. e \in Event /\ Log(e)
      BY <1>7, <3>0, EventKinds DEF CallSucceeds
    <3>4. ~Shuts(e) /\ ~StartAnswered(e)
      BY <2>2 DEF Shuts, StartAnswered
    <3>5. Unread' => Unread /\ ~Deleted(e)
      <4>1. CASE agent.call = "delete"
        BY <1>7, <4>1 DEF CallSucceeds, Unread
      <4>2. CASE agent.call = "template"
        BY <1>7, <3>2, <4>2 DEF CallSucceeds, Unread, Deleted
      <4> QED BY <3>0, <4>1, <4>2
    <3> HIDE DEF e
    <3>6. AgentKeeps
      BY <3>1, <3>2, <3>3, <3>4, <3>5 DEF AgentKeeps
    <3> QED BY <3>6, KeepsHeld
  <2> QED BY <2>1, <2>2
<1>8. CASE CallFails
  <2>1. agent'.call = "none"
    BY <1>0, <1>8 DEF CallFails, AgentSet
  <2>2. Still /\ UNCHANGED <<team, seenDone>>
    BY <1>8 DEF CallFails, askVars, callVars, gateVars, snapVars
  <2>0. agent.call \in CallNames
    BY <1>0, <1>8 DEF CallFails, AgentSet, CallNames
  <2> DEFINE e == [kind |-> "failure", name |-> agent.call]
  <2>3. e \in Event /\ Log(e)
    BY <1>8, <2>0, EventKinds DEF CallFails
  <2>4. ~Shuts(e) /\ ~Deleted(e) /\ (StartAnswered(e) => agent.call = "start")
    BY DEF Shuts, StartAnswered, Deleted
  <2>5. Unread' => Unread /\ agent.call # "start"
    BY <1>a, <2>2 DEF Unread
  <2> HIDE DEF e
  <2>6. AgentKeeps
    BY <2>1, <2>2, <2>3, <2>4, <2>5 DEF AgentKeeps
  <2> QED BY <2>6, KeepsHeld
<1> QED BY <1>1, <1>2, <1>3, <1>4, <1>5, <1>6, <1>7, <1>8 DEF AgentActs

-----------------------------------------------------------------------------
(* The steps of performAsk *)

\* Of the start of a team whose gate is free and has nothing to see, nothing waits.
LEMMA FreeKnows ==
  ASSUME NEW f \in Seq(Event), NEW g, NoneShuts(f), Free(g)
  PROVE  ~TeamWaits(f) /\ ~ResultWaits(f, g) /\ ~TeamSeen(f, g)
<1>1. ~TeamWaits(f)
  BY DEF TeamWaits, NoneShuts, StartCalled, Shuts
<1>2. ~Holds(g)
  BY DEF Free, Holds
<1> QED BY <1>1, <1>2 DEF ResultWaits, TeamSeen

LEMMA AskHolds ==
  ASSUME SessionInv, HeldInv, AskMoves, active' # NoCommand
  PROVE  Shutting' /\ Holding' /\ Knowing'
<1>0. /\ phase \in [Command -> AskPhase] /\ forwards \in Seq(Event) /\ mark \in 0 .. Len(forwards)
      /\ agent \in AgentSet /\ gate.failed \in BOOLEAN /\ begun \in 0 .. 2 /\ early \in BOOLEAN
      /\ broken \in BOOLEAN /\ hurt \in BOOLEAN
  BY DEF SessionInv, SessionTypeOK, AgentSet
<1>1. ASSUME NEW c \in Command, Ask(c) PROVE Shutting' /\ Holding' /\ Knowing'
  <2>1. active # NoCommand /\ UNCHANGED <<active, agent, team, starter, forwards, broken, begun, early, gate, hurt,
                                         seenDone, mark, failing>>
    BY <1>1 DEF Ask, agentVars, streamVars, callVars, gateVars, snapVars
  <2>2. phase'[active] = phase[active]
    <3>1. active \in Command /\ phase[active] # "new"
      BY <2>1, ActiveWorks DEF AtWork
    <3> QED BY <1>0, <1>1, <3>1 DEF Ask
  <2>3. Shutting /\ Holding /\ Knowing
    BY <2>1 DEF HeldInv
  <2> QED BY <2>1, <2>2, <2>3 DEF Shutting, Holding, Knowing, OneCall, Passed, Unread
<1>2. ASSUME OpenFails PROVE FALSE
  <2>1. active # NoCommand
    BY <1>2 DEF OpenFails
  <2>2. NextAsk = active /\ phase[active] \in AtWork
    BY <2>1, ActiveWorks
  <2> QED BY <1>2, <2>2 DEF OpenFails, AtWork
<1>3. ASSUME Registers PROVE Shutting' /\ Holding' /\ Knowing'
  <2>1. /\ active' = NextAsk /\ phase[NextAsk] = "queued" /\ phase' = [phase EXCEPT ![NextAsk] = "delivering"]
        /\ forwards' = <<>> /\ gate' = NoGate /\ hurt' = FALSE /\ begun' = 0 /\ early' = FALSE
        /\ starter' = starter /\ asks # <<>>
    BY <1>3 DEF Registers
  <2>2. NextAsk \in Command
    <3>1. asks \in Seq(Command)
      BY DEF SessionInv, SessionTypeOK
    <3> QED BY <2>1, <3>1, SeqFacts DEF NextAsk
  <2>3. starter' # active'
    BY <2>1, <2>2 DEF HeldInv, Behind
  <2>4. NoneShuts(<<>>) /\ OneShuts(<<>>)
    BY DEF NoneShuts, OneShuts
  <2>5. Free(NoGate)
    BY DEF Free, NoGate
  <2>6. Shutting'
    BY <2>1, <2>4, <2>5 DEF Shutting
  <2>7. phase'[active'] = "delivering"
    BY <1>0, <2>1, <2>2
  <2>8. "delivering" \notin Past
    BY DEF Past
  <2> QED BY <2>1, <2>3, <2>6, <2>7, <2>8 DEF Holding, Knowing, Passed, Unread
<1>4. ASSUME CleanUpAsk PROVE FALSE
  BY <1>4 DEF CleanUpAsk
<1> DEFINE Progress == Delivers \/ DeliveryFails \/ FindsIdle \/ Drained \/ Awaited \/ Concludes
<1>5. ASSUME Progress
      PROVE  /\ active # NoCommand /\ active \in Command
             /\ UNCHANGED <<active, team, starter, forwards, broken, begun, early, gate, hurt, seenDone>>
             /\ agent'.call = agent.call
             /\ Shutting /\ Holding /\ Knowing
  <2>1. active # NoCommand /\ UNCHANGED <<active, team, starter, forwards, broken, begun, early, gate, hurt, seenDone>>
    BY <1>5 DEF Delivers, DeliveryFails, FindsIdle, Drained, Awaited, Concludes, agentVars, streamVars,
       callVars, gateVars, snapVars
  <2>2. agent'.call = agent.call
    <3>1. agent' = agent \/ agent' = [agent EXCEPT !.queued = 1]
      BY <1>5 DEF Delivers, DeliveryFails, FindsIdle, Drained, Awaited, Concludes, agentVars
    <3> QED BY <1>0, <3>1 DEF AgentSet
  <2> QED BY <2>1, <2>2, ActiveWorks DEF HeldInv
<1>6. Progress => Shutting'
  BY <1>5 DEF Shutting
<1> HIDE DEF Progress
<1>7. ASSUME NEW p \in AskPhase, phase' = [phase EXCEPT ![active] = p], Progress PROVE phase'[active'] = p
  BY <1>0, <1>5, <1>7
<1>8. Past = {"draining", "gated", "waking", "settling", "cleaning"}
  BY DEF Past
<1>9. \A p \in {"running", "cleaning", "draining", "gated", "settling"} : p \in AskPhase
  BY DEF AskPhase
\* What waits when everything has been forwarded.
<1>10. AllForwarded /\ ShutsBy(forwards, mark) => NoneShuts(forwards)
  <2> SUFFICES ASSUME mark = 0, ShutsBy(forwards, mark), NEW i \in 1 .. Len(forwards), Shuts(forwards[i]) PROVE FALSE
    BY DEF AllForwarded, NoneShuts
  <2>1. Len(forwards) \in Nat
    BY <1>0, SeqFacts
  <2> QED BY <2>1 DEF ShutsBy
<1>11. ASSUME Delivers PROVE Holding' /\ Knowing'
  <2>1. phase'[active'] = "running" /\ failing' = failing
    BY <1>7, <1>9, <1>11 DEF Delivers, Progress
  <2> QED BY <1>5, <1>8, <1>11, <2>1 DEF Holding, Knowing, OneCall, Passed, Unread, Progress
<1>12. ASSUME DeliveryFails PROVE Holding' /\ Knowing'
  <2>1. phase'[active'] = "cleaning" /\ failing' = TRUE /\ phase[active] = "delivering"
    BY <1>7, <1>9, <1>12 DEF DeliveryFails, Progress
  <2>2. OneCall => begun = 0 /\ NoneShuts(forwards) /\ starter # active
    <3>1. OneCall => begun = 0
      BY <1>5, <1>12, <2>1 DEF Holding, OneCall, Progress
    <3> QED BY <1>5, <1>12, <3>1 DEF Holding, Shutting, Progress
  <2>3. Holding'
    BY <1>5, <1>8, <1>12, <2>1, <2>2 DEF Holding, OneCall, Passed, Progress
  <2> QED BY <1>5, <1>12, <2>1, <2>3 DEF Knowing, OneCall, Unread, Progress
<1>13. ASSUME FindsIdle PROVE Holding' /\ Knowing'
  <2>1. phase'[active'] = "draining" /\ mark' = Len(forwards) /\ agent.call = "none"
    <3>1. agent.call = "none"
      BY <1>13 DEF FindsIdle, AgentIdle, HeldInv, Behind
    <3> QED BY <1>7, <1>9, <1>13, <3>1 DEF FindsIdle, Progress
  <2>2. ShutsBy(forwards', mark')
    <3>1. \A i \in 1 .. Len(forwards) : i <= Len(forwards)
      BY <1>0, SeqFacts
    <3> QED BY <1>5, <1>13, <2>1, <3>1 DEF ShutsBy, Progress
  <2>3. Holding'
    BY <1>5, <1>8, <1>13, <2>1, <2>2 DEF Holding, OneCall, Passed, Progress
  <2> QED BY <1>5, <1>13, <2>1, <2>3 DEF Knowing, OneCall, Unread, Progress
<1>14. ASSUME Drained PROVE Holding' /\ Knowing'
  <2>1. /\ phase[active] = "draining" /\ AllForwarded
        /\ \/ phase'[active'] = "cleaning" /\ failing'
           \/ phase'[active'] = "gated"
           \/ phase'[active'] = "settling" /\ Free(gate)
    <3>1. \/ phase' = [phase EXCEPT ![active] = "cleaning"] /\ failing'
          \/ phase' = [phase EXCEPT ![active] = "gated"]
          \/ phase' = [phase EXCEPT ![active] = "settling"] /\ Free(gate)
      BY <1>0, <1>14 DEF Drained, Settles, Free
    <3> QED BY <1>7, <1>9, <1>14, <3>1 DEF Drained, Progress
  <2>2. OneCall => NoneShuts(forwards)
    BY <1>5, <1>10, <1>14, <2>1 DEF Holding, Progress
  <2>3. OneCall /\ starter = active => agent.call # "start"
    BY <1>5, <1>8, <1>14, <2>1 DEF Holding, Progress
  <2>4. Holding'
    BY <1>5, <1>14, <2>1, <2>2, <2>3 DEF Holding, OneCall, Passed, Progress
  <2> QED BY <1>5, <1>14, <2>1, <2>4 DEF Knowing, OneCall, Unread, Progress
<1>15. ASSUME Awaited PROVE Holding' /\ Knowing'
  <2>1. /\ phase[active] = "waking"
        /\ \/ phase'[active'] = "cleaning" /\ failing'
           \/ phase'[active'] = "settling" /\ ~gate.failed
    <3>1. \/ phase' = [phase EXCEPT ![active] = "cleaning"] /\ failing'
          \/ phase' = [phase EXCEPT ![active] = "settling"] /\ ~gate.failed
      BY <1>0, <1>15 DEF Awaited, Settles
    <3> QED BY <1>7, <1>9, <1>15, <3>1 DEF Awaited, Progress
  <2>2. OneCall => NoneShuts(forwards) /\ ~gate.waiting /\ (starter = active => agent.call # "start")
    BY <1>5, <1>8, <1>15, <2>1 DEF Holding, Progress
  <2>4. Holding'
    BY <1>5, <1>15, <2>1, <2>2 DEF Holding, OneCall, Passed, Free, Progress
  <2> QED BY <1>5, <1>15, <2>1, <2>4 DEF Knowing, OneCall, Unread, Progress
<1>16. ASSUME Concludes PROVE Holding' /\ Knowing'
  <2>1. phase'[active'] = "cleaning" /\ phase[active] = "settling" /\ (broken => failing')
    BY <1>7, <1>9, <1>16 DEF Concludes, Progress
  <2>2. OneCall => NoneShuts(forwards) /\ Free(gate) /\ (starter = active => agent.call # "start")
    BY <1>5, <1>8, <1>16, <2>1 DEF Holding, Passed, Progress
  <2>3. Holding'
    BY <1>5, <1>16, <2>1, <2>2 DEF Holding, OneCall, Passed, Progress
  <2>4. OneCall /\ ~failing' => ~Unread
    <3> SUFFICES ASSUME OneCall, ~failing', Unread PROVE FALSE
      OBVIOUS
    <3>1. starter = active /\ begun = 1
      <4>1. starter = active /\ begun # 0
        BY <1>5, <1>16 DEF Holding, Unread, Progress
      <4> QED BY <4>1 DEF OneCall
    <3>2. TeamWaits(forwards) \/ ResultWaits(forwards, gate) \/ TeamSeen(forwards, gate)
      BY <1>5, <1>16, <2>1, <3>1 DEF Knowing, Progress
    <3> QED BY <1>0, <2>2, <3>2, FreeKnows
  <2> QED BY <1>5, <1>16, <2>1, <2>3, <2>4 DEF Knowing, OneCall, Unread, Progress
<1> QED BY <1>1, <1>2, <1>3, <1>4, <1>6, <1>11, <1>12, <1>13, <1>14, <1>15, <1>16 DEF AskMoves, Progress

-----------------------------------------------------------------------------
(* Forwarding, and what else touches the gate *)

\* Unless it fails, the gate observes the event.
LEMMA ForwardSees ==
  ASSUME SessionTypeOK, Forward, ~broken'
  PROVE  GateBecomes(Observe(gate, Head(forwards)))
<1> DEFINE e == Head(forwards)
<1>1. CASE e.kind = "chunk"
  <2>1. UNCHANGED <<phase, gate, hurt>>
    BY <1>1 DEF Forward, ForwardChunk
  <2>2. Observe(gate, e) = gate
    BY <1>1 DEF Observe
  <2>3. hurt \in BOOLEAN /\ gate.failed \in BOOLEAN
    BY DEF SessionTypeOK
  <2> QED BY <2>1, <2>2, <2>3 DEF GateBecomes
<1>2. CASE e.kind # "chunk"
  BY <1>2 DEF Forward, ForwardOther, FlushFails
<1> QED BY <1>1, <1>2

\* A gate that becomes milder.
LEMMA MildShutting ==
  ASSUME SessionInv, Shutting, UNCHANGED begun,
         NoneShuts(forwards) => NoneShuts(forwards'), OneShuts(forwards) => OneShuts(forwards'),
         \/ UNCHANGED <<gate, hurt>>
         \/ \E g : Mild(gate, g) /\ GateOK(g) /\ GateBecomes(g)
  PROVE  Shutting'
<1>0. hurt \in BOOLEAN /\ gate.failed \in BOOLEAN
  BY DEF SessionInv, SessionTypeOK
<1>1. CASE UNCHANGED <<gate, hurt>>
  BY <1>1 DEF Shutting
<1>2. ASSUME NEW g, Mild(gate, g), GateOK(g), GateBecomes(g) PROVE Shutting'
  <2>1. gate' = g /\ hurt' = (hurt \/ (~gate.failed /\ g.failed)) /\ g.failed \in BOOLEAN
    BY <1>2 DEF GateBecomes, GateOK, GateSet
  <2>2. Free(gate) /\ ~hurt => Free(gate') /\ ~hurt'
    BY <1>0, <1>2, <2>1 DEF Mild, Free
  <2>3. (hurt => gate.failed) => (hurt' => gate'.failed)
    BY <1>0, <1>2, <2>1 DEF Mild
  <2> QED BY <2>2, <2>3 DEF Shutting
<1> QED BY <1>1, <1>2

\* The event that shuts the gate is the first.
LEMMA ShutShutting ==
  ASSUME SessionInv, Shutting, UNCHANGED begun, forwards # <<>>, Shuts(Head(forwards)),
         OneShuts(forwards) => NoneShuts(forwards'),
         NEW g, GateOK(g), UNCHANGED <<gate, hurt>> \/ GateBecomes(g)
  PROVE  Shutting'
<1>0. hurt \in BOOLEAN /\ gate.failed \in BOOLEAN /\ forwards \in Seq(Event) /\ g.failed \in BOOLEAN
  BY DEF SessionInv, SessionTypeOK, GateOK, GateSet
<1>1. ~NoneShuts(forwards)
  BY <1>0, Shrink DEF NoneShuts
<1>2. NoneShuts(forwards') => OneShuts(forwards')
  BY DEF NoneShuts, OneShuts
<1>3. begun <= 1 => ~hurt /\ NoneShuts(forwards') /\ begun # 0
  BY <1>1 DEF Shutting
<1>4. begun <= 1 /\ hurt' => gate'.failed
  BY <1>0, <1>3 DEF GateBecomes
<1> QED BY <1>2, <1>3, <1>4 DEF Shutting

\* After the events that performAsk awaits the gate only becomes milder.
LEMMA MildHolding ==
  ASSUME SessionInv, Holding, active # NoCommand,
         UNCHANGED <<active, begun, early, starter, failing>>, agent'.call = agent.call,
         NoneShuts(forwards) => NoneShuts(forwards'),
         ShutsBy(forwards, mark) => ShutsBy(forwards', mark'),
         \/ UNCHANGED <<phase, gate>>
         \/ \E g : GateBecomes(g) /\ (NoneShuts(forwards) => Mild(gate, g))
  PROVE  Holding'
<1>0. phase \in [Command -> AskPhase] /\ active \in Command
  BY ActiveWorks DEF SessionInv, SessionTypeOK
<1>1. CASE UNCHANGED <<phase, gate>>
  BY <1>1 DEF Holding, OneCall, Passed
<1>2. ASSUME NEW g, GateBecomes(g), NoneShuts(forwards) => Mild(gate, g) PROVE Holding'
  <2>1. \/ phase'[active] = phase[active]
        \/ phase[active] = "gated" /\ phase'[active] = "waking" /\ ~g.waiting
    BY <1>0, <1>2 DEF GateBecomes
  <2>2. gate' = g
    BY <1>2 DEF GateBecomes
  <2>3. Past = {"draining", "gated", "waking", "settling", "cleaning"}
    BY DEF Past
  <2>4. CASE phase'[active] = phase[active]
    BY <1>2, <2>2, <2>3, <2>4 DEF Holding, OneCall, Passed, Mild
  <2>5. CASE phase[active] = "gated" /\ phase'[active] = "waking" /\ ~g.waiting
    BY <1>2, <2>2, <2>3, <2>5 DEF Holding, OneCall, Passed
  <2> QED BY <2>1, <2>4, <2>5
<1> QED BY <1>1, <1>2

LEMMA ForwardHolds ==
  ASSUME SessionInv, HeldInv, Forward
  PROVE  Shutting' /\ Holding' /\ Knowing'
<1> DEFINE e == Head(forwards)
           g == Observe(gate, e)
<1>0. /\ e \in Event /\ broken' \in BOOLEAN /\ active \in Command /\ forwards # <<>> /\ ~broken
      /\ forwards' = IF broken' THEN <<>> ELSE Tail(forwards)
      /\ mark' = IF broken' \/ mark = 0 THEN 0 ELSE mark - 1
      /\ UNCHANGED <<active, failing, begun, early, starter, team, teams, agent, seenDone>>
      /\ UNCHANGED <<phase, gate, hurt>> \/ GateBecomes(g)
  BY ForwardShape DEF SessionInv, agentVars, callVars
<1>a. active # NoCommand
  BY <1>0, SessionAssumption
<1>b. Shutting /\ Holding /\ Knowing
  BY <1>a DEF HeldInv
<1>c. GateOK(gate) /\ GateOK(g) /\ forwards \in Seq(Event) /\ mark \in Nat /\ e = forwards[1]
  <2>1. GateOK(gate) /\ forwards \in Seq(Event) /\ mark \in 0 .. Len(forwards) /\ Len(forwards) \in Nat
    BY TypeParts, SeqFacts DEF SessionInv, TextOK
  <2> QED BY <1>0, <2>1, ObserveOK, Shrink
<1>d. ~Shuts(e) => Mild(gate, g)
  BY <1>0, <1>c, ObserveIsMild
<1>e. NoneShuts(<<>>) /\ OneShuts(<<>>) /\ ShutsBy(<<>>, 0)
  BY DEF NoneShuts, OneShuts, ShutsBy
<1>f. /\ NoneShuts(forwards) => NoneShuts(Tail(forwards)) /\ ~Shuts(e)
      /\ OneShuts(forwards) => OneShuts(Tail(forwards)) /\ (Shuts(e) => NoneShuts(Tail(forwards)))
      /\ ShutsBy(forwards, mark) => ShutsBy(Tail(forwards), IF mark = 0 THEN 0 ELSE mark - 1)
  BY <1>0, <1>c, ShrinkShuts
<1> HIDE DEF e, g
<1>1. /\ NoneShuts(forwards) => NoneShuts(forwards')
      /\ OneShuts(forwards) => OneShuts(forwards') /\ (Shuts(e) => NoneShuts(forwards'))
      /\ ShutsBy(forwards, mark) => ShutsBy(forwards', mark')
  <2>1. CASE broken'
    BY <1>0, <1>e, <2>1
  <2>2. CASE ~broken'
    BY <1>0, <1>f, <2>2
  <2> QED BY <1>0, <2>1, <2>2
<1>2. Shutting'
  <2>1. CASE Shuts(e)
    BY <1>0, <1>1, <1>b, <1>c, <2>1, ShutShutting DEF e
  <2>2. CASE ~Shuts(e)
    BY <1>0, <1>1, <1>b, <1>c, <1>d, <2>2, MildShutting
  <2> QED BY <2>1, <2>2
<1>3. Holding'
  BY <1>0, <1>1, <1>a, <1>b, <1>d, <1>f, MildHolding
<1>4. ASSUME ~broken', begun = 1, starter = active
      PROVE  /\ agent.call = "start" => CallWaits(forwards') \/ CallSeen(forwards', gate')
             /\ Unread => TeamWaits(forwards') \/ ResultWaits(forwards', gate') \/ TeamSeen(forwards', gate')
  <2>1. forwards' = Tail(forwards) /\ gate' = g
    BY <1>0, <1>4, ForwardSees DEF SessionInv, GateBecomes, g, e
  <2>2. Holds(gate) => ~Shuts(e)
    <3>1. Shuts(e) => ~NoneShuts(forwards)
      BY <1>f
    <3>2. ~NoneShuts(forwards) => Free(gate)
      BY <1>4, <1>b DEF Shutting
    <3> QED BY <3>1, <3>2 DEF Holds, Free
  <2>3. ~Shuts(e) => /\ Holds(gate) /\ (gate.start \/ gate.teamActive) => Holds(g)
                     /\ gate.start /\ ~StartAnswered(e) => g.start
                     /\ gate.teamActive /\ ~Deleted(e) => g.teamActive
    BY <1>0, <1>c, ObserveIsMild DEF g
  <2>4. StartCalled(e) => g.start /\ Holds(g)
    <3>1. StartCalled(e) => Free(gate)
      <4>1. StartCalled(e) => ~NoneShuts(forwards)
        BY <1>f DEF StartCalled, Shuts
      <4> QED BY <1>4, <1>b, <4>1 DEF Shutting
    <3> QED BY <1>0, <1>c, <3>1, StartHolds DEF g
  <2>5. gate.start /\ Holds(gate) /\ Started(e) => g.teamActive /\ Holds(g)
    BY <1>0, <1>c, StartHolds DEF g
  <2>6. ASSUME agent.call = "start" PROVE CallWaits(forwards') \/ CallSeen(forwards', gate')
    <3>1. CASE CallWaits(forwards)
      <4>1. CallWaits(Tail(forwards)) \/ (StartCalled(e) /\ \A k \in 1 .. Len(Tail(forwards)) : ~StartAnswered(Tail(forwards)[k]))
        BY <1>0, <1>c, <3>1, ShrinkCall
      <4> QED BY <2>1, <2>4, <4>1 DEF CallSeen
    <3>2. CASE CallSeen(forwards, gate)
      <4>1. ~StartAnswered(e) /\ \A k \in 1 .. Len(Tail(forwards)) : ~StartAnswered(Tail(forwards)[k])
        BY <1>0, <1>c, <3>2, ShrinkCall DEF CallSeen
      <4>2. g.start /\ Holds(g)
        BY <2>2, <2>3, <3>2, <4>1 DEF CallSeen
      <4> QED BY <2>1, <4>1, <4>2 DEF CallSeen
    <3> QED BY <1>0, <1>4, <1>b, <2>6, <3>1, <3>2 DEF Knowing
  <2>7. ASSUME Unread PROVE TeamWaits(forwards') \/ ResultWaits(forwards', gate') \/ TeamSeen(forwards', gate')
    <3>1. CASE TeamWaits(forwards)
      <4>1. TeamWaits(Tail(forwards)) \/ (StartCalled(e) /\ \E j \in 1 .. Len(Tail(forwards)) : Latest(Tail(forwards), 0, j))
        BY <1>0, <1>c, <3>1, ShrinkTeam
      <4> QED BY <2>1, <2>4, <4>1 DEF ResultWaits
    <3>2. CASE ResultWaits(forwards, gate)
      <4>1. gate.start /\ Holds(gate) /\ \E j \in 1 .. Len(forwards) : Latest(forwards, 0, j)
        BY <3>2 DEF ResultWaits
      <4>2. \/ ~StartAnswered(e) /\ \E j \in 1 .. Len(Tail(forwards)) : Latest(Tail(forwards), 0, j)
            \/ /\ Started(e)
               /\ \A k \in 1 .. Len(Tail(forwards)) : ~StartAnswered(Tail(forwards)[k]) /\ ~Deleted(Tail(forwards)[k])
        BY <1>0, <1>c, <4>1, ShrinkTeam
      <4>3. ~StartAnswered(e) => g.start /\ Holds(g)
        BY <2>2, <2>3, <4>1
      <4>4. Started(e) => g.teamActive /\ Holds(g)
        BY <2>5, <4>1
      <4> QED BY <2>1, <4>2, <4>3, <4>4 DEF ResultWaits, TeamSeen
    <3>3. CASE TeamSeen(forwards, gate)
      <4>1. /\ ~Deleted(e)
            /\ \A k \in 1 .. Len(Tail(forwards)) : ~StartAnswered(Tail(forwards)[k]) /\ ~Deleted(Tail(forwards)[k])
        <5>1. /\ \A k \in 1 .. Len(forwards) : ~StartAnswered(forwards[k])
              /\ \A k \in 1 .. Len(forwards) : ~Deleted(forwards[k])
          BY <3>3 DEF TeamSeen
        <5> QED BY <1>0, <1>c, <5>1, ShrinkCall
      <4>2. g.teamActive /\ Holds(g)
        BY <2>2, <2>3, <3>3, <4>1 DEF TeamSeen
      <4> QED BY <2>1, <4>1, <4>2 DEF TeamSeen
    <3> QED BY <1>0, <1>4, <1>b, <2>7, <3>1, <3>2, <3>3 DEF Knowing
  <2> QED BY <2>6, <2>7
<1>5. Unread' <=> Unread
  BY <1>0 DEF Unread
<1>6. phase'[active'] = "cleaning" => phase[active] = "cleaning"
  <2>1. phase \in [Command -> AskPhase]
    BY DEF SessionInv, SessionTypeOK
  <2> QED BY <1>0, <2>1 DEF GateBecomes
<1>7. Knowing'
  <2>1. ~broken' /\ begun' = 1 /\ starter' = active' =>
          /\ agent'.call = "start" => CallWaits(forwards') \/ CallSeen(forwards', gate')
          /\ Unread' => TeamWaits(forwards') \/ ResultWaits(forwards', gate') \/ TeamSeen(forwards', gate')
    BY <1>0, <1>4, <1>5
  <2>2. OneCall' /\ phase'[active'] = "cleaning" /\ ~failing' => ~Unread'
    BY <1>0, <1>5, <1>6, <1>b DEF Knowing, OneCall
  <2> QED BY <2>1, <2>2 DEF Knowing
<1> QED BY <1>2, <1>3, <1>7

LEMMA OtherHolds ==
  ASSUME SessionInv, HeldInv, active # NoCommand, OtherMoves
  PROVE  Shutting' /\ Holding' /\ Knowing'
<1>0. UNCHANGED <<active, mark, failing, forwards, broken, begun, early, team, starter>> /\ agent'.call = agent.call
  BY OtherShape DEF SessionInv, streamVars, callVars
<1>b. Shutting /\ Holding /\ Knowing /\ (snapshots.quiet => seenDone)
  BY DEF HeldInv, Behind
<1>c. GateOK(gate) /\ TRUE \in BOOLEAN /\ hurt \in BOOLEAN /\ gate.failed \in BOOLEAN /\ seenDone \in BOOLEAN
  BY TypeParts DEF SessionInv, SessionTypeOK
<1>d. GateBecomes(gate) => UNCHANGED <<phase, gate, hurt>>
  BY <1>c DEF GateBecomes
<1>1. \/ UNCHANGED <<phase, gate, hurt, seenDone>>
      \/ GateBecomes(FinishGate(gate, TRUE)) /\ seenDone' = seenDone
      \/ GateBecomes(CompleteRetained(gate)) /\ seenDone' = seenDone /\ seenDone
      \/ UNCHANGED <<phase, gate, hurt>> /\ seenDone'
  <2>1. CASE GateTimesOut \/ Cancel
    BY <2>1 DEF GateTimesOut, Cancel, snapVars
  <2>2. CASE SnapshotReads
    BY <1>c, <2>2 DEF SnapshotReads, askVars, gateVars
  <2>3. CASE SnapshotEnds
    BY <1>b, <1>d, <2>3 DEF SnapshotEnds
  <2> QED BY <2>1, <2>2, <2>3 DEF OtherMoves
<1>2. \/ UNCHANGED <<phase, gate, hurt>>
      \/ \E g : /\ Mild(gate, g) /\ GateOK(g) /\ GateBecomes(g)
                /\ g.start = gate.start /\ (gate.start /\ Holds(gate) => Holds(g))
                /\ ~seenDone => g.teamActive = gate.teamActive /\ (Holds(gate) => Holds(g))
  <2>1. /\ Mild(gate, FinishGate(gate, TRUE)) /\ GateOK(FinishGate(gate, TRUE))
        /\ FinishGate(gate, TRUE).start = gate.start /\ FinishGate(gate, TRUE).teamActive = gate.teamActive
        /\ Holds(gate) => Holds(FinishGate(gate, TRUE))
    BY <1>c, FinishIsMild, FinishOK
  <2>2. /\ Mild(gate, CompleteRetained(gate)) /\ GateOK(CompleteRetained(gate))
        /\ CompleteRetained(gate).start = gate.start
        /\ gate.start /\ Holds(gate) => Holds(CompleteRetained(gate))
    BY <1>c, CompleteIsMild, CompleteOK
  <2>3. CASE GateBecomes(FinishGate(gate, TRUE))
    BY <2>1, <2>3
  <2>4. CASE GateBecomes(CompleteRetained(gate)) /\ seenDone
    BY <2>2, <2>4
  <2> QED BY <1>1, <2>3, <2>4
<1>3. Unread' => Unread /\ ~seenDone
  BY <1>0, <1>1 DEF Unread
<1>4. Shutting'
  BY <1>0, <1>2, <1>b, MildShutting
<1>5. Holding'
  BY <1>0, <1>2, <1>b, MildHolding
<1>6. phase'[active'] = "cleaning" => phase[active] = "cleaning"
  <2>1. phase \in [Command -> AskPhase]
    BY DEF SessionInv, SessionTypeOK
  <2> QED BY <1>0, <1>2, <2>1, ActiveWorks DEF GateBecomes
<1>7. Knowing'
  <2>1. CallSeen(forwards, gate) => CallSeen(forwards', gate')
    BY <1>0, <1>2 DEF CallSeen, GateBecomes
  <2>2. ~seenDone /\ ResultWaits(forwards, gate) => ResultWaits(forwards', gate')
    BY <1>0, <1>2 DEF ResultWaits, GateBecomes
  <2>3. ~seenDone /\ TeamSeen(forwards, gate) => TeamSeen(forwards', gate')
    BY <1>0, <1>2 DEF TeamSeen, GateBecomes
  <2>4. ~broken' /\ begun' = 1 /\ starter' = active' =>
          /\ agent'.call = "start" => CallWaits(forwards') \/ CallSeen(forwards', gate')
          /\ Unread' => TeamWaits(forwards') \/ ResultWaits(forwards', gate') \/ TeamSeen(forwards', gate')
    BY <1>0, <1>3, <1>b, <2>1, <2>2, <2>3 DEF Knowing
  <2>5. OneCall' /\ phase'[active'] = "cleaning" /\ ~failing' => ~Unread'
    BY <1>0, <1>3, <1>6, <1>b DEF Knowing, OneCall
  <2> QED BY <2>4, <2>5 DEF Knowing
<1> QED BY <1>4, <1>5, <1>7

-----------------------------------------------------------------------------
(* A command is held by its team *)


LEMMA BehindAgent ==
  ASSUME SessionInv, Behind, AgentActs, UNCHANGED fault
  PROVE  Behind'
<1>0. agent \in AgentSet /\ SessionCalls \subseteq {"start", "delete", "template"}
  BY SessionAssumption DEF SessionInv, SessionTypeOK, AgentSet
<1>1. UNCHANGED <<phase, active, snapshots>>
  BY AgentShape DEF SessionInv, AgentMoves, askVars
<1>2. /\ agent.call # "none" => agent.running
      /\ agent.call = "start" => team = "none"
      /\ snapshots.quiet => seenDone
      /\ \A c \in Command : starter = c => phase[c] \notin {"new", "queued"}
  BY DEF Behind
<1>3. \A c \in Command : active = c => phase[c] \notin {"new", "queued"}
  BY ActiveWorks, SessionAssumption DEF AtWork
<1>4. CASE AgentStarts
  BY <1>0, <1>1, <1>2, <1>4 DEF AgentStarts, Behind, AgentSet, snapVars
<1>5. CASE AgentSpeaks
  BY <1>0, <1>1, <1>2, <1>5 DEF AgentSpeaks, Behind, AgentSet, snapVars
<1>6. ASSUME NEW r \in TurnEnds, AgentStops(r) PROVE Behind'
  BY <1>0, <1>1, <1>2, <1>6 DEF AgentStops, Behind, AgentSet, snapVars
<1>7. CASE AgentWakes
  <2>1. agent'.call = agent.call /\ agent'.running = agent.running
    BY <1>0, <1>7 DEF AgentWakes, AgentSet
  <2> QED BY <1>1, <1>2, <1>7, <2>1 DEF AgentWakes, Behind, snapVars
<1>8. CASE TeamSettles \/ TeamReopens
  <2>1. agent'.call = agent.call /\ agent'.running = agent.running /\ team # "none"
    BY <1>0, <1>8 DEF TeamSettles, TeamReopens, AgentSet
  <2> QED BY <1>1, <1>2, <1>8, <2>1 DEF TeamSettles, TeamReopens, Behind, snapVars
<1>9. ASSUME NEW name \in SessionCalls, AgentCalls(name) PROVE Behind'
  <2>1. agent'.call = name /\ agent'.running /\ (name = "start" => team = "none")
    BY <1>0, <1>9 DEF AgentCalls, AgentSet
  <2>2. UNCHANGED <<team, seenDone>> /\ starter' \in {starter, active}
    BY <1>9 DEF AgentCalls, snapVars
  <2> QED BY <1>1, <1>2, <1>3, <2>1, <2>2 DEF Behind
<1>10. CASE CallSucceeds \/ CallFails
  <2>1. agent'.call = "none" /\ starter' = starter
    BY <1>0, <1>10 DEF CallSucceeds, CallFails, AgentSet
  <2>2. seenDone' = snapshots.quiet \/ seenDone' = seenDone
    <3>1. agent.call \in {"start", "delete", "template"}
      BY <1>0, <1>10 DEF CallSucceeds, CallFails, AgentSet
    <3> QED BY <1>10, <3>1 DEF CallSucceeds, CallFails, snapVars
  <2> QED BY <1>1, <1>2, <2>1, <2>2 DEF Behind
<1> QED BY <1>4, <1>5, <1>6, <1>7, <1>8, <1>9, <1>10 DEF AgentActs

LEMMA BehindAsk ==
  ASSUME SessionInv, Behind, AskMoves
  PROVE  Behind'
<1>0. /\ phase \in [Command -> AskPhase] /\ agent \in AgentSet
      /\ asks # <<>> => NextAsk \in Command
  <2>1. asks \in Seq(Command)
    BY DEF SessionInv, SessionTypeOK
  <2> QED BY <2>1, SeqFacts DEF SessionInv, SessionTypeOK, AgentSet, NextAsk
<1>1. UNCHANGED <<team, starter, seenDone>>
  BY DEF AskMoves, Ask, OpenFails, Registers, Delivers, DeliveryFails, FindsIdle, Drained, Awaited, Concludes,
     CleanUpAsk, agentVars, snapVars
<1>2. agent'.call = agent.call /\ agent'.running = agent.running
  <2>1. agent' = agent \/ agent' = [agent EXCEPT !.queued = 1] \/ agent' = [agent EXCEPT !.pieces = 0]
    BY DEF AskMoves, Ask, OpenFails, Registers, Delivers, DeliveryFails, FindsIdle, Drained, Awaited, Concludes,
       CleanUpAsk, agentVars
  <2> QED BY <1>0, <2>1 DEF AgentSet
<1>3. snapshots' = snapshots \/ ~snapshots'.quiet
  <2>1. ~NoSnapshots.quiet
    BY DEF NoSnapshots
  <2> QED BY <2>1 DEF AskMoves, Ask, OpenFails, Registers, Delivers, DeliveryFails, FindsIdle, Drained, Awaited, Concludes,
     CleanUpAsk, snapVars
<1>4. \A c \in Command : phase'[c] \in {"new", "queued"} => phase[c] \in {"new", "queued"}
  <2>1. ASSUME NEW c \in Command, Ask(c) PROVE phase' = [phase EXCEPT ![c] = "queued"] /\ phase[c] = "new"
    BY <2>1 DEF Ask
  <2>2. ASSUME OpenFails \/ Registers
        PROVE  \E p \in AskPhase \ {"new", "queued"} : phase' = [phase EXCEPT ![NextAsk] = p]
    BY <2>2 DEF OpenFails, Registers, AskPhase
  <2>3. ASSUME Delivers \/ DeliveryFails \/ FindsIdle \/ Drained \/ Awaited \/ Concludes \/ CleanUpAsk
        PROVE  \E p \in AskPhase \ {"new", "queued"} : phase' = [phase EXCEPT ![active] = p]
    BY <2>3 DEF Delivers, DeliveryFails, FindsIdle, Drained, Awaited, Concludes, Settles, CleanUpAsk, AskPhase
  <2>4. \/ \E c \in Command : phase' = [phase EXCEPT ![c] = "queued"] /\ phase[c] = "new"
        \/ \E d : \E p \in AskPhase \ {"new", "queued"} : phase' = [phase EXCEPT ![d] = p]
    BY <2>1, <2>2, <2>3 DEF AskMoves
  <2> QED BY <1>0, <2>4
<1> QED BY <1>1, <1>2, <1>3, <1>4 DEF Behind

LEMMA BehindGate ==
  ASSUME SessionInv, Behind, UNCHANGED <<team, starter>>,
         agent'.call = agent.call /\ agent'.running = agent.running,
         seenDone' = seenDone \/ seenDone', snapshots'.quiet => snapshots.quiet \/ seenDone',
         phase' = phase \/ \E g : GateBecomes(g)
  PROVE  Behind'
<1>0. phase \in [Command -> AskPhase]
  BY DEF SessionInv, SessionTypeOK
<1>1. \A c \in Command : phase'[c] \in {"new", "queued"} => phase[c] \in {"new", "queued"}
  BY <1>0 DEF GateBecomes
<1> QED BY <1>1 DEF Behind

LEMMA HeldStart == SessionInit => HeldInv
<1> SUFFICES ASSUME SessionInit PROVE HeldInv
  OBVIOUS
<1>1. active = NoCommand /\ starter = NoCommand /\ agent.call = "none" /\ ~snapshots.quiet
  BY DEF SessionInit, NoSnapshots
<1> QED BY <1>1, SessionAssumption DEF HeldInv, Behind

LEMMA HeldStep ==
  ASSUME SessionInv, HeldInv, [SessionNext]_sessionVars
  PROVE  HeldInv'
<1>1. CASE UNCHANGED sessionVars
  BY <1>1 DEF HeldInv, Behind, Shutting, Holding, Knowing, OneCall, Passed, Unread, sessionVars, stepVars, askVars, agentVars,
     streamVars, callVars, gateVars, snapVars
<1>2. ASSUME AgentActs, UNCHANGED fault PROVE HeldInv'
  <2>1. active' = active
    BY <1>2, AgentShape DEF SessionInv, AgentMoves, askVars
  <2>2. Behind'
    BY <1>2, BehindAgent DEF HeldInv
  <2> QED BY <1>2, <2>1, <2>2, AgentHolds DEF HeldInv
<1>3. ASSUME AskMoves PROVE HeldInv'
  BY <1>3, AskHolds, BehindAsk DEF HeldInv
<1>4. ASSUME Forward PROVE HeldInv'
  <2>1. UNCHANGED <<team, starter, agent, seenDone>> /\ snapshots' \in {snapshots, AskForSnapshot(snapshots)}
        /\ (phase' = phase \/ \E g : GateBecomes(g))
    BY <1>4, ForwardShape DEF SessionInv, agentVars
  <2>2. snapshots'.quiet => snapshots.quiet
    BY <2>1 DEF AskForSnapshot, SessionInv, SessionTypeOK
  <2>3. Behind'
    BY <2>1, <2>2, BehindGate DEF HeldInv
  <2> QED BY <1>4, <2>3, ForwardHolds DEF HeldInv
<1>5. ASSUME OtherMoves PROVE HeldInv'
  <2>1. /\ UNCHANGED <<active, team, starter>>
        /\ phase' = phase \/ \E g : GateBecomes(g)
    BY <1>5, OtherShape DEF SessionInv
  <2>2. agent'.call = agent.call /\ agent'.running = agent.running
    <3>1. agent \in AgentSet
      BY DEF SessionInv, SessionTypeOK, AgentSet
    <3>2. agent' = agent \/ agent' = [agent EXCEPT !.cancelled = agent.running]
      BY <1>5 DEF OtherMoves, GateTimesOut, Cancel, SnapshotReads, SnapshotEnds, agentVars
    <3> QED BY <3>1, <3>2 DEF AgentSet
  <2>3. (seenDone' = seenDone \/ seenDone') /\ (snapshots'.quiet => snapshots.quiet \/ seenDone')
    <3>1. CASE GateTimesOut \/ Cancel
      BY <3>1 DEF GateTimesOut, Cancel, snapVars
    <3>2. CASE SnapshotReads
      BY <3>2 DEF SnapshotReads, SessionInv, SessionTypeOK
    <3>3. CASE SnapshotEnds
      BY <3>3 DEF SnapshotEnds, SessionInv, SessionTypeOK
    <3> QED BY <1>5, <3>1, <3>2, <3>3 DEF OtherMoves
  <2>4. Behind'
    BY <2>1, <2>2, <2>3, BehindGate DEF HeldInv
  <2> QED BY <1>5, <2>1, <2>4, OtherHolds DEF HeldInv
<1> QED BY <1>1, <1>2, <1>3, <1>4, <1>5, SessionMoves

\* Only the cleanup answers a command, the active one.
LEMMA AnswersOnce ==
  ASSUME SessionInv, SessionNext, NEW c \in Command, Answers(c)
  PROVE  active = c /\ phase[c] = "cleaning" /\ ~failing
<1>0. phase \in [Command -> AskPhase] /\ failing \in BOOLEAN
  BY DEF SessionInv, SessionTypeOK
<1>1. phase[c] # "answered" /\ phase'[c] = "answered"
  BY DEF Answers
<1>2. ASSUME \E d : \E p \in AskPhase \ {"answered"} : phase' = [phase EXCEPT ![d] = p] PROVE FALSE
  BY <1>0, <1>1, <1>2
<1>3. phase' # phase
  BY <1>1
<1>4. CASE AgentActs /\ UNCHANGED fault
  BY <1>3, <1>4, AgentShape DEF SessionInv, AgentMoves, askVars
<1>5. CASE Forward \/ OtherMoves
  <2>1. phase' = phase \/ \E g : GateBecomes(g)
    BY <1>5, ForwardShape, OtherShape DEF SessionInv
  <2>2. PICK g : GateBecomes(g)
    BY <1>3, <2>1
  <2>3. phase' = [phase EXCEPT ![active] = "waking"]
    BY <1>3, <2>2 DEF GateBecomes
  <2> QED BY <1>2, <2>3 DEF AskPhase
<1>6. CASE AskMoves
  <2>1. ASSUME CleanUpAsk PROVE active = c /\ phase[c] = "cleaning" /\ ~failing
    <3>1. phase' = [phase EXCEPT ![active] = IF failing THEN "failed" ELSE "answered"] /\ phase[active] = "cleaning"
      BY <2>1 DEF CleanUpAsk
    <3>2. active = c
      BY <1>0, <1>1, <3>1
    <3>3. ~failing
      BY <1>0, <1>1, <3>1, <3>2
    <3> QED BY <3>1, <3>2, <3>3
  <2>2. ASSUME ~CleanUpAsk PROVE \E d : \E p \in AskPhase \ {"answered"} : phase' = [phase EXCEPT ![d] = p]
    <3>1. "queued" \in AskPhase \ {"answered"} /\ "failed" \in AskPhase \ {"answered"} /\ "delivering" \in AskPhase \ {"answered"}
          /\ {"running", "cleaning", "draining", "gated", "settling"} \subseteq AskPhase \ {"answered"}
      BY DEF AskPhase
    <3>2. CASE \E d \in Command : Ask(d)
      BY <3>1, <3>2 DEF Ask
    <3>3. CASE OpenFails \/ Registers
      BY <3>1, <3>3 DEF OpenFails, Registers
    <3>4. CASE Delivers \/ DeliveryFails \/ FindsIdle \/ Drained \/ Awaited \/ Concludes
      BY <3>1, <3>4 DEF Delivers, DeliveryFails, FindsIdle, Drained, Awaited, Concludes, Settles
    <3> QED BY <1>6, <2>2, <3>2, <3>3, <3>4 DEF AskMoves
  <2> QED BY <1>2, <2>1, <2>2
<1> QED BY <1>4, <1>5, <1>6, SessionMoves

\* A command whose turn made one asynchronous call is not answered while the
\* team it started is at work, nor after the call has failed.
THEOREM SessionHolds == SessionSpec => HeldByTeam
<1>1. SessionInit => SessionInv /\ HeldInv
  BY SessionStart, InLineStart, HeldStart DEF SessionInv
<1>2. (SessionInv /\ HeldInv) /\ [SessionNext]_sessionVars => (SessionInv /\ HeldInv)'
  BY SessionInvStep, HeldStep
<1>3. (SessionInv /\ HeldInv) /\ [SessionNext]_sessionVars
        => [\A c \in Command : Answers(c) /\ OneCall =>
              /\ ~(team = "running" /\ starter = c /\ ~seenDone)
              /\ ~hurt]_sessionVars
  <2> SUFFICES ASSUME SessionInv, HeldInv, SessionNext, NEW c \in Command, Answers(c), OneCall
               PROVE  ~(team = "running" /\ starter = c /\ ~seenDone) /\ ~hurt
    OBVIOUS
  <2>1. active = c /\ phase[active] = "cleaning" /\ ~failing /\ active # NoCommand
    BY AnswersOnce, SessionAssumption
  <2>2. Shutting /\ Holding /\ Knowing
    BY <2>1 DEF HeldInv
  <2>3. Passed /\ Free(gate)
    BY <2>1, <2>2 DEF Passed, Holding
  <2>4. ~hurt
    <3>1. begun <= 1
      BY DEF OneCall
    <3> QED BY <2>2, <2>3, <3>1 DEF Shutting, Free
  <2>5. ~Unread
    BY <2>1, <2>2 DEF Knowing
  <2> QED BY <2>1, <2>4, <2>5 DEF Unread
<1> QED
  BY <1>1, <1>2, <1>3, PTL DEF SessionSpec, HeldByTeam
================================================================================
