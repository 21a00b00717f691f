----------------------------- MODULE QuestionBroker -----------------------------
(*****************************************************************************)
(* ByClawQuestionBroker: the questions a DSH agent asks the ByClaw user, and *)
(* the Resume commands that answer them.                                     *)
(*                                                                           *)
(* A question is a call of the tool ask_user_question; "asked" is how far    *)
(* its ask() has come and "promise" is the promise it will await.  A Resume  *)
(* is structured or names an interaction, and then it answers that question  *)
(* or none, or it is plain and answers the oldest one of the session.        *)
(* What an answer says is left out.                                          *)
(*****************************************************************************)
EXTENDS Naturals, Sequences, SequencesExt

CONSTANTS
  Question,   \* calls of ask_user_question
  AskSession, \* sessions by which the broker keeps what is pending
  askSessionOf   \* the session of each question

ASSUME BrokerAssumption == askSessionOf \in [Question -> AskSession]

AskState == {"new", "emitting", "awaiting", "answered", "failed"}

VARIABLES
  asked,     \* how far ask() has come, for each question
  promise,   \* "none", "open", "resolved" or "rejected"
  pending,   \* the questions of each session that wait for an answer, oldest first
  resumed,   \* how many Resume commands found each question
  aborted    \* questions whose signal has aborted

brokerVars == <<asked, promise, pending, resumed, aborted>>

BrokerInit ==
  /\ asked = [q \in Question |-> "new"] /\ promise = [q \in Question |-> "none"]
  /\ pending = [s \in AskSession |-> <<>>]
  /\ resumed = [q \in Question |-> 0] /\ aborted = {}

Over(q) == asked[q] \in {"answered", "failed"}

\* Mutation: every question of the session is removed with the one that failed.
WithdrawAll(s, q) == [pending EXCEPT ![s] = <<>>]

\* remove: no two questions have one id, so the filter drops at most one.
Withdraw(s, q) == [pending EXCEPT ![s] = RemoveFirst(@, q)]

\* The question is pending before it is shown.
AskUser(q) ==
  /\ asked[q] = "new"
  /\ asked' = [asked EXCEPT ![q] = "emitting"] /\ promise' = [promise EXCEPT ![q] = "open"]
  /\ pending' = [pending EXCEPT ![askSessionOf[q]] = Append(@, q)]
  /\ UNCHANGED <<resumed, aborted>>

\* await options.emit(...): an answer may already have come.
Emitted(q) ==
  /\ asked[q] = "emitting"
  /\ asked' = [asked EXCEPT ![q] = "awaiting"]
  /\ UNCHANGED <<promise, pending, resumed, aborted>>

\* The emitter throws: what was asked is withdrawn, even when it has been answered.
EmitFails(q) ==
  /\ asked[q] = "emitting"
  /\ asked' = [asked EXCEPT ![q] = "failed"]
  /\ pending' = Withdraw(askSessionOf[q], q)
  /\ UNCHANGED <<promise, resumed, aborted>>

Returns(q) ==
  /\ asked[q] = "awaiting" /\ promise[q] # "open"
  /\ asked' = [asked EXCEPT ![q] = IF promise[q] = "resolved" THEN "answered" ELSE "failed"]
  /\ pending' = IF promise[q] = "resolved" THEN pending ELSE Withdraw(askSessionOf[q], q)
  /\ UNCHANGED <<promise, resumed, aborted>>

Rejected(q) == [promise EXCEPT ![q] = IF @ = "open" THEN "rejected" ELSE @]

\* The signal of the tool call; a promise that is settled stays as it is.
Abort(q) ==
  /\ asked[q] \in {"emitting", "awaiting"} /\ q \notin aborted
  /\ aborted' = aborted \cup {q}
  /\ pending' = Withdraw(askSessionOf[q], q)
  /\ promise' = Rejected(q)
  /\ UNCHANGED <<asked, resumed>>

\* The question is spliced out of the queue.
Take(s, q) == pending' = [pending EXCEPT ![s] = RemoveFirst(@, q)]

Resolves(s, q) ==
  /\ Take(s, q)
  /\ promise' = [promise EXCEPT ![q] = IF @ = "open" THEN "resolved" ELSE @]
  /\ resumed' = [resumed EXCEPT ![q] = @ + 1]
  /\ UNCHANGED <<asked, aborted>>

\* resumeStructured, and resume with an interaction id; otherwise the command fails.
ResumeNamed(q) == Contains(pending[askSessionOf[q]], q) /\ Resolves(askSessionOf[q], q)

\* resume without an interaction id.
ResumePlain(s) == pending[s] # <<>> /\ Resolves(s, Head(pending[s]))

\* cancelSession
CancelSession(s) ==
  /\ pending[s] # <<>>
  /\ promise' = [q \in Question |-> IF Contains(pending[s], q) THEN "rejected" ELSE promise[q]]
  /\ pending' = [pending EXCEPT ![s] = <<>>]
  /\ UNCHANGED <<asked, resumed, aborted>>

BrokerNext ==
  \/ \E q \in Question : \/ AskUser(q) \/ Emitted(q) \/ EmitFails(q) \/ Returns(q)
                         \/ Abort(q) \/ ResumeNamed(q)
  \/ \E s \in AskSession : ResumePlain(s) \/ CancelSession(s)

BrokerSpec == BrokerInit /\ [][BrokerNext]_brokerVars

-----------------------------------------------------------------------------
\* The variables have their types, and no aborted call waits for its user (ask).
BrokerTypeOK ==
  /\ asked \in [Question -> AskState]
  /\ promise \in [Question -> {"none", "open", "resolved", "rejected"}]
  /\ pending \in [AskSession -> Seq(Question)]
  /\ resumed \in [Question -> Nat] /\ aborted \subseteq Question
  /\ \A q \in aborted : promise[q] # "open"

\* A tool call that waits for its answer can still be answered: its question is
\* pending, once, in its own session, whatever was aborted, cancelled, answered or
\* failed around it (ask, remove).
WaiterIsPending ==
  \A q \in Question : asked[q] = "awaiting" /\ promise[q] = "open" =>
    \E i \in DOMAIN pending[askSessionOf[q]] : pending[askSessionOf[q]][i] = q

\* A Resume never spends itself on a question that is over or was answered: each
\* question is found at most once, and what is pending can take the answer (resume).
ResumeFindsOpen ==
  /\ \A q \in Question : resumed[q] <= 1
  /\ \A s \in AskSession : \A i \in DOMAIN pending[s] :
       LET q == pending[s][i] IN promise[q] = "open" /\ ~Over(q) /\ askSessionOf[q] = s
=============================================================================
