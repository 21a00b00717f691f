------------------------------- MODULE MCByClaw -------------------------------
(* The run-time of the byclaw-integration plugin on small instances, one part   *)
(* to a behaviour: `part` is chosen at the start and the other parts stay where *)
(* they begin.                                                                  *)
EXTENDS SessionTurn, QuestionBroker, ResourceWatch, TLC

CONSTANTS Parts, q1, q2, q3, a1, a2
MCSessionOf == q1 :> a1 @@ q2 :> a1 @@ q3 :> a2

VARIABLE part
byClawVars == <<sessionVars, brokerVars, watchVars, part>>

ByClawInit ==
  /\ part \in Parts
  /\ SessionInit /\ BrokerInit /\ WatchInit
  /\ part # "session" => fault = "none"
  /\ part # "watch" => granted = {}

ByClawNext ==
  /\ UNCHANGED part
  /\ \/ part = "session" /\ SessionNext /\ UNCHANGED <<brokerVars, watchVars>>
     \/ part = "broker" /\ BrokerNext /\ UNCHANGED <<sessionVars, watchVars>>
     \/ part = "watch" /\ WatchNext /\ UNCHANGED <<sessionVars, brokerVars>>

ByClawSpec == ByClawInit /\ [][ByClawNext]_byClawVars

\* The books of every part agree with each other: commands are taken one at a
\* time, whoever waits for an answer has a question that is pending, a Resume
\* finds every open question, and a closed watch has nothing left to do.
RuntimeConsistent ==
  /\ SessionTypeOK /\ OneAtATime
  /\ BrokerTypeOK /\ WaiterIsPending /\ ResumeFindsOpen
  /\ WatchTypeOK /\ QuietAfterClose
===============================================================================
