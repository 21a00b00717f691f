------------------------------- MODULE MCServices -------------------------------
(* What must eventually happen in the parts that serve the others, on small      *)
(* instances, one part to a behaviour: `part` is chosen at the start and the     *)
(* other parts stay where they begin, with nothing to do.                        *)
EXTENDS CatalogGeneration, SessionTurn, ResourceWatch, SidebarTerminals, TLC

CONSTANTS Parts, r1, r2, c1, f1, k1, k2, t1
MCKeyOf == [o \in Op |-> IF o = f1 THEN k2 ELSE k1]
MCRefreshOf == [c \in Consumer |-> None]
MCCatalogOf == [c \in Consumer |-> Agents]
MCTabOf == [t \in Tab |-> c1]

VARIABLE part
servicesVars == <<vars, sessionVars, watchVars, terminalVars, part>>

ServicesInit ==
  /\ part \in Parts
  /\ Init /\ SessionInit /\ WatchInit /\ TerminalInit
  /\ part # "session" => fault = "none"
  /\ part # "watch" => granted = {}
  /\ part # "terminals" => current = c1

ServicesNext ==
  /\ UNCHANGED part
  /\ \/ part = "catalog" /\ Next /\ UNCHANGED <<sessionVars, watchVars, terminalVars>>
     \/ part = "session" /\ SessionNext /\ UNCHANGED <<vars, watchVars, terminalVars>>
     \/ part = "watch" /\ WatchNext /\ UNCHANGED <<vars, sessionVars, terminalVars>>
     \/ part = "terminals" /\ TerminalNext /\ UNCHANGED <<vars, sessionVars, watchVars>>

ServicesFairness == Fairness /\ SessionFairness /\ WatchFairness /\ TerminalFairness

ServicesSpec == ServicesInit /\ [][ServicesNext]_servicesVars /\ ServicesFairness
=================================================================================
