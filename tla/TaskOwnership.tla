----------------------------- MODULE TaskOwnership -----------------------------
(*****************************************************************************)
(* What the AgentTeams task list promises about ownership, with none of its  *)
(* mechanism: a task is worked on by one owner at a time under a generation  *)
(* never used before, a member has one task at a time, ownership passes from *)
(* one owner to another only through nobody, and finished work is final.     *)
(*****************************************************************************)
EXTENDS Naturals

CONSTANTS Task, Member, Captain, None

VARIABLES
  owner,       \* who works on each task, None if nobody does
  generation,  \* the capability the owner works under, 0 if nobody works
  done,        \* the completed tasks
  issued       \* the last generation issued

vars == <<owner, generation, done, issued>>

Init == /\ owner = [t \in Task |-> None] /\ generation = [t \in Task |-> 0]
        /\ done = {} /\ issued = 0

\* A free task gets an owner, or its owner gets a new generation of it.
Grant(t, p) ==
  /\ t \notin done /\ owner[t] \in {None, p}
  /\ p \in Member => \A u \in Task \ {t} : owner[u] # p
  /\ issued' = issued + 1
  /\ owner' = [owner EXCEPT ![t] = p]
  /\ generation' = [generation EXCEPT ![t] = issued']
  /\ done' = done

\* The tasks of S are taken from their owners, those of D being completed.
\* (A revocation is identified by a generation of its own.)
Release(S, D) ==
  /\ D \subseteq S /\ \A t \in D : owner[t] # None
  /\ owner' = [t \in Task |-> IF t \in S THEN None ELSE owner[t]]
  /\ generation' = [t \in Task |-> IF t \in S THEN 0 ELSE generation[t]]
  /\ done' = done \cup D
  /\ issued' \in {issued, issued + 1}

Next == \/ \E t \in Task, p \in Member \cup {Captain} : Grant(t, p)
        \/ \E S \in SUBSET Task : \E D \in SUBSET S : Release(S, D)

Spec == Init /\ [][Next]_vars
================================================================================
