---------------------------- MODULE AtomicCatalog ------------------------------
(*****************************************************************************)
(* What the template catalogs promise their consumers: they behave like one  *)
(* atomic register.  A publication replaces the whole generation at once and *)
(* keeps the templates users have saved, and a consumer is served from one    *)
(* generation only, the one published when it was admitted.                  *)
(*****************************************************************************)
EXTENDS Naturals

CONSTANTS Consumer, Save

VARIABLES
  published, \* version of the generation in force, 0 before the first one
  saved,     \* the templates saved by users
  view       \* version each consumer was served from, 0 if none yet

vars == <<published, saved, view>>

Init == published = 0 /\ saved = {} /\ view = [c \in Consumer |-> 0]

Publish == /\ published' \in Nat \ {0} /\ published' >= published
           /\ UNCHANGED <<saved, view>>
Keep(s) == saved' = saved \cup {s} /\ UNCHANGED <<published, view>>
Serve(c) ==
  /\ published # 0 /\ view[c] \in {0, published}
  /\ view' = [view EXCEPT ![c] = published]
  /\ UNCHANGED <<published, saved>>

Next == \/ Publish
        \/ \E s \in Save : Keep(s)
        \/ \E c \in Consumer : Serve(c)

Spec == Init /\ [][Next]_vars
================================================================================
