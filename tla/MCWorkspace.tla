------------------------------ MODULE MCWorkspace ------------------------------
(* The plugins of the workspace, dsh-better-sidebar and dsh-trellis, on small   *)
(* instances, one part to a behaviour: `part` is chosen at the start and the    *)
(* other parts stay where they begin.                                           *)
EXTENDS TrellisTasks, SidebarTerminals, SidebarLayout, GitPanel, TLC

CONSTANTS Parts, t1, t2, c1, c2
MCTabOf == [t \in Tab |-> c1]

\* Callers and tasks are interchangeable.
MCSymmetry == Permutations(Caller) \cup Permutations(Slug)

VARIABLE part
workspaceVars == <<trellisVars, terminalVars, layoutVars, gitVars, part>>

WorkspaceInit ==
  /\ part \in Parts
  /\ TrellisInit /\ TerminalInit /\ LayoutInit /\ GitInit
  /\ part # "terminals" => current = c1
  /\ part # "layout" => ~narrow
  /\ panel.scope = c1 /\ ready = Repo
  /\ kept[c1] # Nothing /\ kept[c1] # RootRepo /\ kept[c2] = Nothing

WorkspaceNext ==
  /\ UNCHANGED part
  /\ \/ part = "trellis" /\ TrellisNext /\ UNCHANGED <<terminalVars, layoutVars, gitVars>>
     \/ part = "terminals" /\ TerminalNext /\ UNCHANGED <<trellisVars, layoutVars, gitVars>>
     \/ part = "layout" /\ LayoutNext /\ UNCHANGED <<trellisVars, terminalVars, gitVars>>
     \/ part = "git" /\ GitNext /\ UNCHANGED <<trellisVars, terminalVars, layoutVars>>

WorkspaceSpec == WorkspaceInit /\ [][WorkspaceNext]_workspaceVars

\* The books of every part agree with each other: an archived task is closed and
\* bound to nobody, a torn-down host runs no shell, no conversation holds more
\* shells than its limit, the nodes of a layout are distinct, no named tab is open
\* twice, and a narrow viewport shows every tab.
WorkspaceConsistent ==
  /\ TrellisTypeOK /\ ArchivedIsClosed
  /\ TerminalTypeOK /\ NoneAfterTeardown /\ LimitHolds
  /\ GitTypeOK
  /\ LayoutTypeOK /\ NodesDistinct /\ NamedTabsOnce /\ NarrowShowsAll
================================================================================
