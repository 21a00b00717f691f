--------------------------- MODULE SidebarTerminals ---------------------------
(***************************************************************************)
(* The terminals of the sidebar (dsh-better-sidebar: pty-manager.ts,       *)
(* terminal-host.ts and client/TerminalView.tsx).  The host keeps one      *)
(* shell per tab in a table.  A view of a tab talks to its shell over a    *)
(* socket; when the view goes away it says why with a frame ("close": the  *)
(* tab was closed, "park": the user is in another conversation) or says    *)
(* nothing, and the host closes the shell at once, never, or after a grace *)
(* period.  Sockets of one tab are independent connections: the host may   *)
(* handle the end of an older one after it has attached a newer one.       *)
(* Input, output, resizing and the transcript are left out.                *)
(***************************************************************************)
EXTENDS Naturals, Sequences, FiniteSets

CONSTANTS
  Conversation,   \* conversations of the page
  Tab,            \* terminal tabs
  tabOf,          \* the conversation of a tab
  Targeted,       \* tabs whose directory is a Git worktree the host looks up
  Free,           \* tabs the user keeps in free windows, not in a pane
  NoTab,          \* the tab of a socket not yet used
  Limit,          \* maxPerSession
  MaxSockets,     \* bound: sockets ever opened
  MaxShells       \* bound: shells ever started

Socket == 1..MaxSockets
Shell == 1..MaxShells

ASSUME TerminalAssumption ==
  /\ IsFiniteSet(Tab) /\ tabOf \in [Tab -> Conversation] /\ NoTab \notin Tab
  /\ Targeted \subseteq Tab /\ Free \subseteq Tab
  /\ Limit \in Nat /\ MaxSockets \in Nat /\ MaxShells \in Nat

NoShell == [shell |-> 0, cwd |-> "none", exited |-> FALSE]

VARIABLES
  current,    \* the conversation on screen
  isOpen,     \* tabs in their conversation's layout
  view,       \* tab -> socket of its mounted view, 0 while it has none
  mounted,    \* tabs whose view is mounted
  sockets,    \* socket -> tab, phase on the host, frames on their way
  opened,     \* sockets opened so far
  table,      \* PtyManager.sessions: tab -> shell, its directory, exited
  running,    \* shells whose process runs
  started,    \* shells started so far
  pendingCloses,    \* PtyManager.pendingCloses: tab -> none, now, grace
  parked,     \* PtyManager.parked
  releases,   \* pty.close calls on their way to the host
  cwd,        \* what the host takes for the conversation's directory
  disposing,  \* pluginDisposing
  crossed     \* tabs whose newer socket attached before an older one ended

clientVars == <<current, isOpen, view, mounted, opened>>
hostVars == <<table, running, started, pendingCloses, parked>>
terminalVars == <<clientVars, sockets, hostVars, releases, cwd, disposing, crossed>>

-----------------------------------------------------------------------------
(* PtyManager: a state is a record of hostVars                             *)

Host == [table |-> table, running |-> running, started |-> started,
         pendingCloses |-> pendingCloses, parked |-> parked]
Becomes(h) ==
  /\ table' = h.table /\ running' = h.running /\ started' = h.started
  /\ pendingCloses' = h.pendingCloses /\ parked' = h.parked

\* Mutation: the timer goes on.
CancelParking(h, t) == [h EXCEPT !.parked = @ \ {t}]

\* cancelClose: no timer any more, and no longer parked.
CancelClose(h, t) == [h EXCEPT !.pendingCloses[t] = "none", !.parked = @ \ {t}]

\* close: drop the entry and kill the process.
CloseShell(h, t) == [CancelClose(h, t) EXCEPT !.table[t] = NoShell, !.running = @ \ {h.table[t].shell}]

\* scheduleClose: nothing to close if the tab has no entry.
ScheduleClose(h, t, delay) ==
  IF h.table[t] = NoShell THEN h ELSE [CancelClose(h, t) EXCEPT !.pendingCloses[t] = delay]

Park(h, t) ==
  IF h.table[t] = NoShell THEN h ELSE [CancelClose(h, t) EXCEPT !.parked = @ \cup {t}]

KeysOf(h, c) == {t \in Tab : tabOf[t] = c /\ h.table[t] # NoShell}
Exited(h, c) == {t \in KeysOf(h, c) : h.table[t].exited}

\* Mutation: the entry of the old shell is dropped and its process forgotten.
WithRoomUnkilled(h, t) == [CancelClose(h, t) EXCEPT !.table[t] = NoShell]

\* open: exited shells of the conversation do not count against its limit.
Reuses(h, t, dir) == h.table[t].shell # 0 /\ ~h.table[t].exited /\ h.table[t].cwd = dir
WithRoom(h, t) ==
  LET mine == CloseShell(h, t)
      gone == Exited(mine, tabOf[t])
  IN [mine EXCEPT !.table = [k \in Tab |-> IF k \in gone THEN NoShell ELSE @[k]],
                  !.pendingCloses = [k \in Tab |-> IF k \in gone THEN "none" ELSE @[k]],
                  !.parked = @ \ gone]
LimitReached(h, t) == Cardinality(KeysOf(h, tabOf[t])) >= Limit
Spawned(h, t, dir) ==
  [h EXCEPT !.table[t] = [shell |-> h.started + 1, cwd |-> dir, exited |-> FALSE],
            !.running = @ \cup {h.started + 1}, !.started = @ + 1]

-----------------------------------------------------------------------------
(* The page                                                                *)

\* TerminalView's effect: a fresh socket for each tab of `ts`, oldest tab first.
Unused(s) == sockets[s].phase = "unused"
Fresh(t) == [tab |-> t, phase |-> "connecting", frames |-> <<>>]
Connected(socks, t) == [socks EXCEPT ![opened + 1] = Fresh(t)]

\* The view of a tab unmounts: the frame that tells why is sent on a socket
\* that is open, then the socket is closed.
Frames(s, frame) ==
  IF frame # "none" /\ sockets[s].phase # "connecting" THEN <<frame, "drop">> ELSE <<"drop">>
Left(s, frame) ==
  IF s = 0 THEN sockets
  ELSE [sockets EXCEPT ![s].frames = @ \o Frames(s, frame)]

\* Ids are minted: a tab that was closed does not come back.
OpenTab(t) ==
  /\ \A s \in Socket : sockets[s].tab # t
  /\ tabOf[t] = current
  /\ opened < MaxSockets
  /\ isOpen' = isOpen \cup {t} /\ mounted' = mounted \cup {t}
  /\ opened' = opened + 1
  /\ view' = [view EXCEPT ![t] = opened + 1]
  /\ sockets' = Connected(sockets, t)
  /\ UNCHANGED <<current, hostVars, releases, cwd, disposing, crossed>>

\* Mutation: the call that needs no socket is left out.
NotReleased(t) == releases

Released(t) == IF t \in Free THEN releases ELSE releases \cup {t}

\* The user closes a tab: a close frame if the socket is open, and for a tab of
\* a pane a pty.close call whether it is or not. The button of a free window
\* closes the tab without that call.
CloseTerminal(t) ==
  /\ t \in isOpen /\ t \in mounted
  /\ isOpen' = isOpen \ {t} /\ mounted' = mounted \ {t}
  /\ view' = [view EXCEPT ![t] = 0]
  /\ sockets' = Left(view[t], "close")
  /\ releases' = Released(t)
  /\ UNCHANGED <<current, opened, hostVars, cwd, disposing, crossed>>

\* The user goes to another conversation: the views of this one park their shells.
SwitchAway(c) ==
  /\ c # current
  /\ current' = c
  /\ mounted' = {}
  /\ view' = [t \in Tab |-> 0]
  /\ sockets' = [s \in Socket |->
       IF \E t \in mounted : view[t] = s
         THEN [sockets[s] EXCEPT !.frames = @ \o Frames(s, "park")] ELSE sockets[s]]
  /\ UNCHANGED <<isOpen, opened, hostVars, releases, cwd, disposing, crossed>>

\* The views of the conversation on screen mount, one after the other.
Mount(t) ==
  /\ t \in isOpen \ mounted /\ tabOf[t] = current
  /\ opened < MaxSockets
  /\ mounted' = mounted \cup {t}
  /\ opened' = opened + 1
  /\ view' = [view EXCEPT ![t] = opened + 1]
  /\ sockets' = Connected(sockets, t)
  /\ UNCHANGED <<current, isOpen, hostVars, releases, cwd, disposing, crossed>>

\* A page refresh, or a render that mounts the view again: no frame.
Remount(t) ==
  /\ t \in mounted /\ view[t] # 0
  /\ mounted' = mounted \ {t}
  /\ view' = [view EXCEPT ![t] = 0]
  /\ sockets' = Left(view[t], "none")
  /\ UNCHANGED <<current, isOpen, opened, hostVars, releases, cwd, disposing, crossed>>

\* The connection breaks: the view waits two seconds and connects again.
NetworkDrop(s) ==
  /\ sockets[s].phase \in {"resolving", "attached"}
  /\ "drop" \notin {sockets[s].frames[i] : i \in DOMAIN sockets[s].frames}
  /\ sockets' = [sockets EXCEPT ![s].frames = @ \o <<"drop">>]
  /\ view' = [t \in Tab |-> IF view[t] = s THEN 0 ELSE view[t]]
  /\ UNCHANGED <<current, isOpen, mounted, opened, hostVars, releases, cwd, disposing, crossed>>

Retry(t) ==
  /\ t \in mounted /\ view[t] = 0
  /\ opened < MaxSockets
  /\ opened' = opened + 1
  /\ view' = [view EXCEPT ![t] = opened + 1]
  /\ sockets' = Connected(sockets, t)
  /\ UNCHANGED <<current, isOpen, mounted, hostVars, releases, cwd, disposing, crossed>>

-----------------------------------------------------------------------------
(* The host                                                                *)

Abandoned(s) == sockets[s].frames # <<>>   \* the page has sent something

\* The socket is refused: the view shows why and waits for the user.
Refused(s) ==
  /\ sockets' = [sockets EXCEPT ![s].phase = "ended", ![s].frames = <<>>]
  /\ view' = [t \in Tab |-> IF view[t] = s THEN 0 ELSE view[t]]
  /\ UNCHANGED <<hostVars, crossed>>

Older(s) == {r \in 1..(s - 1) : sockets[r].tab = sockets[s].tab /\ sockets[r].phase # "ended"}

\* attachTerminal from the last check to ptyManager.open and the listeners.
Attach(s, dir) ==
  LET t == sockets[s].tab
      h == CancelClose(Host, t)
      room == WithRoom(h, t)
  IN \/ /\ Reuses(h, t, dir) \/ (~LimitReached(room, t) /\ started < MaxShells)
        /\ Becomes(IF Reuses(h, t, dir) THEN h ELSE Spawned(room, t, dir))
        /\ sockets' = [sockets EXCEPT ![s].phase = "attached"]
        /\ crossed' = IF Older(s) = {} THEN crossed ELSE crossed \cup {t}
        /\ UNCHANGED view
     \/ /\ ~Reuses(h, t, dir) /\ LimitReached(room, t)
        /\ Becomes(room)
        /\ sockets' = [sockets EXCEPT ![s].phase = "ended", ![s].frames = <<>>]
        /\ view' = [k \in Tab |-> IF view[k] = s THEN 0 ELSE view[k]]
        /\ UNCHANGED crossed

\* The upgrade of a socket. A targeted terminal needs the conversation's own
\* directory and waits for Git; the others attach at once.
Accept(s) ==
  LET t == sockets[s].tab
  IN /\ sockets[s].phase = "connecting" /\ ~Abandoned(s) /\ ~disposing
     /\ IF t \notin Targeted
          THEN Attach(s, cwd[tabOf[t]])
        ELSE IF cwd[tabOf[t]] = "guess"
          THEN Refused(s)
        ELSE /\ sockets' = [sockets EXCEPT ![s].phase = "resolving"]
             /\ UNCHANGED <<view, hostVars, crossed>>
     /\ UNCHANGED <<current, isOpen, mounted, opened, releases, cwd, disposing>>

\* A socket given up before the host answered never becomes a terminal.
GivenUp(s) ==
  /\ sockets[s].phase = "connecting" /\ (Abandoned(s) \/ disposing)
  /\ Refused(s)
  /\ UNCHANGED <<current, isOpen, mounted, opened, releases, cwd, disposing>>

\* Git answered: a socket that ended meanwhile, or a plugin being torn down,
\* gets no shell.
StillWanted(s) == ~disposing

Resolved(s) ==
  /\ sockets[s].phase = "resolving"
  /\ IF StillWanted(s) THEN Attach(s, "worktree")
     ELSE /\ sockets' = [sockets EXCEPT ![s].phase = "ended"]
          /\ UNCHANGED <<view, hostVars, crossed>>
  /\ UNCHANGED <<current, isOpen, mounted, opened, releases, cwd, disposing>>

\* The next frame of a socket. While Git is asked nobody listens: a close or
\* park frame is lost, and the end of the socket is only remembered.
TakeFrame(s) ==
  LET t == sockets[s].tab
      frame == Head(sockets[s].frames)
      listens == sockets[s].phase = "attached"
  IN /\ sockets[s].phase \in {"resolving", "attached"} /\ Abandoned(s)
     /\ Becomes(IF ~listens THEN Host
                ELSE IF frame = "close" THEN ScheduleClose(Host, t, "now")
                ELSE IF frame = "park" THEN Park(Host, t)
                ELSE IF t \in parked THEN Host
                ELSE ScheduleClose(Host, t, "grace"))
     /\ sockets' = [sockets EXCEPT ![s].frames = Tail(@),
                                   ![s].phase = IF frame = "drop" THEN "ended" ELSE @]
     /\ UNCHANGED <<clientVars, releases, cwd, disposing, crossed>>

\* A timer fires; the one of a close frame is due at once.
TimerFires(t) ==
  /\ pendingCloses[t] # "none"
  /\ Becomes(CloseShell(Host, t))
  /\ UNCHANGED <<clientVars, sockets, releases, cwd, disposing, crossed>>

\* The pty.close route.
PtyClose(t) ==
  /\ t \in releases
  /\ releases' = releases \ {t}
  /\ Becomes(CloseShell(Host, t))
  /\ UNCHANGED <<clientVars, sockets, cwd, disposing, crossed>>

\* The shell ends by itself: its entry stays, to be replayed.
Exit(t) ==
  /\ table[t].shell \in running
  /\ running' = running \ {table[t].shell}
  /\ table' = [table EXCEPT ![t].exited = TRUE]
  /\ UNCHANGED <<clientVars, sockets, started, pendingCloses, parked, releases, cwd, disposing, crossed>>

\* The conversation hydrates: its own directory replaces the guess.
Hydrate(c) ==
  /\ cwd[c] = "guess"
  /\ cwd' = [cwd EXCEPT ![c] = "own"]
  /\ UNCHANGED <<clientVars, sockets, hostVars, releases, disposing, crossed>>

\* Teardown of the plugin: disposeAll clears the timers and closes every shell.
Teardown ==
  /\ ~disposing
  /\ disposing' = TRUE
  /\ pendingCloses' = [t \in Tab |-> "none"]
  /\ parked' = parked \ {t \in Tab : table[t] # NoShell}
  /\ table' = [t \in Tab |-> NoShell]
  /\ running' = {}
  /\ UNCHANGED <<clientVars, sockets, started, releases, cwd, crossed>>

-----------------------------------------------------------------------------
TerminalInit ==
  /\ current \in Conversation
  /\ isOpen = {} /\ mounted = {}
  /\ view = [t \in Tab |-> 0]
  /\ sockets = [s \in Socket |-> [tab |-> NoTab, phase |-> "unused", frames |-> <<>>]]
  /\ opened = 0
  /\ table = [t \in Tab |-> NoShell]
  /\ running = {} /\ started = 0
  /\ pendingCloses = [t \in Tab |-> "none"]
  /\ parked = {} /\ releases = {}
  /\ cwd = [c \in Conversation |-> "guess"]
  /\ disposing = FALSE
  /\ crossed = {}

TerminalNext ==
  \/ \E t \in Tab : \/ OpenTab(t) \/ CloseTerminal(t) \/ Mount(t) \/ Remount(t) \/ Retry(t)
                    \/ TimerFires(t) \/ PtyClose(t) \/ Exit(t)
  \/ \E c \in Conversation : SwitchAway(c) \/ Hydrate(c)
  \/ \E s \in Socket : Accept(s) \/ GivenUp(s) \/ Resolved(s) \/ TakeFrame(s) \/ NetworkDrop(s)
  \/ Teardown

TerminalSpec == TerminalInit /\ [][TerminalNext]_terminalVars

\* Frames and calls arrive, Git answers and timers fire; nothing obliges the user.
TerminalFairness ==
  /\ \A t \in Tab : WF_terminalVars(TimerFires(t)) /\ WF_terminalVars(PtyClose(t))
  /\ \A s \in Socket : WF_terminalVars(Accept(s) \/ GivenUp(s) \/ Resolved(s) \/ TakeFrame(s))
FairTerminalSpec == TerminalSpec /\ TerminalFairness

-----------------------------------------------------------------------------
(* Properties                                                              *)

Phase == {"unused", "connecting", "resolving", "attached", "ended"}

\* The table and the sockets have their shapes, and a tab that is parked has
\* no timer: its shell waits for the user to come back.
TerminalTypeOK ==
  /\ isOpen \subseteq Tab /\ mounted \subseteq isOpen
  /\ \A t \in mounted : tabOf[t] = current
  /\ \A s \in Socket : sockets[s].phase \in Phase /\ (s > opened <=> Unused(s))
  /\ \A t \in Tab : /\ view[t] \in 0..opened /\ pendingCloses[t] \in {"none", "now", "grace"}
                    /\ table[t] = NoShell => pendingCloses[t] = "none" /\ t \notin parked
                    /\ t \in parked => pendingCloses[t] = "none"
  /\ running \subseteq 1..started

\* Every shell that runs is the one of some tab's entry: a shell replaced,
\* closed or refused is killed, never forgotten.
NoForgottenShell == \A p \in running : \E t \in Tab : table[t].shell = p /\ ~table[t].exited

\* A conversation never has more shells than its limit, whatever is closed,
\* reopened or exits in between.
LimitHolds == \A c \in Conversation : Cardinality(KeysOf(Host, c)) <= Limit

\* After the teardown no shell runs, though a lookup in Git may end later.
NoneAfterTeardown == disposing => running = {}

Attached(t) == view[t] # 0 /\ sockets[view[t]].phase = "attached"

\* No timer kills the shell of an open tab while its view is attached, as long
\* as the host ended the tab's older sockets before it attached the newer one.
AttachedShellKept ==
  [][\A t \in Tab \ crossed : t \in isOpen /\ Attached(t) => ~TimerFires(t)]_terminalVars

\* The shell of a tab the user closed in a pane does not outlive it: whatever its
\* socket was doing, a frame, the call or the grace period ends it.
Gone(t) == (t \notin isOpen /\ table[t] # NoShell) ~> table[t] = NoShell
ClosedTabReleases == \A t \in Tab \ Free : Gone(t)

\* What Sidebar.tsx says of every closed terminal, the ones in free windows
\* included: its shell is released although no close frame can be sent.
EveryClosedTabReleases == \A t \in Tab : Gone(t)

\* What pty-manager.ts says of its shells: they die only with their tab or the
\* plugin, so a timer set for a view that left never hits the view that came.
ShellsSurviveReconnects ==
  [][\A t \in Tab : t \in isOpen /\ Attached(t) => ~TimerFires(t)]_terminalVars
=============================================================================
