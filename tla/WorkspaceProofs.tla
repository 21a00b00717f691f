---------------------------- MODULE WorkspaceProofs ----------------------------
(*****************************************************************************)
(* Proofs about the workspace, for any conversations, tabs, limit, sockets,  *)
(* sessions, tasks and calls.                                                *)
(*                                                                           *)
(* SidebarTerminals: types, no shell is forgotten, the limit holds, nothing  *)
(* runs after the teardown, and no timer closes a shell under its attached   *)
(* view.  TrellisTasks: types, no task is lost, an archived task is closed,  *)
(* and a board shows every task.  MCWorkspace: the books of all four parts   *)
(* agree, with GitPanelProofs and LayoutProofs.                              *)
(*****************************************************************************)
EXTENDS MCWorkspace, GitPanelProofs, LayoutProofs

Entry == [shell : Nat, cwd : {"none", "guess", "own", "worktree"}, exited : BOOLEAN]
HostState == [table : [Tab -> Entry], running : SUBSET Nat, started : Nat,
              pendingCloses : [Tab -> {"none", "now", "grace"}], parked : SUBSET Tab]

\* A running shell is the live one of some tab's entry.
NoneForgotten(h) == \A p \in h.running : \E t \in Tab : h.table[t].shell = p /\ ~h.table[t].exited

\* What waits to be closed or is parked has an entry, and is not both.
WaitsApart(h) == \A t \in Tab :
  /\ h.table[t] = NoShell => h.pendingCloses[t] = "none" /\ t \notin h.parked
  /\ t \in h.parked => h.pendingCloses[t] = "none"

WithinLimit(h) == \A c \in Conversation : Cardinality(KeysOf(h, c)) <= Limit

HostOK(h) == /\ h \in HostState /\ h.running \subseteq 1 .. h.started
             /\ NoneForgotten(h) /\ WaitsApart(h) /\ WithinLimit(h)

-----------------------------------------------------------------------------
(* PtyManager *)

LEMMA NoShellIsEntry == NoShell \in Entry /\ NoShell.shell = 0
BY DEF NoShell, Entry

\* Entries that go make room: the limit still holds.
LEMMA FewerKeys ==
  ASSUME NEW h, NEW k, WithinLimit(h),
         \A t \in Tab : k.table[t] # NoShell => h.table[t] # NoShell
  PROVE  WithinLimit(k)
<1> SUFFICES ASSUME NEW c \in Conversation PROVE Cardinality(KeysOf(k, c)) <= Limit
  BY DEF WithinLimit
<1>1. IsFiniteSet(KeysOf(h, c))
  BY FS_Subset, TerminalAssumption DEF KeysOf
<1>2. KeysOf(k, c) \in SUBSET KeysOf(h, c)
  BY DEF KeysOf
<1>3. /\ Cardinality(KeysOf(k, c)) <= Cardinality(KeysOf(h, c)) /\ IsFiniteSet(KeysOf(k, c))
  BY <1>1, <1>2, FS_Subset
<1>4. Cardinality(KeysOf(k, c)) \in Nat /\ Cardinality(KeysOf(h, c)) \in Nat
  BY <1>1, <1>3, FS_CardinalityType
<1> QED BY <1>3, <1>4, TerminalAssumption DEF WithinLimit

LEMMA CancelCloseOK ==
  ASSUME NEW h, HostOK(h), NEW t \in Tab
  PROVE  /\ HostOK(CancelClose(h, t))
         /\ CancelClose(h, t).table = h.table /\ CancelClose(h, t).running = h.running
         /\ CancelClose(h, t).pendingCloses[t] = "none" /\ t \notin CancelClose(h, t).parked
<1> DEFINE k == CancelClose(h, t)
<1>1. /\ k \in HostState /\ k.table = h.table /\ k.running = h.running /\ k.started = h.started
      /\ k.pendingCloses = [h.pendingCloses EXCEPT ![t] = "none"] /\ k.parked = h.parked \ {t}
  BY DEF CancelClose, HostOK, HostState
<1>2. WithinLimit(k)
  BY <1>1, FewerKeys DEF HostOK
<1>3. WaitsApart(k)
  BY <1>1 DEF HostOK, HostState, WaitsApart
<1>4. NoneForgotten(k) /\ k.running \subseteq 1 .. k.started
  BY <1>1 DEF HostOK, NoneForgotten
<1>5. k.pendingCloses[t] = "none" /\ t \notin k.parked
  BY <1>1 DEF HostOK, HostState
<1> QED BY <1>1, <1>2, <1>3, <1>4, <1>5 DEF HostOK

LEMMA CloseShellOK ==
  ASSUME NEW h, HostOK(h), NEW t \in Tab
  PROVE  /\ HostOK(CloseShell(h, t)) /\ CloseShell(h, t).table[t] = NoShell
         /\ CloseShell(h, t).running \subseteq h.running
<1> DEFINE g == CancelClose(h, t)
           k == CloseShell(h, t)
<1>0. /\ HostOK(g) /\ g.table = h.table /\ g.running = h.running
      /\ g.pendingCloses[t] = "none" /\ t \notin g.parked
  BY CancelCloseOK
<1>1. k = [g EXCEPT !.table[t] = NoShell, !.running = @ \ {h.table[t].shell}]
  BY DEF CloseShell
<1> HIDE DEF g, k
<1>2. /\ k \in HostState /\ k.started = g.started /\ k.running = h.running \ {h.table[t].shell}
      /\ k.table = [h.table EXCEPT ![t] = NoShell]
      /\ k.pendingCloses = g.pendingCloses /\ k.parked = g.parked
  BY <1>0, <1>1, NoShellIsEntry DEF HostOK, HostState
<1>3. k.table[t] = NoShell /\ \A u \in Tab : u # t => k.table[u] = h.table[u]
  BY <1>2 DEF HostOK, HostState
<1>4. WithinLimit(k)
  BY <1>2, <1>3, FewerKeys DEF HostOK
<1>5. WaitsApart(k)
  BY <1>0, <1>2, <1>3 DEF HostOK, WaitsApart
<1>6. NoneForgotten(k)
  <2> SUFFICES ASSUME NEW p \in k.running
               PROVE  \E u \in Tab : k.table[u].shell = p /\ ~k.table[u].exited
    BY DEF NoneForgotten
  <2>1. PICK u \in Tab : h.table[u].shell = p /\ ~h.table[u].exited
    BY <1>2 DEF HostOK, NoneForgotten
  <2>2. u # t
    BY <1>2, <2>1
  <2> QED BY <2>1, <2>2, <1>3
<1>7. k.running \subseteq h.running /\ k.running \subseteq 1 .. k.started
  BY <1>0, <1>2 DEF HostOK
<1> QED BY <1>2, <1>3, <1>4, <1>5, <1>6, <1>7 DEF HostOK, k

LEMMA ScheduleCloseOK ==
  ASSUME NEW h, HostOK(h), NEW t \in Tab, NEW delay \in {"now", "grace"}
  PROVE  HostOK(ScheduleClose(h, t, delay)) /\ ScheduleClose(h, t, delay).running = h.running
<1>1. CASE h.table[t] = NoShell
  BY <1>1 DEF ScheduleClose
<1>2. CASE h.table[t] # NoShell
  <2> DEFINE g == CancelClose(h, t)
             k == ScheduleClose(h, t, delay)
  <2>0. HostOK(g) /\ g.table = h.table /\ g.running = h.running /\ t \notin g.parked
    BY CancelCloseOK
  <2>1. k = [g EXCEPT !.pendingCloses[t] = delay]
    BY <1>2 DEF ScheduleClose
  <2> HIDE DEF g, k
  <2>2. /\ k \in HostState /\ k.started = g.started /\ k.running = g.running /\ k.table = g.table
        /\ k.pendingCloses = [g.pendingCloses EXCEPT ![t] = delay] /\ k.parked = g.parked
    BY <2>0, <2>1 DEF HostOK, HostState
  <2>3. WithinLimit(k)
    BY <2>0, <2>2, FewerKeys DEF HostOK
  <2>4. WaitsApart(k)
    BY <1>2, <2>0, <2>2 DEF HostOK, HostState, WaitsApart
  <2>5. NoneForgotten(k) /\ k.running \subseteq 1 .. k.started
    BY <2>0, <2>2 DEF HostOK, NoneForgotten
  <2> QED BY <2>0, <2>2, <2>3, <2>4, <2>5 DEF HostOK, k
<1> QED BY <1>1, <1>2

LEMMA ParkOK ==
  ASSUME NEW h, HostOK(h), NEW t \in Tab
  PROVE  HostOK(Park(h, t)) /\ Park(h, t).running = h.running
<1>1. CASE h.table[t] = NoShell
  BY <1>1 DEF Park
<1>2. CASE h.table[t] # NoShell
  <2> DEFINE g == CancelClose(h, t)
             k == Park(h, t)
  <2>0. HostOK(g) /\ g.table = h.table /\ g.running = h.running /\ g.pendingCloses[t] = "none"
    BY CancelCloseOK
  <2>1. k = [g EXCEPT !.parked = @ \cup {t}]
    BY <1>2 DEF Park
  <2> HIDE DEF g, k
  <2>2. /\ k \in HostState /\ k.started = g.started /\ k.running = g.running /\ k.table = g.table
        /\ k.pendingCloses = g.pendingCloses /\ k.parked = g.parked \cup {t}
    BY <2>0, <2>1 DEF HostOK, HostState
  <2>3. WithinLimit(k)
    BY <2>0, <2>2, FewerKeys DEF HostOK
  <2>4. WaitsApart(k)
    BY <1>2, <2>0, <2>2 DEF HostOK, HostState, WaitsApart
  <2>5. NoneForgotten(k) /\ k.running \subseteq 1 .. k.started
    BY <2>0, <2>2 DEF HostOK, NoneForgotten
  <2> QED BY <2>0, <2>2, <2>3, <2>4, <2>5 DEF HostOK, k
<1> QED BY <1>1, <1>2

LEMMA WithRoomOK ==
  ASSUME NEW h, HostOK(h), NEW t \in Tab
  PROVE  /\ HostOK(WithRoom(h, t)) /\ WithRoom(h, t).table[t] = NoShell
         /\ WithRoom(h, t).running \subseteq h.running
<1> DEFINE g == CloseShell(h, t)
           gone == Exited(g, tabOf[t])
           k == WithRoom(h, t)
<1>0. HostOK(g) /\ g.table[t] = NoShell /\ g.running \subseteq h.running
  BY CloseShellOK
<1>1. k = [g EXCEPT !.table = [u \in Tab |-> IF u \in gone THEN NoShell ELSE @[u]],
                    !.pendingCloses = [u \in Tab |-> IF u \in gone THEN "none" ELSE @[u]],
                    !.parked = @ \ gone]
  BY DEF WithRoom
<1>2. \A u \in gone : u \in Tab /\ g.table[u].exited
  BY DEF Exited, KeysOf
<1> HIDE DEF g, k, gone
<1>3. /\ k.table = [u \in Tab |-> IF u \in gone THEN NoShell ELSE g.table[u]]
      /\ k.pendingCloses = [u \in Tab |-> IF u \in gone THEN "none" ELSE g.pendingCloses[u]]
      /\ k.parked = g.parked \ gone /\ k.running = g.running /\ k.started = g.started
      /\ k \in HostState
  BY <1>0, <1>1, NoShellIsEntry DEF HostOK, HostState
<1>4. WithinLimit(k)
  BY <1>0, <1>3, FewerKeys DEF HostOK
<1>5. WaitsApart(k)
  BY <1>0, <1>3 DEF HostOK, WaitsApart
<1>6. NoneForgotten(k)
  BY <1>0, <1>2, <1>3 DEF HostOK, NoneForgotten
<1>7. k.table[t] = NoShell /\ k.running \subseteq h.running /\ k.running \subseteq 1 .. k.started
  BY <1>0, <1>3 DEF HostOK
<1> QED BY <1>3, <1>4, <1>5, <1>6, <1>7 DEF HostOK, k

LEMMA SpawnedOK ==
  ASSUME NEW h, HostOK(h), NEW t \in Tab, NEW dir \in {"guess", "own", "worktree"},
         h.table[t] = NoShell, ~LimitReached(h, t)
  PROVE  HostOK(Spawned(h, t, dir))
<1> DEFINE n == h.started + 1
           e == [shell |-> n, cwd |-> dir, exited |-> FALSE]
           k == Spawned(h, t, dir)
<1>0. n \in Nat /\ e \in Entry /\ h.started \in Nat
  BY DEF HostOK, HostState, Entry
<1>1. k = [h EXCEPT !.table[t] = e, !.running = @ \cup {n}, !.started = @ + 1]
  BY DEF Spawned
<1>2. e.shell = n /\ e.exited = FALSE /\ e # NoShell
  BY <1>0 DEF NoShell, HostOK, HostState
<1> HIDE DEF e, k
<1>3. /\ k \in HostState /\ k.table = [h.table EXCEPT ![t] = e] /\ k.running = h.running \cup {n}
      /\ k.started = n /\ k.pendingCloses = h.pendingCloses /\ k.parked = h.parked
  BY <1>0, <1>1 DEF HostOK, HostState
<1>4. k.table[t] = e /\ \A u \in Tab : u # t => k.table[u] = h.table[u]
  BY <1>3 DEF HostOK, HostState
<1>5. WithinLimit(k)
  <2> SUFFICES ASSUME NEW c \in Conversation PROVE Cardinality(KeysOf(k, c)) <= Limit
    BY DEF WithinLimit
  <2>1. IsFiniteSet(KeysOf(h, c))
    BY FS_Subset, TerminalAssumption DEF KeysOf
  <2>2. Cardinality(KeysOf(h, c)) \in Nat
    BY <2>1, FS_CardinalityType
  <2>3. CASE c # tabOf[t]
    <3>1. KeysOf(k, c) = KeysOf(h, c)
      BY <1>4, <2>3 DEF KeysOf
    <3> QED BY <3>1 DEF HostOK, WithinLimit
  <2>4. CASE c = tabOf[t]
    <3>1. KeysOf(k, c) = KeysOf(h, c) \cup {t} /\ t \notin KeysOf(h, c)
      BY <1>2, <1>4, <2>4 DEF KeysOf
    <3>2. Cardinality(KeysOf(k, c)) = Cardinality(KeysOf(h, c)) + 1
      BY <2>1, <3>1, FS_AddElement
    <3>3. ~(Cardinality(KeysOf(h, c)) >= Limit)
      BY <2>4 DEF LimitReached
    <3> QED BY <2>2, <3>2, <3>3, TerminalAssumption
  <2> QED BY <2>3, <2>4
<1>6. WaitsApart(k)
  BY <1>3, <1>4 DEF HostOK, WaitsApart
<1>7. NoneForgotten(k)
  <2> SUFFICES ASSUME NEW p \in k.running
               PROVE  \E u \in Tab : k.table[u].shell = p /\ ~k.table[u].exited
    BY DEF NoneForgotten
  <2>1. CASE p = n
    BY <1>2, <1>4, <2>1
  <2>2. CASE p # n
    <3>1. PICK u \in Tab : h.table[u].shell = p /\ ~h.table[u].exited
      BY <1>3, <2>2 DEF HostOK, NoneForgotten
    <3>2. p # 0
      BY <1>0, <1>3, <2>2 DEF HostOK
    <3>3. u # t
      BY <3>1, <3>2, NoShellIsEntry
    <3> QED BY <3>1, <3>3, <1>4
  <2> QED BY <2>1, <2>2
<1>8. k.running \subseteq 1 .. k.started
  BY <1>0, <1>3 DEF HostOK
<1> QED BY <1>3, <1>5, <1>6, <1>7, <1>8 DEF HostOK, k
-----------------------------------------------------------------------------
(* The invariant *)

SocketState == [tab : Tab \cup {NoTab}, phase : Phase, frames : Seq({"close", "park", "drop"})]

\* Sockets 1 to n have been used, each for a tab.
SocketsOK(socks, n) ==
  /\ socks \in [Socket -> SocketState]
  /\ \A s \in Socket : /\ s > n <=> socks[s].phase = "unused"
                       /\ s <= n => socks[s].tab \in Tab

PageOK ==
  /\ current \in Conversation /\ isOpen \subseteq Tab /\ mounted \subseteq isOpen
  /\ \A t \in mounted : tabOf[t] = current
  /\ opened \in 0 .. MaxSockets /\ view \in [Tab -> 0 .. opened]
  /\ SocketsOK(sockets, opened)
RestOK == releases \subseteq Tab /\ cwd \in [Conversation -> {"guess", "own"}] /\ disposing \in BOOLEAN
TermInv == PageOK /\ RestOK /\ HostOK(Host) /\ NoneAfterTeardown

LEMMA HostAfter ==
  ASSUME NEW h, HostOK(h), Becomes(h)
  PROVE  HostOK(Host)' /\ running' = h.running
<1>1. Host' = h
  BY DEF Host, Becomes, HostOK, HostState
<1>2. HostOK(Host')
  BY <1>1
<1> QED BY <1>2 DEF Becomes, HostOK, HostState, NoneForgotten, WaitsApart, WithinLimit, KeysOf

LEMMA HostStays ==
  ASSUME HostOK(Host), UNCHANGED hostVars
  PROVE  HostOK(Host)' /\ running' = running
<1>1. Becomes(Host)
  BY DEF Becomes, Host, hostVars
<1> QED BY <1>1, HostAfter DEF hostVars

\* A socket that changes phase, but not back to "unused", or sends frames.
LEMMA SocketChange ==
  ASSUME NEW socks, NEW n \in Nat, SocketsOK(socks, n), NEW s \in Socket, s <= n,
         NEW x \in SocketState, x.phase # "unused", x.tab = socks[s].tab
  PROVE  SocketsOK([socks EXCEPT ![s] = x], n)
BY DEF SocketsOK, Socket

LEMMA TerminalInitHolds == TerminalInit => TermInv
<1> SUFFICES ASSUME TerminalInit PROVE TermInv
  OBVIOUS
<1>1. PageOK
  <2>1. <<>> \in Seq({"close", "park", "drop"})
    OBVIOUS
  <2>2. SocketsOK(sockets, opened)
    BY <2>1, TerminalAssumption DEF TerminalInit, SocketsOK, SocketState, Socket, Phase
  <2> QED BY <2>2, TerminalAssumption DEF TerminalInit, PageOK
<1>2. RestOK /\ NoneAfterTeardown
  BY DEF TerminalInit, RestOK, NoneAfterTeardown
<1>3. HostOK(Host)
  <2>1. Host \in HostState /\ Host.running = {}
    BY NoShellIsEntry DEF TerminalInit, Host, HostState
  <2>2. WaitsApart(Host) /\ NoneForgotten(Host) /\ Host.running \subseteq 1 .. Host.started
    BY DEF TerminalInit, Host, WaitsApart, NoneForgotten
  <2>3. WithinLimit(Host)
    <3> SUFFICES ASSUME NEW c \in Conversation PROVE Cardinality(KeysOf(Host, c)) <= Limit
      BY DEF WithinLimit
    <3>1. KeysOf(Host, c) = {}
      BY DEF TerminalInit, Host, KeysOf
    <3> QED BY <3>1, FS_EmptySet, TerminalAssumption
  <2> QED BY <2>1, <2>2, <2>3 DEF HostOK
<1> QED BY <1>1, <1>2, <1>3 DEF TermInv
-----------------------------------------------------------------------------
(* The page *)

\* A socket that connects for a tab: OpenTab, Mount, Retry.
LEMMA ConnectOK ==
  ASSUME PageOK, NEW t \in Tab, opened < MaxSockets
  PROVE  /\ SocketsOK(Connected(sockets, t), opened + 1)
         /\ opened + 1 \in 0 .. MaxSockets
         /\ [view EXCEPT ![t] = opened + 1] \in [Tab -> 0 .. (opened + 1)]
<1>1. Fresh(t) \in SocketState /\ Fresh(t).phase = "connecting" /\ Fresh(t).tab = t
  BY DEF Fresh, SocketState, Phase
<1>2. opened + 1 \in Socket /\ opened \in Nat
  BY TerminalAssumption DEF PageOK, Socket
<1>3. SocketsOK([sockets EXCEPT ![opened + 1] = Fresh(t)], opened + 1)
  BY <1>1, <1>2 DEF PageOK, SocketsOK, Socket
<1> QED BY <1>2, <1>3, TerminalAssumption DEF Connected, PageOK, Socket

LEMMA FramesOK ==
  ASSUME NEW s \in Socket, NEW f \in {"close", "park", "none"}, SocketsOK(sockets, opened)
  PROVE  sockets[s].frames \o Frames(s, f) \in Seq({"close", "park", "drop"})
<1>1. <<"drop">> \in Seq({"close", "park", "drop"})
  OBVIOUS
<1>2. f # "none" => <<f, "drop">> \in Seq({"close", "park", "drop"})
  OBVIOUS
<1>3. Frames(s, f) \in Seq({"close", "park", "drop"})
  BY <1>1, <1>2 DEF Frames
<1> QED BY <1>3 DEF SocketsOK, SocketState

\* A view that leaves: CloseTerminal, Remount.
LEMMA LeftOK ==
  ASSUME PageOK, NEW s \in 0 .. opened, NEW f \in {"close", "park", "none"}
  PROVE  SocketsOK(Left(s, f), opened)
<1>1. CASE s = 0
  BY <1>1 DEF Left, PageOK
<1>2. CASE s # 0
  <2> DEFINE x == [sockets[s] EXCEPT !.frames = @ \o Frames(s, f)]
  <2>1. s \in Socket /\ opened \in Nat /\ s <= opened
    BY <1>2, TerminalAssumption DEF PageOK, Socket
  <2>2. x \in SocketState /\ x.phase = sockets[s].phase /\ x.tab = sockets[s].tab
    BY <2>1, FramesOK DEF PageOK, SocketsOK, SocketState
  <2>3. x.phase # "unused"
    BY <2>1, <2>2 DEF PageOK, SocketsOK
  <2>4. Left(s, f) = [sockets EXCEPT ![s] = x]
    BY <1>2 DEF Left
  <2> HIDE DEF x
  <2> QED BY <2>1, <2>2, <2>3, <2>4, SocketChange, ZenonT(30) DEF PageOK
<1> QED BY <1>1, <1>2

LEMMA PageSteps ==
  ASSUME TermInv, NEW t \in Tab,
         OpenTab(t) \/ CloseTerminal(t) \/ Mount(t) \/ Remount(t) \/ Retry(t)
  PROVE  TermInv'
<1>1. HostOK(Host)' /\ running' = running
  BY HostStays DEF TermInv, OpenTab, CloseTerminal, Mount, Remount, Retry
<1>2. RestOK' /\ disposing' = disposing
  BY DEF TermInv, RestOK, OpenTab, CloseTerminal, Mount, Remount, Retry, Released
<1>3. PageOK'
  <2>0. PageOK
    BY DEF TermInv
  <2>1. CASE OpenTab(t)
    BY <2>0, <2>1, ConnectOK DEF OpenTab, PageOK
  <2>2. CASE CloseTerminal(t)
    <3>1. view[t] \in 0 .. opened /\ [view EXCEPT ![t] = 0] \in [Tab -> 0 .. opened]
      BY <2>0 DEF PageOK
    <3> QED BY <2>0, <2>2, <3>1, LeftOK DEF CloseTerminal, PageOK
  <2>3. CASE Mount(t)
    BY <2>0, <2>3, ConnectOK DEF Mount, PageOK
  <2>4. CASE Remount(t)
    <3>1. view[t] \in 0 .. opened /\ [view EXCEPT ![t] = 0] \in [Tab -> 0 .. opened]
      BY <2>0 DEF PageOK
    <3> QED BY <2>0, <2>4, <3>1, LeftOK DEF Remount, PageOK
  <2>5. CASE Retry(t)
    BY <2>0, <2>5, ConnectOK DEF Retry, PageOK
  <2> QED BY <2>1, <2>2, <2>3, <2>4, <2>5
<1> QED BY <1>1, <1>2, <1>3 DEF TermInv, NoneAfterTeardown

LEMMA SwitchAwayStep == ASSUME TermInv, NEW c \in Conversation, SwitchAway(c) PROVE TermInv'
<1>1. HostOK(Host)' /\ running' = running
  BY HostStays DEF TermInv, SwitchAway
<1>2. RestOK' /\ disposing' = disposing
  BY DEF TermInv, RestOK, SwitchAway
<1>3. SocketsOK(sockets', opened)
  <2> SUFFICES ASSUME NEW s \in Socket
               PROVE  /\ sockets'[s] \in SocketState /\ sockets'[s].phase = sockets[s].phase
                      /\ sockets'[s].tab = sockets[s].tab
    BY DEF TermInv, PageOK, SocketsOK, SwitchAway
  <2>1. sockets[s] \in SocketState /\ SocketsOK(sockets, opened)
    BY DEF TermInv, PageOK, SocketsOK
  <2>2. [sockets[s] EXCEPT !.frames = @ \o Frames(s, "park")] \in SocketState
    BY <2>1, FramesOK DEF SocketState
  <2> QED BY <2>1, <2>2 DEF SwitchAway, SocketState
<1>4. PageOK'
  BY <1>3 DEF TermInv, PageOK, SwitchAway
<1> QED BY <1>1, <1>2, <1>4 DEF TermInv, NoneAfterTeardown

\* A view that lost its socket.
LEMMA UnviewOK ==
  ASSUME PageOK, NEW s
  PROVE  [t \in Tab |-> IF view[t] = s THEN 0 ELSE view[t]] \in [Tab -> 0 .. opened]
BY DEF PageOK

LEMMA NetworkDropStep == ASSUME TermInv, NEW s \in Socket, NetworkDrop(s) PROVE TermInv'
<1> DEFINE x == [sockets[s] EXCEPT !.frames = @ \o <<"drop">>]
<1>1. HostOK(Host)' /\ running' = running
  BY HostStays DEF TermInv, NetworkDrop
<1>2. RestOK' /\ disposing' = disposing
  BY DEF TermInv, RestOK, NetworkDrop
<1>3. s <= opened /\ opened \in Nat
  BY TerminalAssumption DEF TermInv, PageOK, SocketsOK, NetworkDrop, Socket
<1>4. x \in SocketState /\ x.phase = sockets[s].phase /\ x.tab = sockets[s].tab
  <2>1. sockets[s] \in SocketState
    BY DEF TermInv, PageOK, SocketsOK
  <2>2. sockets[s].frames \o <<"drop">> \in Seq({"close", "park", "drop"})
    BY <2>1 DEF SocketState
  <2> QED BY <2>1, <2>2 DEF SocketState
<1>5. x.phase # "unused" /\ sockets' = [sockets EXCEPT ![s] = x]
  BY <1>4 DEF NetworkDrop
<1> HIDE DEF x
<1>6. SocketsOK(sockets', opened)
  BY <1>3, <1>4, <1>5, SocketChange DEF TermInv, PageOK
<1>7. PageOK'
  BY <1>6, UnviewOK DEF TermInv, PageOK, NetworkDrop
<1> QED BY <1>1, <1>2, <1>7 DEF TermInv, NoneAfterTeardown
-----------------------------------------------------------------------------
(* The host *)

LEMMA PhaseOK ==
  ASSUME SocketsOK(sockets, opened), opened \in Nat, NEW s \in Socket, s <= opened,
         NEW p \in Phase \ {"unused"}
  PROVE  /\ SocketsOK([sockets EXCEPT ![s].phase = p], opened)
         /\ SocketsOK([sockets EXCEPT ![s].phase = p, ![s].frames = <<>>], opened)
<1> DEFINE x == [sockets[s] EXCEPT !.phase = p]
           y == [sockets[s] EXCEPT !.phase = p, !.frames = <<>>]
<1>1. sockets[s] \in SocketState /\ p \in Phase /\ p # "unused"
      /\ <<>> \in Seq({"close", "park", "drop"})
  BY DEF SocketsOK
<1>2. x \in SocketState /\ x.phase # "unused" /\ x.tab = sockets[s].tab
  BY <1>1 DEF SocketState
<1>3. y \in SocketState /\ y.phase # "unused" /\ y.tab = sockets[s].tab
  BY <1>1 DEF SocketState
<1>4. /\ [sockets EXCEPT ![s].phase = p] = [sockets EXCEPT ![s] = x]
      /\ [sockets EXCEPT ![s].phase = p, ![s].frames = <<>>] = [sockets EXCEPT ![s] = y]
  BY DEF SocketsOK
<1> HIDE DEF x, y
<1> QED BY <1>2, <1>3, <1>4, SocketChange, ZenonT(30)

LEMMA AttachOK ==
  ASSUME TermInv, NEW s \in Socket, ~Unused(s), NEW dir \in {"guess", "own", "worktree"},
         Attach(s, dir)
  PROVE  HostOK(Host)' /\ SocketsOK(sockets', opened) /\ view' \in [Tab -> 0 .. opened]
<1> DEFINE t == sockets[s].tab
           h == CancelClose(Host, t)
           room == WithRoom(h, t)
<1>1. t \in Tab /\ s <= opened /\ opened \in Nat /\ PageOK
  BY TerminalAssumption DEF TermInv, PageOK, SocketsOK, Unused, Socket
<1>2. HostOK(h)
  BY <1>1, CancelCloseOK DEF TermInv
<1>3. HostOK(room) /\ room.table[t] = NoShell
  BY <1>1, <1>2, WithRoomOK
<1>4. CASE /\ Reuses(h, t, dir) \/ (~LimitReached(room, t) /\ started < MaxShells)
           /\ Becomes(IF Reuses(h, t, dir) THEN h ELSE Spawned(room, t, dir))
           /\ sockets' = [sockets EXCEPT ![s].phase = "attached"]
           /\ UNCHANGED view
  <2>1. SocketsOK(sockets', opened) /\ view' \in [Tab -> 0 .. opened]
    BY <1>1, <1>4, PhaseOK DEF PageOK, Phase
  <2>2. CASE Reuses(h, t, dir)
    <3>1. Becomes(h)
      BY <1>4, <2>2
    <3> QED BY <1>2, <2>1, <3>1, HostAfter
  <2>3. CASE ~Reuses(h, t, dir)
    <3>1. HostOK(Spawned(room, t, dir))
      BY <1>1, <1>3, <1>4, <2>3, SpawnedOK
    <3>2. Becomes(Spawned(room, t, dir))
      BY <1>4, <2>3
    <3> QED BY <2>1, <3>1, <3>2, HostAfter
  <2> QED BY <2>2, <2>3
<1>5. CASE /\ Becomes(room)
           /\ sockets' = [sockets EXCEPT ![s].phase = "ended", ![s].frames = <<>>]
           /\ view' = [k \in Tab |-> IF view[k] = s THEN 0 ELSE view[k]]
  <2>1. SocketsOK(sockets', opened) /\ view' \in [Tab -> 0 .. opened]
    BY <1>1, <1>5, PhaseOK, UnviewOK DEF PageOK, Phase
  <2> QED BY <1>3, <1>5, <2>1, HostAfter
<1> QED BY <1>4, <1>5 DEF Attach

\* What an upgrade or an answer of Git leaves alone.
LEMMA PageRest ==
  ASSUME TermInv, UNCHANGED <<current, isOpen, mounted, opened, releases, cwd, disposing>>,
         SocketsOK(sockets', opened), view' \in [Tab -> 0 .. opened]
  PROVE  PageOK' /\ RestOK'
BY DEF TermInv, PageOK, RestOK

LEMMA RefusedOK ==
  ASSUME TermInv, NEW s \in Socket, ~Unused(s), Refused(s)
  PROVE  /\ HostOK(Host)' /\ running' = running
         /\ SocketsOK(sockets', opened) /\ view' \in [Tab -> 0 .. opened]
<1>1. s <= opened /\ opened \in Nat /\ PageOK
  BY TerminalAssumption DEF TermInv, PageOK, SocketsOK, Unused, Socket
<1> QED BY <1>1, HostStays, PhaseOK, UnviewOK DEF Refused, TermInv, PageOK, Phase

LEMMA AcceptStep == ASSUME TermInv, NEW s \in Socket, Accept(s) PROVE TermInv'
<1> DEFINE t == sockets[s].tab
<1>1. /\ ~disposing /\ ~Unused(s) /\ disposing' = disposing
      /\ UNCHANGED <<current, isOpen, mounted, opened, releases, cwd, disposing>>
  BY DEF Accept, Unused
<1>2. t \in Tab /\ s <= opened /\ opened \in Nat /\ PageOK
  BY <1>1, TerminalAssumption DEF TermInv, PageOK, SocketsOK, Unused, Socket
<1>3. HostOK(Host)' /\ SocketsOK(sockets', opened) /\ view' \in [Tab -> 0 .. opened]
  <2>1. CASE t \notin Targeted
    <3>1. cwd[tabOf[t]] \in {"guess", "own", "worktree"}
      BY <1>2, TerminalAssumption DEF TermInv, RestOK
    <3>2. Attach(s, cwd[tabOf[t]])
      BY <2>1 DEF Accept
    <3> QED BY <1>1, <3>1, <3>2, AttachOK
  <2>2. CASE t \in Targeted /\ cwd[tabOf[t]] = "guess"
    BY <1>1, <2>2, RefusedOK DEF Accept
  <2>3. CASE t \in Targeted /\ cwd[tabOf[t]] # "guess"
    <3>1. sockets' = [sockets EXCEPT ![s].phase = "resolving"] /\ UNCHANGED <<view, hostVars>>
      BY <2>3 DEF Accept
    <3> QED BY <1>2, <3>1, HostStays, PhaseOK DEF TermInv, PageOK, Phase
  <2> QED BY <2>1, <2>2, <2>3
<1> QED BY <1>1, <1>3, PageRest DEF TermInv, NoneAfterTeardown

LEMMA GivenUpStep == ASSUME TermInv, NEW s \in Socket, GivenUp(s) PROVE TermInv'
<1>1. /\ ~Unused(s) /\ Refused(s)
      /\ UNCHANGED <<current, isOpen, mounted, opened, releases, cwd, disposing>>
  BY DEF GivenUp, Unused
<1> QED BY <1>1, RefusedOK, PageRest DEF TermInv, NoneAfterTeardown

LEMMA ResolvedStep == ASSUME TermInv, NEW s \in Socket, Resolved(s) PROVE TermInv'
<1>1. /\ ~Unused(s)
      /\ UNCHANGED <<current, isOpen, mounted, opened, releases, cwd, disposing>>
  BY DEF Resolved, Unused
<1>2. CASE StillWanted(s)
  BY <1>1, <1>2, AttachOK, PageRest DEF Resolved, StillWanted, TermInv, NoneAfterTeardown
<1>3. CASE ~StillWanted(s)
  <2>1. s <= opened /\ opened \in Nat
    BY <1>1, TerminalAssumption DEF TermInv, PageOK, SocketsOK, Unused, Socket
  <2>2. sockets' = [sockets EXCEPT ![s].phase = "ended"] /\ UNCHANGED <<view, hostVars>>
    BY <1>3 DEF Resolved
  <2>3. SocketsOK(sockets', opened) /\ view' \in [Tab -> 0 .. opened]
    BY <2>1, <2>2, PhaseOK DEF TermInv, PageOK, Phase
  <2>4. HostOK(Host)' /\ running' = running
    BY <2>2, HostStays DEF TermInv
  <2> QED BY <1>1, <2>3, <2>4, PageRest DEF TermInv, NoneAfterTeardown
<1> QED BY <1>2, <1>3
LEMMA TakeFrameStep == ASSUME TermInv, NEW s \in Socket, TakeFrame(s) PROVE TermInv'
<1> DEFINE t == sockets[s].tab
           frame == Head(sockets[s].frames)
           p == IF frame = "drop" THEN "ended" ELSE sockets[s].phase
           x == [sockets[s] EXCEPT !.frames = Tail(@), !.phase = p]
<1>1. ~Unused(s) /\ sockets[s].frames # <<>> /\ UNCHANGED <<clientVars, releases, cwd, disposing>>
  BY DEF TakeFrame, Abandoned, Unused
<1>2. t \in Tab /\ s <= opened /\ opened \in Nat /\ PageOK /\ sockets[s] \in SocketState
  <2>1. PageOK /\ SocketsOK(sockets, opened) /\ opened \in Nat
    BY TerminalAssumption DEF TermInv, PageOK
  <2>2. sockets[s].phase # "unused" /\ s \in Nat
    BY <1>1 DEF Unused, Socket
  <2> QED BY <2>1, <2>2 DEF SocketsOK
<1>3. HostOK(Host)' /\ running' = running
  <2>1. PICK h \in {Host, ScheduleClose(Host, t, "now"), Park(Host, t), ScheduleClose(Host, t, "grace")} :
          Becomes(h)
    BY DEF TakeFrame
  <2>2. HostOK(h) /\ h.running = Host.running
    <3>1. HostOK(Host)
      BY DEF TermInv
    <3> QED BY <1>2, <2>1, <3>1, ScheduleCloseOK, ParkOK
  <2> QED BY <2>1, <2>2, HostAfter DEF Host
<1>4. p \in Phase /\ p # "unused"
  BY <1>1, <1>2 DEF SocketState, Phase, Unused
<1>5. x \in SocketState /\ x.phase = p /\ x.tab = sockets[s].tab
  <2>1. Tail(sockets[s].frames) \in Seq({"close", "park", "drop"})
    BY <1>1, <1>2 DEF SocketState
  <2> QED BY <1>2, <1>4, <2>1 DEF SocketState
<1>6. sockets' = [sockets EXCEPT ![s] = x]
  BY DEF TakeFrame, TermInv, PageOK, SocketsOK
<1> HIDE DEF x, p
<1>7. SocketsOK(sockets', opened)
  BY <1>2, <1>4, <1>5, <1>6, SocketChange DEF PageOK
<1> QED BY <1>1, <1>3, <1>7 DEF TermInv, PageOK, RestOK, NoneAfterTeardown, clientVars

\* A timer fires, or the call that closes a tab comes in.
LEMMA CloseSteps ==
  ASSUME TermInv, NEW t \in Tab, TimerFires(t) \/ PtyClose(t)
  PROVE  TermInv'
<1>1. Becomes(CloseShell(Host, t)) /\ UNCHANGED <<clientVars, sockets, cwd, disposing>>
      /\ releases' \subseteq releases
  BY DEF TimerFires, PtyClose
<1>2. HostOK(Host)' /\ running' \subseteq running
  BY <1>1, CloseShellOK, HostAfter DEF TermInv, Host
<1> QED BY <1>1, <1>2 DEF TermInv, PageOK, RestOK, NoneAfterTeardown, clientVars

LEMMA ExitStep == ASSUME TermInv, NEW t \in Tab, Exit(t) PROVE TermInv'
<1> DEFINE tbl == [table EXCEPT ![t].exited = TRUE]
           h == [table |-> tbl, running |-> running \ {table[t].shell}, started |-> started,
                 pendingCloses |-> pendingCloses, parked |-> parked]
<1>1. HostOK(Host) /\ Host.table = table /\ Host.running = running /\ Host.started = started
      /\ Host.pendingCloses = pendingCloses /\ Host.parked = parked
  BY DEF TermInv, Host
<1>2. /\ h \in HostState /\ h.running = running \ {table[t].shell}
      /\ h.table = [table EXCEPT ![t].exited = TRUE]
      /\ h.started = started /\ h.pendingCloses = pendingCloses /\ h.parked = parked
  <2>0. table \in [Tab -> Entry] /\ table[t] \in Entry
    BY <1>1 DEF HostOK, HostState
  <2>1. [table[t] EXCEPT !.exited = TRUE] \in Entry
    BY <2>0 DEF Entry
  <2>2. tbl \in [Tab -> Entry]
    BY <2>0, <2>1
  <2> QED BY <1>1, <2>2 DEF HostOK, HostState
<1>3. Becomes(h) /\ UNCHANGED <<clientVars, sockets, releases, cwd, disposing>>
  BY <1>2 DEF Exit, Becomes
<1> HIDE DEF h
<1>4. table[t].shell # 0
  BY <1>1 DEF Exit, HostOK
<1>5. /\ h.table[t].shell = table[t].shell /\ table[t] # NoShell /\ h.table[t] # NoShell
      /\ \A u \in Tab : u # t => h.table[u] = table[u]
  BY <1>1, <1>2, <1>4, NoShellIsEntry DEF HostOK, HostState, Entry
<1>6. WithinLimit(h)
  BY <1>1, <1>5, FewerKeys DEF HostOK
<1>7. WaitsApart(h)
  BY <1>1, <1>2, <1>5 DEF HostOK, WaitsApart
<1>8. NoneForgotten(h)
  <2> SUFFICES ASSUME NEW p \in h.running
               PROVE  \E u \in Tab : h.table[u].shell = p /\ ~h.table[u].exited
    BY DEF NoneForgotten
  <2>1. PICK u \in Tab : table[u].shell = p /\ ~table[u].exited
    BY <1>1, <1>2 DEF HostOK, NoneForgotten
  <2>2. u # t
    BY <1>2, <2>1
  <2> QED BY <1>5, <2>1, <2>2
<1>9. HostOK(h)
  BY <1>1, <1>2, <1>6, <1>7, <1>8 DEF HostOK
<1>10. HostOK(Host)' /\ running' \subseteq running
  BY <1>2, <1>3, <1>9, HostAfter
<1> QED BY <1>3, <1>10 DEF TermInv, PageOK, RestOK, NoneAfterTeardown, clientVars

LEMMA HydrateStep == ASSUME TermInv, NEW c \in Conversation, Hydrate(c) PROVE TermInv'
<1>1. HostOK(Host)' /\ running' = running
  BY HostStays DEF TermInv, Hydrate
<1>2. RestOK'
  BY DEF TermInv, RestOK, Hydrate
<1> QED BY <1>1, <1>2 DEF TermInv, PageOK, NoneAfterTeardown, Hydrate, clientVars

LEMMA TeardownStep == ASSUME TermInv, Teardown PROVE TermInv'
<1> DEFINE h == [table |-> [t \in Tab |-> NoShell], running |-> {}, started |-> started,
                 pendingCloses |-> [t \in Tab |-> "none"],
                 parked |-> parked \ {t \in Tab : table[t] # NoShell}]
<1>1. HostOK(Host) /\ Host.table = table /\ Host.started = started /\ Host.parked = parked
  BY DEF TermInv, Host
<1>2. h \in HostState
  BY <1>1, NoShellIsEntry DEF HostOK, HostState
<1>3. Becomes(h) /\ UNCHANGED <<clientVars, sockets, releases, cwd>> /\ disposing' = TRUE
  BY DEF Teardown, Becomes
<1>4. WithinLimit(h)
  BY <1>1, FewerKeys DEF HostOK
<1>5. WaitsApart(h)
  BY <1>1 DEF HostOK, WaitsApart
<1>6. NoneForgotten(h) /\ h.running \subseteq 1 .. h.started
  BY DEF NoneForgotten
<1>7. HostOK(h) /\ h.running = {}
  BY <1>2, <1>4, <1>5, <1>6 DEF HostOK
<1> HIDE DEF h
<1>8. HostOK(Host)' /\ running' = {}
  BY <1>3, <1>7, HostAfter
<1> QED BY <1>3, <1>8 DEF TermInv, PageOK, RestOK, NoneAfterTeardown, clientVars

-----------------------------------------------------------------------------
(* The theorems *)

LEMMA StepHolds == TermInv /\ [TerminalNext]_terminalVars => TermInv'
<1> SUFFICES ASSUME TermInv, [TerminalNext]_terminalVars PROVE TermInv'
  OBVIOUS
<1>1. ASSUME NEW t \in Tab, OpenTab(t) \/ CloseTerminal(t) \/ Mount(t) \/ Remount(t) \/ Retry(t)
      PROVE  TermInv'
  BY <1>1, PageSteps
<1>2. ASSUME NEW t \in Tab, TimerFires(t) \/ PtyClose(t) PROVE TermInv'
  BY <1>2, CloseSteps
<1>3. ASSUME NEW t \in Tab, Exit(t) PROVE TermInv'
  BY <1>3, ExitStep
<1>4. ASSUME NEW c \in Conversation, SwitchAway(c) \/ Hydrate(c) PROVE TermInv'
  BY <1>4, SwitchAwayStep, HydrateStep
<1>5. ASSUME NEW s \in Socket,
             Accept(s) \/ GivenUp(s) \/ Resolved(s) \/ TakeFrame(s) \/ NetworkDrop(s)
      PROVE  TermInv'
  BY <1>5, AcceptStep, GivenUpStep, ResolvedStep, TakeFrameStep, NetworkDropStep
<1>6. CASE Teardown
  BY <1>6, TeardownStep
<1>7. CASE UNCHANGED terminalVars
  <2>1. HostOK(Host)' /\ running' = running
    BY <1>7, HostStays DEF TermInv, terminalVars
  <2> QED BY <1>7, <2>1 DEF TermInv, PageOK, RestOK, NoneAfterTeardown, terminalVars, clientVars
<1> QED BY <1>1, <1>2, <1>3, <1>4, <1>5, <1>6, <1>7 DEF TerminalNext

LEMMA InvHolds == TerminalSpec => []TermInv
<1> QED BY TerminalInitHolds, StepHolds, PTL DEF TerminalSpec

LEMMA InvGivesTypes == TermInv => TerminalTypeOK
<1> SUFFICES ASSUME TermInv PROVE TerminalTypeOK
  OBVIOUS
<1>1. \A s \in Socket : sockets[s].phase \in Phase /\ (s > opened <=> Unused(s))
  BY DEF TermInv, PageOK, SocketsOK, SocketState, Unused
<1>2. \A t \in Tab : /\ pendingCloses[t] \in {"none", "now", "grace"}
                     /\ table[t] = NoShell => pendingCloses[t] = "none" /\ t \notin parked
                     /\ t \in parked => pendingCloses[t] = "none"
  BY DEF TermInv, HostOK, HostState, WaitsApart, Host
<1>3. running \subseteq 1 .. started
  BY DEF TermInv, HostOK, Host
<1> QED BY <1>1, <1>2, <1>3 DEF TerminalTypeOK, TermInv, PageOK

\* The tables of the page and of the host keep their shapes; a tab is never
\* both parked and waiting to be closed (PtyManager.park and scheduleClose).
THEOREM TerminalTypes == TerminalSpec => []TerminalTypeOK
<1> QED BY InvHolds, InvGivesTypes, PTL

\* Every running shell is reachable through its tab's entry: PtyManager.open
\* kills the shell it replaces and the exited ones it evicts are not running.
THEOREM ShellsAreKept == TerminalSpec => []NoForgottenShell
<1>1. TermInv => NoForgottenShell
  BY DEF TermInv, HostOK, NoneForgotten, NoForgottenShell, Host
<1> QED BY <1>1, InvHolds, PTL

\* No conversation exceeds maxPerSession, for every limit and number of tabs.
THEOREM LimitIsKept == TerminalSpec => []LimitHolds
<1>1. TermInv => LimitHolds
  BY DEF TermInv, HostOK, WithinLimit, LimitHolds
<1> QED BY <1>1, InvHolds, PTL

\* A lookup in Git that ends after the teardown starts no shell.
THEOREM NothingAfterTeardown == TerminalSpec => []NoneAfterTeardown
<1>1. TermInv => NoneAfterTeardown
  BY DEF TermInv
<1> QED BY <1>1, InvHolds, PTL

-----------------------------------------------------------------------------
(* Timers and views *)

\* The socket of a view is the newest of its tab, and the page has sent
\* nothing on it yet.
ViewIsNewest == \A t \in Tab : view[t] # 0 =>
  /\ sockets[view[t]].tab = t /\ sockets[view[t]].frames = <<>>
  /\ \A r \in Socket : sockets[r].tab = t => r <= view[t]

\* Unless the tab's sockets crossed, the host has ended those older than the
\* one it attached.
OlderEnded == \A s, r \in Socket :
  /\ sockets[r].tab = sockets[s].tab /\ sockets[s].tab \notin crossed
  /\ sockets[s].phase = "attached" /\ r < s
  => sockets[r].phase = "ended"

NoTimer == \A t \in Tab \ crossed : Attached(t) => pendingCloses[t] = "none"
UnusedBlank == \A s \in Socket : s > opened => sockets[s].tab = NoTab
KeptInv == TermInv /\ ViewIsNewest /\ OlderEnded /\ NoTimer /\ UnusedBlank

\* A step of the host that sets no timer for tab u.
SetsNone(h, k, u) == h.pendingCloses[u] = "none" => k.pendingCloses[u] = "none"

LEMMA TimersOfHost ==
  ASSUME NEW h, HostOK(h), NEW t \in Tab, NEW u \in Tab, NEW delay \in {"now", "grace"},
         NEW dir \in {"guess", "own", "worktree"}
  PROVE  /\ SetsNone(h, CancelClose(h, t), u) /\ SetsNone(h, CloseShell(h, t), u)
         /\ SetsNone(h, Park(h, t), u) /\ SetsNone(h, WithRoom(h, t), u)
         /\ Spawned(h, t, dir).pendingCloses = h.pendingCloses
         /\ u # t => SetsNone(h, ScheduleClose(h, t, delay), u)
<1> DEFINE g == CancelClose(h, t)
           c == CloseShell(h, t)
<1>1. g.pendingCloses = [h.pendingCloses EXCEPT ![t] = "none"]
  BY DEF CancelClose, HostOK, HostState
<1>2. c.pendingCloses = g.pendingCloses
  BY DEF CloseShell, CancelClose, HostOK, HostState
<1>3. SetsNone(h, g, u) /\ SetsNone(h, c, u)
  BY <1>1, <1>2 DEF SetsNone, HostOK, HostState
<1>4. SetsNone(h, Park(h, t), u)
  <2>1. Park(h, t).pendingCloses = h.pendingCloses \/ Park(h, t).pendingCloses = g.pendingCloses
    BY DEF Park, CancelClose, HostOK, HostState
  <2> QED BY <1>3, <2>1 DEF SetsNone
<1>5. u # t => SetsNone(h, ScheduleClose(h, t, delay), u)
  <2>1. CASE h.table[t] = NoShell
    BY <2>1 DEF ScheduleClose, SetsNone
  <2>2. CASE h.table[t] # NoShell
    <3>1. ScheduleClose(h, t, delay).pendingCloses = [g.pendingCloses EXCEPT ![t] = delay]
      BY <2>2 DEF ScheduleClose, CancelClose, HostOK, HostState
    <3> QED BY <1>1, <3>1 DEF SetsNone, HostOK, HostState
  <2> QED BY <2>1, <2>2
<1>6. SetsNone(h, WithRoom(h, t), u)
  <2> DEFINE gone == Exited(c, tabOf[t])
  <2>1. WithRoom(h, t).pendingCloses
          = [k \in Tab |-> IF k \in gone THEN "none" ELSE c.pendingCloses[k]]
    <3>1. HostOK(c)
      BY CloseShellOK
    <3>2. WithRoom(h, t) = [c EXCEPT !.table = [k \in Tab |-> IF k \in gone THEN NoShell ELSE @[k]],
                  !.pendingCloses = [k \in Tab |-> IF k \in gone THEN "none" ELSE @[k]],
                  !.parked = @ \ gone]
      BY DEF WithRoom
    <3> HIDE DEF c, gone
    <3> QED BY <3>1, <3>2 DEF HostOK, HostState
  <2> HIDE DEF c, gone
  <2> QED BY <1>3, <2>1 DEF SetsNone
<1>7. Spawned(h, t, dir).pendingCloses = h.pendingCloses
  BY DEF Spawned, HostOK, HostState
<1> QED BY <1>3, <1>4, <1>5, <1>6, <1>7

\* What a step may do to sockets and views and leave the invariant alone.
Quiet ==
  /\ opened' = opened /\ crossed \subseteq crossed'
  /\ \A t \in Tab : view'[t] = 0 \/ (view'[t] = view[t] /\ sockets'[view[t]].frames = sockets[view[t]].frames)
  /\ \A r \in Socket : /\ sockets'[r].tab = sockets[r].tab
                       /\ sockets[r].phase = "ended" => sockets'[r].phase = "ended"
                       /\ sockets'[r].phase = "attached" => sockets[r].phase = "attached"

LEMMA QuietKeeps ==
  ASSUME KeptInv, TermInv', Quiet,
         \A t \in Tab \ crossed : Attached(t) /\ pendingCloses[t] = "none" => pendingCloses'[t] = "none"
  PROVE  KeptInv'
<1>1. \A t \in Tab : view[t] # 0 => view[t] \in Socket
  BY TerminalAssumption DEF KeptInv, TermInv, PageOK, Socket
<1>2. ViewIsNewest'
  <2> SUFFICES ASSUME NEW t \in Tab, view'[t] # 0
               PROVE  /\ sockets'[view'[t]].tab = t /\ sockets'[view'[t]].frames = <<>>
                      /\ \A r \in Socket : sockets'[r].tab = t => r <= view'[t]
    BY DEF ViewIsNewest
  <2>1. view'[t] = view[t] /\ sockets'[view[t]].frames = sockets[view[t]].frames
    BY DEF Quiet
  <2> QED BY <1>1, <2>1 DEF Quiet, KeptInv, ViewIsNewest
<1>3. OlderEnded'
  <2> SUFFICES ASSUME NEW s \in Socket, NEW r \in Socket, sockets'[r].tab = sockets'[s].tab,
                      sockets'[s].tab \notin crossed', sockets'[s].phase = "attached", r < s
               PROVE  sockets'[r].phase = "ended"
    BY DEF OlderEnded
  <2>1. /\ sockets[r].tab = sockets[s].tab /\ sockets[s].tab \notin crossed
        /\ sockets[s].phase = "attached"
    BY DEF Quiet
  <2> QED BY <2>1 DEF Quiet, KeptInv, OlderEnded
<1>4. NoTimer'
  <2> SUFFICES ASSUME NEW t \in Tab, t \notin crossed', Attached(t)' PROVE pendingCloses'[t] = "none"
    BY DEF NoTimer
  <2>1. view'[t] # 0 /\ sockets'[view'[t]].phase = "attached"
    BY DEF Attached
  <2>2. view'[t] = view[t] /\ t \notin crossed
    BY <2>1 DEF Quiet
  <2>3. Attached(t)
    BY <1>1, <2>1, <2>2 DEF Quiet, Attached
  <2> QED BY <2>2, <2>3 DEF KeptInv, NoTimer
<1>5. UnusedBlank'
  BY DEF Quiet, KeptInv, UnusedBlank
<1> QED BY <1>2, <1>3, <1>4, <1>5 DEF KeptInv

\* A view connects for its tab: OpenTab, Mount, Retry.
LEMMA ConnectKeeps ==
  ASSUME KeptInv, TermInv', NEW t \in Tab, opened < MaxSockets, opened' = opened + 1,
         view' = [view EXCEPT ![t] = opened + 1], sockets' = Connected(sockets, t),
         UNCHANGED <<hostVars, crossed>>
  PROVE  KeptInv'
<1> DEFINE n == opened + 1
<1>1. /\ opened \in Nat /\ n \in Socket /\ view \in [Tab -> 0 .. opened]
      /\ \A r \in Socket : sockets[r].phase = "attached" => r <= opened
      /\ sockets \in [Socket -> SocketState]
  BY TerminalAssumption DEF KeptInv, TermInv, PageOK, SocketsOK, Socket
<1>2. /\ sockets'[n] = Fresh(t) /\ \A r \in Socket : r # n => sockets'[r] = sockets[r]
      /\ view'[t] = n /\ \A u \in Tab : u # t => view'[u] = view[u]
  BY <1>1 DEF Connected
<1>3. Fresh(t).tab = t /\ Fresh(t).phase = "connecting" /\ Fresh(t).frames = <<>>
  BY DEF Fresh
<1>4. \A u \in Tab : view[u] # 0 => view[u] \in Socket /\ view[u] # n
  BY <1>1, TerminalAssumption DEF Socket
<1>5. \A r \in Socket : r > n => sockets[r].tab = NoTab
  BY <1>1 DEF KeptInv, UnusedBlank, Socket
<1>6. ViewIsNewest'
  <2> SUFFICES ASSUME NEW u \in Tab, view'[u] # 0
               PROVE  /\ sockets'[view'[u]].tab = u /\ sockets'[view'[u]].frames = <<>>
                      /\ \A r \in Socket : sockets'[r].tab = u => r <= view'[u]
    BY DEF ViewIsNewest
  <2>1. CASE u = t
    <3>1. \A r \in Socket : sockets'[r].tab = t => r <= n
      BY <1>1, <1>2, <1>5, TerminalAssumption DEF Socket
    <3> QED BY <1>2, <1>3, <2>1, <3>1
  <2>2. CASE u # t
    <3>1. view'[u] = view[u] /\ sockets'[view[u]] = sockets[view[u]] /\ view[u] # 0
      BY <1>2, <1>4, <2>2
    <3>2. \A r \in Socket : sockets'[r].tab = u => r <= view[u]
      BY <1>2, <1>3, <2>2, <3>1 DEF KeptInv, ViewIsNewest
    <3> QED BY <3>1, <3>2 DEF KeptInv, ViewIsNewest
  <2> QED BY <2>1, <2>2
<1>7. OlderEnded'
  <2> SUFFICES ASSUME NEW s \in Socket, NEW r \in Socket, sockets'[r].tab = sockets'[s].tab,
                      sockets'[s].tab \notin crossed, sockets'[s].phase = "attached", r < s
               PROVE  sockets'[r].phase = "ended"
    BY DEF OlderEnded
  <2>1. s # n /\ sockets'[s] = sockets[s]
    BY <1>2, <1>3
  <2>2. r # n
    BY <1>1, <2>1 DEF Socket
  <2> QED BY <1>2, <2>1, <2>2 DEF KeptInv, OlderEnded
<1>8. NoTimer'
  <2> SUFFICES ASSUME NEW u \in Tab, u \notin crossed, Attached(u)' PROVE pendingCloses[u] = "none"
    BY DEF NoTimer, hostVars
  <2>1. view'[u] # 0 /\ sockets'[view'[u]].phase = "attached"
    BY DEF Attached
  <2>2. u # t
    BY <1>2, <1>3, <2>1
  <2>3. Attached(u)
    BY <1>2, <1>4, <2>1, <2>2 DEF Attached
  <2> QED BY <2>3 DEF KeptInv, NoTimer
<1>9. UnusedBlank'
  BY <1>1, <1>2, <1>5 DEF UnusedBlank, Socket
<1> QED BY <1>6, <1>7, <1>8, <1>9 DEF KeptInv

\* What TermInv says of a socket's place and of a view's socket.
LEMMA SocketFacts ==
  ASSUME KeptInv
  PROVE  /\ sockets \in [Socket -> SocketState] /\ view \in [Tab -> 0 .. opened]
         /\ \A t \in Tab : view[t] # 0 => view[t] \in Socket
         /\ \A t, u \in Tab : view[t] # 0 /\ view[t] = view[u] => t = u
BY TerminalAssumption DEF KeptInv, ViewIsNewest, TermInv, PageOK, SocketsOK, Socket

LEMMA SocketTab ==
  ASSUME KeptInv, NEW s \in Socket, ~Unused(s)
  PROVE  sockets[s].tab \in Tab
<1>1. opened \in Nat /\ s \in Nat
  BY TerminalAssumption DEF KeptInv, TermInv, PageOK, Socket
<1> QED BY <1>1 DEF KeptInv, TermInv, PageOK, SocketsOK, Unused

\* Only the frames on sockets that no view keeps change.
LEMMA FramesQuiet ==
  ASSUME KeptInv, opened' = opened, UNCHANGED <<hostVars, crossed>>,
         \A r \in Socket : /\ sockets'[r].tab = sockets[r].tab
                           /\ sockets'[r].phase = sockets[r].phase,
         \A t \in Tab : view'[t] = 0 \/ (view'[t] = view[t] /\ sockets'[view[t]] = sockets[view[t]])
  PROVE  Quiet /\ pendingCloses' = pendingCloses
BY DEF Quiet, hostVars

LEMMA PageKeeps ==
  ASSUME KeptInv, TermInv', NEW t \in Tab,
         OpenTab(t) \/ CloseTerminal(t) \/ Mount(t) \/ Remount(t) \/ Retry(t)
  PROVE  KeptInv'
<1>1. CASE OpenTab(t) \/ Mount(t) \/ Retry(t)
  BY <1>1, ConnectKeeps DEF OpenTab, Mount, Retry
<1>2. CASE CloseTerminal(t) \/ Remount(t)
  <2>1. PICK f \in {"close", "none"} : sockets' = Left(view[t], f)
    BY <1>2 DEF CloseTerminal, Remount
  <2>2. /\ view' = [view EXCEPT ![t] = 0] /\ opened' = opened
        /\ UNCHANGED <<hostVars, crossed>>
    BY <1>2 DEF CloseTerminal, Remount
  <2>3. \A r \in Socket : /\ sockets'[r].tab = sockets[r].tab /\ sockets'[r].phase = sockets[r].phase
                          /\ r # view[t] => sockets'[r] = sockets[r]
    BY <2>1, SocketFacts DEF Left, SocketState
  <2>4. \A u \in Tab : view'[u] = 0 \/ (view'[u] = view[u] /\ sockets'[view[u]] = sockets[view[u]])
    <3> SUFFICES ASSUME NEW u \in Tab, view'[u] # 0
                 PROVE  view'[u] = view[u] /\ sockets'[view[u]] = sockets[view[u]]
      OBVIOUS
    <3>1. u # t /\ view'[u] = view[u]
      BY <2>2, SocketFacts
    <3> QED BY <2>3, <3>1, SocketFacts
  <2> QED BY <2>2, <2>3, <2>4, FramesQuiet, QuietKeeps
<1> QED BY <1>1, <1>2

LEMMA SwitchAwayKeeps == ASSUME KeptInv, TermInv', NEW c \in Conversation, SwitchAway(c) PROVE KeptInv'
<1>1. \A r \in Socket : sockets'[r].tab = sockets[r].tab /\ sockets'[r].phase = sockets[r].phase
  BY SocketFacts DEF SwitchAway, SocketState
<1>2. opened' = opened /\ UNCHANGED <<hostVars, crossed>> /\ \A t \in Tab : view'[t] = 0
  BY DEF SwitchAway
<1> QED BY <1>1, <1>2, FramesQuiet, QuietKeeps

LEMMA NetworkDropKeeps == ASSUME KeptInv, TermInv', NEW s \in Socket, NetworkDrop(s) PROVE KeptInv'
<1>1. \A r \in Socket : /\ sockets'[r].tab = sockets[r].tab /\ sockets'[r].phase = sockets[r].phase
                        /\ r # s => sockets'[r] = sockets[r]
  BY SocketFacts DEF NetworkDrop, SocketState
<1>2. /\ opened' = opened /\ UNCHANGED <<hostVars, crossed>>
      /\ \A t \in Tab : view'[t] = 0 \/ (view'[t] = view[t] /\ view[t] # s)
  BY DEF NetworkDrop
<1>3. \A t \in Tab : view'[t] = 0 \/ (view'[t] = view[t] /\ sockets'[view[t]] = sockets[view[t]])
  BY <1>1, <1>2, SocketFacts
<1> QED BY <1>1, <1>2, <1>3, FramesQuiet, QuietKeeps

\* A socket ends, or waits for Git: the views that keep theirs see nothing of it.
LEMMA PhaseQuiet ==
  ASSUME KeptInv, opened' = opened, crossed' = crossed, NEW s \in Socket,
         NEW p \in {"resolving", "ended"}, sockets[s].phase # "ended",
         \/ sockets' = [sockets EXCEPT ![s].phase = p] /\ view' = view
         \/ /\ sockets' = [sockets EXCEPT ![s].phase = p, ![s].frames = <<>>]
            /\ view' = [t \in Tab |-> IF view[t] = s THEN 0 ELSE view[t]]
  PROVE  Quiet
<1>1. \A r \in Socket : /\ sockets'[r].tab = sockets[r].tab
                        /\ r # s => sockets'[r] = sockets[r]
                        /\ sockets'[s].phase = p
  BY SocketFacts DEF SocketState
<1>2. \A t \in Tab : view'[t] = 0 \/ (view'[t] = view[t] /\ sockets'[view[t]].frames = sockets[view[t]].frames)
  <2> SUFFICES ASSUME NEW t \in Tab, view'[t] # 0
               PROVE  view'[t] = view[t] /\ sockets'[view[t]].frames = sockets[view[t]].frames
    OBVIOUS
  <2>1. view'[t] = view[t] /\ view[t] \in Socket
    BY SocketFacts
  <2>2. CASE view[t] # s
    BY <1>1, <2>1, <2>2
  <2>3. CASE view[t] = s
    <3>1. sockets' = [sockets EXCEPT ![s].phase = p]
      BY <2>1, <2>3
    <3> QED BY <2>1, <2>3, <3>1, SocketFacts DEF SocketState
  <2> QED BY <2>1, <2>2, <2>3
<1>3. \A r \in Socket : /\ sockets[r].phase = "ended" => sockets'[r].phase = "ended"
                        /\ sockets'[r].phase = "attached" => sockets[r].phase = "attached"
  BY <1>1
<1> QED BY <1>1, <1>2, <1>3 DEF Quiet

LEMMA AttachKeeps ==
  ASSUME KeptInv, TermInv', NEW s \in Socket, sockets[s].phase \in {"connecting", "resolving"},
         NEW dir \in {"guess", "own", "worktree"}, Attach(s, dir), opened' = opened
  PROVE  KeptInv'
<1> DEFINE t == sockets[s].tab
           h == CancelClose(Host, t)
           room == WithRoom(h, t)
<1>1. t \in Tab /\ HostOK(Host) /\ Host.pendingCloses = pendingCloses
  BY SocketTab DEF Unused, KeptInv, TermInv, Host
<1>2. HostOK(h) /\ h.pendingCloses[t] = "none"
  BY <1>1, CancelCloseOK
<1>3. HostOK(room)
  BY <1>1, <1>2, WithRoomOK
<1>4. \A u \in Tab : /\ SetsNone(Host, h, u) /\ SetsNone(Host, room, u)
                     /\ h.pendingCloses[t] = "none" /\ room.pendingCloses[t] = "none"
                     /\ Spawned(room, t, dir).pendingCloses = room.pendingCloses
  <2> SUFFICES ASSUME NEW u \in Tab
               PROVE  /\ SetsNone(Host, h, u) /\ SetsNone(h, room, u) /\ SetsNone(h, room, t)
                      /\ Spawned(room, t, dir).pendingCloses = room.pendingCloses
    BY <1>2 DEF SetsNone
  <2>1. SetsNone(Host, h, u)
    BY <1>1, TimersOfHost
  <2>2. SetsNone(h, room, u) /\ SetsNone(h, room, t)
    BY <1>1, <1>2, TimersOfHost
  <2>3. Spawned(room, t, dir).pendingCloses = room.pendingCloses
    BY <1>1, <1>3, TimersOfHost
  <2> QED BY <2>1, <2>2, <2>3
<1>5. CASE /\ Becomes(IF Reuses(h, t, dir) THEN h ELSE Spawned(room, t, dir))
           /\ sockets' = [sockets EXCEPT ![s].phase = "attached"]
           /\ crossed' = IF Older(s) = {} THEN crossed ELSE crossed \cup {t}
           /\ UNCHANGED view
  <2>1. /\ \A u \in Tab : pendingCloses[u] = "none" => pendingCloses'[u] = "none"
        /\ pendingCloses'[t] = "none"
    BY <1>1, <1>4, <1>5 DEF SetsNone, Becomes
  <2>2. \A r \in Socket : /\ sockets'[r].tab = sockets[r].tab /\ sockets'[r].frames = sockets[r].frames
                          /\ r # s => sockets'[r] = sockets[r]
    BY <1>5, SocketFacts DEF SocketState
  <2>3. crossed \subseteq crossed' /\ (t \notin crossed' => Older(s) = {})
    BY <1>5
  <2>4. ViewIsNewest'
    BY <1>5, <2>2, SocketFacts DEF KeptInv, ViewIsNewest
  <2>5. OlderEnded'
    <3> SUFFICES ASSUME NEW a \in Socket, NEW r \in Socket, sockets'[r].tab = sockets'[a].tab,
                        sockets'[a].tab \notin crossed', sockets'[a].phase = "attached", r < a
                 PROVE  sockets'[r].phase = "ended"
      BY DEF OlderEnded
    <3>1. sockets[r].tab = sockets[a].tab /\ sockets[a].tab \notin crossed'
      BY <2>2
    <3>2. CASE a = s
      <4>1. r \notin Older(s) /\ r \in 1 .. (s - 1)
        BY <2>3, <3>1, <3>2 DEF Socket
      <4> QED BY <2>2, <3>1, <3>2, <4>1 DEF Older
    <3>3. CASE a # s
      <4>1. sockets[r].phase = "ended"
        BY <2>2, <2>3, <3>1, <3>3 DEF KeptInv, OlderEnded
      <4> QED BY <2>2, <4>1
    <3> QED BY <3>2, <3>3
  <2>6. NoTimer'
    <3> SUFFICES ASSUME NEW u \in Tab, u \notin crossed', Attached(u)' PROVE pendingCloses'[u] = "none"
      BY DEF NoTimer
    <3>1. view[u] # 0 /\ view[u] \in Socket /\ sockets'[view[u]].phase = "attached"
      BY <1>5, SocketFacts DEF Attached
    <3>2. CASE view[u] = s
      BY <2>1, <3>1, <3>2 DEF KeptInv, ViewIsNewest
    <3>3. CASE view[u] # s
      <4>1. Attached(u) /\ u \notin crossed
        BY <2>2, <2>3, <3>1, <3>3 DEF Attached
      <4> QED BY <2>1, <4>1 DEF KeptInv, NoTimer
    <3> QED BY <3>2, <3>3
  <2>7. UnusedBlank'
    BY <2>2 DEF KeptInv, UnusedBlank
  <2> QED BY <2>4, <2>5, <2>6, <2>7 DEF KeptInv
<1>6. CASE /\ Becomes(room)
           /\ sockets' = [sockets EXCEPT ![s].phase = "ended", ![s].frames = <<>>]
           /\ view' = [k \in Tab |-> IF view[k] = s THEN 0 ELSE view[k]]
           /\ UNCHANGED crossed
  <2>1. \A u \in Tab : pendingCloses[u] = "none" => pendingCloses'[u] = "none"
    BY <1>1, <1>4, <1>6 DEF SetsNone, Becomes
  <2>2. Quiet
    BY <1>6, PhaseQuiet
  <2> QED BY <2>1, <2>2, QuietKeeps
<1> QED BY <1>5, <1>6 DEF Attach

LEMMA UpgradeKeeps ==
  ASSUME KeptInv, TermInv', NEW s \in Socket, Accept(s) \/ GivenUp(s) \/ Resolved(s)
  PROVE  KeptInv'
<1>1. opened' = opened /\ sockets[s].phase \in {"connecting", "resolving"}
  BY DEF Accept, GivenUp, Resolved
<1>2. CASE \E dir \in {"guess", "own", "worktree"} : Attach(s, dir)
  BY <1>1, <1>2, AttachKeeps
<1>3. CASE \/ Refused(s)
           \/ \E p \in {"resolving", "ended"} : /\ sockets' = [sockets EXCEPT ![s].phase = p]
                                                /\ UNCHANGED <<view, hostVars, crossed>>
  <2>1. Quiet /\ pendingCloses' = pendingCloses
    BY <1>1, <1>3, PhaseQuiet DEF Refused, hostVars
  <2> QED BY <2>1, QuietKeeps
<1>4. sockets[s].tab \in Tab
  BY <1>1, SocketTab DEF Unused
<1>5. cwd[tabOf[sockets[s].tab]] \in {"guess", "own"}
  BY <1>4, TerminalAssumption DEF KeptInv, TermInv, RestOK
<1> QED BY <1>2, <1>3, <1>5 DEF Accept, GivenUp, Resolved

LEMMA TakeFrameKeeps == ASSUME KeptInv, TermInv', NEW s \in Socket, TakeFrame(s) PROVE KeptInv'
<1> DEFINE t == sockets[s].tab
           frame == Head(sockets[s].frames)
<1>1. /\ sockets[s].phase \in {"resolving", "attached"} /\ sockets[s].frames # <<>>
      /\ view' = view /\ opened' = opened /\ crossed' = crossed
  BY DEF TakeFrame, Abandoned, clientVars
<1>2. t \in Tab /\ HostOK(Host) /\ Host.pendingCloses = pendingCloses
  BY <1>1, SocketTab DEF Unused, KeptInv, TermInv, Host
<1>3. \A r \in Socket : /\ sockets'[r].tab = sockets[r].tab
                        /\ r # s => sockets'[r] = sockets[r]
                        /\ sockets'[s].phase \in {sockets[s].phase, "ended"}
  BY SocketFacts DEF TakeFrame, SocketState
<1>4. \A u \in Tab : view[u] # 0 => view[u] # s
  BY <1>1 DEF KeptInv, ViewIsNewest
<1>5. Quiet
  <2>1. \A u \in Tab : view'[u] = 0 \/ (view'[u] = view[u] /\ sockets'[view[u]] = sockets[view[u]])
    BY <1>1, <1>3, <1>4, SocketFacts
  <2>2. \A r \in Socket : /\ sockets[r].phase = "ended" => sockets'[r].phase = "ended"
                          /\ sockets'[r].phase = "attached" => sockets[r].phase = "attached"
    BY <1>1, <1>3
  <2> QED BY <1>1, <1>3, <2>1, <2>2 DEF Quiet
\* A socket that listens is not the view's own, so it ended if the view's is attached.
<1>6. ASSUME NEW u \in Tab \ crossed, Attached(u), pendingCloses[u] = "none"
      PROVE  pendingCloses'[u] = "none"
  <2>1. PICK h \in {Host, ScheduleClose(Host, t, "now"), Park(Host, t), ScheduleClose(Host, t, "grace")} :
          Becomes(h)
    BY DEF TakeFrame
  <2>2. CASE u # t
    <3>1. SetsNone(Host, h, u)
      BY <1>2, <2>2, TimersOfHost DEF SetsNone
    <3> QED BY <1>2, <1>6, <2>1, <3>1 DEF SetsNone, Becomes
  <2>3. CASE u = t
    <3>1. /\ view[t] \in Socket /\ view[t] # s /\ s <= view[t] /\ sockets[view[t]].tab = t
          /\ sockets[view[t]].phase = "attached"
      BY <1>2, <1>4, <1>6, <2>3, SocketFacts DEF KeptInv, ViewIsNewest, Attached
    <3>2. s < view[t]
      BY <3>1 DEF Socket
    <3>3. sockets[s].phase = "ended" \/ t \in crossed
      BY <3>1, <3>2 DEF KeptInv, OlderEnded
    <3>4. sockets[s].phase # "attached"
      BY <1>6, <2>3, <3>3
    <3>5. Becomes(Host)
      BY <3>4 DEF TakeFrame
    <3> QED BY <1>2, <1>6, <3>5 DEF Becomes
  <2> QED BY <2>2, <2>3
<1> QED BY <1>5, <1>6, QuietKeeps

\* Steps of the host that no socket takes part in set no timer.
LEMMA HostKeeps ==
  ASSUME KeptInv, TermInv',
         \/ \E t \in Tab : TimerFires(t) \/ PtyClose(t) \/ Exit(t)
         \/ \E c \in Conversation : Hydrate(c)
         \/ Teardown
         \/ UNCHANGED terminalVars
  PROVE  KeptInv'
<1>1. Quiet
  BY DEF Quiet, TimerFires, PtyClose, Exit, Hydrate, Teardown, terminalVars, clientVars
<1>2. ASSUME NEW u \in Tab, pendingCloses[u] = "none" PROVE pendingCloses'[u] = "none"
  <2>1. CASE \E t \in Tab : TimerFires(t) \/ PtyClose(t)
    <3>1. PICK t \in Tab : Becomes(CloseShell(Host, t))
      BY <2>1 DEF TimerFires, PtyClose
    <3>2. SetsNone(Host, CloseShell(Host, t), u)
      BY TimersOfHost DEF KeptInv, TermInv
    <3> QED BY <1>2, <3>1, <3>2 DEF SetsNone, Becomes, Host
  <2>2. CASE \/ \E t \in Tab : Exit(t)
             \/ \E c \in Conversation : Hydrate(c)
             \/ UNCHANGED terminalVars
    BY <1>2, <2>2 DEF Exit, Hydrate, hostVars, terminalVars
  <2>3. CASE Teardown
    BY <2>3 DEF Teardown
  <2> QED BY <2>1, <2>2, <2>3
<1> QED BY <1>1, <1>2, QuietKeeps

LEMMA KeptStep == KeptInv /\ [TerminalNext]_terminalVars => KeptInv'
<1> SUFFICES ASSUME KeptInv, [TerminalNext]_terminalVars PROVE KeptInv'
  OBVIOUS
<1>1. TermInv'
  BY StepHolds DEF KeptInv
<1> QED BY <1>1, PageKeeps, SwitchAwayKeeps, NetworkDropKeeps, UpgradeKeeps, TakeFrameKeeps,
           HostKeeps DEF TerminalNext

LEMMA KeptInit == TerminalInit => KeptInv
<1> SUFFICES ASSUME TerminalInit PROVE KeptInv
  OBVIOUS
<1>1. ViewIsNewest /\ NoTimer
  BY DEF TerminalInit, ViewIsNewest, NoTimer, Attached
<1>2. OlderEnded /\ UnusedBlank
  BY DEF TerminalInit, OlderEnded, UnusedBlank
<1> QED BY <1>1, <1>2, TerminalInitHolds DEF KeptInv

\* A timer set when one view of a tab left never closes the shell under the
\* view that came: attaching clears it (PtyManager.cancelClose), and only a
\* socket the host has not ended could set another.
THEOREM AttachedKept == TerminalSpec => AttachedShellKept
<1>1. KeptInv => (\A t \in Tab \ crossed : t \in isOpen /\ Attached(t) => ~TimerFires(t))
  BY DEF KeptInv, NoTimer, TimerFires
<1>2. TerminalSpec => []KeptInv
  BY KeptInit, KeptStep, PTL DEF TerminalSpec
<1> QED BY <1>1, <1>2, PTL DEF AttachedShellKept

-----------------------------------------------------------------------------
(* Trellis: the invariant *)

TreeAnswers == {Unread} \cup [read : {TRUE}, tasks : SUBSET Slug]
CreateOp == [name : {"create"}, session : TaskSession, slug : Slug, status : Status,
             step : {"stat", "write", "point"}]
UpdateOp == [name : {"update"}, session : TaskSession, slug : Slug \cup {NoTask},
             status : Status \cup {"keep"}, step : {"find", "read", "write", "point"}]
BindOp == [name : {"bind"}, session : TaskSession, slug : Slug \cup {NoTask}, step : {"stat", "point"}]
MoveOp == [name : {"archive"}, slug : Slug, step : {"read", "move", "list"}, todo : {{}}]
UnbindOp == [name : {"archive"}, slug : Slug, step : {"scan", "unbind"}, todo : SUBSET TaskSession,
             file : TaskSession \cup {NoFile}]
BoardOp == [name : {"board"}, active : TreeAnswers, archive : TreeAnswers, step : {"lookup", "cache", "done"},
            there : SUBSET Slug]

\* A call that has got past its lookup knows its task and what it writes.
OpOK(o) ==
  \/ o = NoOp
  \/ o \in CreateOp
  \/ /\ o \in UpdateOp
     /\ o.step # "find" => o.slug \in Slug
     /\ o.step \in {"write", "point"} => o.status \in Status
  \/ o \in BindOp /\ (o.step = "stat" => o.slug \in Slug)
  \/ o \in MoveOp
  \/ o \in UnbindOp /\ (o.step = "unbind" => o.file \in TaskSession)
  \/ o \in BoardOp /\ (o.step # "lookup" => o.archive # Unread)

TrellisTyped ==
  /\ record \in [Slug -> Status \cup {"none"}] /\ archived \subseteq Slug
  /\ pointer \in [TaskSession -> Slug \cup {NoTask, NoFile}]
  /\ bucket \in {NoBucket} \cup [cached : {TRUE}, tasks : SUBSET Slug]
  /\ made \in 0 .. MaxCalls /\ spoiled \subseteq Slug /\ raced \subseteq Slug
  /\ op = [c \in Caller |-> op[c]] /\ \A c \in Caller : OpOK(op[c])

\* An unspoiled task is touched by one call at a time.
Alone(x) == \A c, d \in Caller : x \in Touches(op[c]) /\ x \in Touches(op[d]) => c = d

\* A call about to write or to bind task x, which has an active record.
Holds(o, x) == /\ o.name \in {"create", "update", "bind"} /\ o.slug = x
               /\ o.step = "point" \/ (o.name = "update" /\ o.step = "write")
HeldTask(x) == \A c \in Caller : Holds(op[c], x) => record[x] # "none"

\* The pointers that an archiving which has moved its task will read.
Will(o, s) == o.step = "list" \/ s \in o.todo

Closed(x) == x \in archived =>
  /\ record[x] = "none"
  /\ \A s \in TaskSession : pointer[s] = x => \E c \in Caller : Moving(op[c], x) /\ Will(op[c], s)

Sound(x) == Alone(x) /\ HeldTask(x) /\ Closed(x)
TrellisInv == TrellisTyped /\ \A x \in Slug \ spoiled : Sound(x)

LEMMA OpByName ==
  ASSUME NEW o, OpOK(o)
  PROVE  /\ o.name = "create" => o \in CreateOp
         /\ o.name = "update" => /\ o \in UpdateOp
                                 /\ o.step # "find" => o.slug \in Slug
                                 /\ o.step \in {"write", "point"} => o.status \in Status
         /\ o.name = "bind" => o \in BindOp /\ (o.step = "stat" => o.slug \in Slug)
         /\ o.name = "archive" /\ o.step \in {"read", "move", "list"} => o \in MoveOp
         /\ o.name = "archive" /\ o.step \in {"scan", "unbind"} =>
              o \in UnbindOp /\ (o.step = "unbind" => o.file \in TaskSession)
         /\ o.name = "board" => o \in BoardOp /\ (o.step # "lookup" => o.archive # Unread)
BY DEF OpOK, NoOp, CreateOp, UpdateOp, BindOp, MoveOp, UnbindOp, BoardOp

-----------------------------------------------------------------------------
(* Trellis: one task at a time *)

\* No other caller has to do with x: what c does is all there is to know.
OnlyCaller(c, x) == \A d \in Caller \ {c} : x \notin Touches(op[d])
SoundOp(o, x) ==
  /\ Holds(o, x) => record[x] # "none"
  /\ x \in archived => /\ record[x] = "none"
                       /\ \A s \in TaskSession : pointer[s] = x => Moving(o, x) /\ Will(o, s)
SoundFor(c, x) == SoundOp(op[c], x)

\* Whoever holds or moves a task touches it.
LEMMA Touching ==
  ASSUME NEW o, NEW x \in Slug, x \notin Touches(o)
  PROVE  ~Holds(o, x) /\ ~Moving(o, x)
BY TrellisAssumption DEF Touches, Holds, Moving

LEMMA SoundNow ==
  ASSUME NEW c \in Caller, NEW x \in Slug, OnlyCaller(c, x), Sound(x)
  PROVE  SoundFor(c, x)
<1>1. \A d \in Caller \ {c} : ~Holds(op[d], x) /\ ~Moving(op[d], x)
  BY Touching DEF OnlyCaller
<1> QED BY <1>1 DEF Sound, SoundFor, SoundOp, HeldTask, Closed

LEMMA SoundThen ==
  ASSUME NEW c \in Caller, NEW x \in Slug, OnlyCaller(c, x)', SoundFor(c, x)'
  PROVE  Sound(x)'
<1>1. \A d \in Caller \ {c} : ~Holds(op'[d], x) /\ ~Moving(op'[d], x)
  BY Touching DEF OnlyCaller
<1>2. Alone(x)'
  BY DEF Alone, OnlyCaller
<1>3. HeldTask(x)'
  BY <1>1 DEF SoundFor, SoundOp, HeldTask
<1>4. Closed(x)'
  BY <1>1 DEF SoundFor, SoundOp, Closed
<1> QED BY <1>2, <1>3, <1>4 DEF Sound

\* Caller c steps, and nobody else does; it takes up x only when x is free.
Steps(c, x) == /\ op' = [op EXCEPT ![c] = op'[c]]
               /\ x \in Touches(op'[c]) => x \in Touches(op[c]) \/ OnlyCaller(c, x)

\* What a step does to a task that it has nothing to do with.
LeavesAlone(x) == /\ record'[x] = record[x] /\ (x \in archived' <=> x \in archived)
                  /\ \A s \in TaskSession : pointer'[s] = x => pointer[s] = x

LEMMA StepSound ==
  ASSUME TrellisTyped, NEW c \in Caller, NEW x \in Slug, Sound(x), Steps(c, x),
         x \in Touches(op[c]) \/ x \in Touches(op'[c]) \/ LeavesAlone(x),
         SoundFor(c, x) => SoundFor(c, x)'
  PROVE  Sound(x)'
<1>0. /\ \A d \in Caller : d # c => op'[d] = op[d]
      /\ op' = [d \in Caller |-> op'[d]] /\ op = [d \in Caller |-> op[d]]
  BY DEF Steps, TrellisTyped
<1>1. CASE x \in Touches(op[c]) \/ x \in Touches(op'[c])
  <2>1. OnlyCaller(c, x)
    BY <1>1 DEF Steps, Sound, Alone, OnlyCaller
  <2>2. OnlyCaller(c, x)'
    BY <1>0, <2>1 DEF OnlyCaller
  <2> QED BY <2>1, <2>2, SoundNow, SoundThen
<1>2. CASE x \notin Touches(op[c]) /\ x \notin Touches(op'[c])
  <2>1. LeavesAlone(x)
    BY <1>2
  <2>2. /\ ~Holds(op[c], x) /\ ~Moving(op[c], x)
        /\ ~Holds(op'[c], x) /\ ~Moving(op'[c], x)
    BY <1>2, Touching
  <2>3. Alone(x)'
    BY <1>0, <1>2 DEF Sound, Alone
  <2>4. HeldTask(x)'
    BY <1>0, <2>1, <2>2 DEF Sound, HeldTask, LeavesAlone
  <2>5. Closed(x)'
    BY <1>0, <2>1, <2>2 DEF Sound, Closed, LeavesAlone
  <2> QED BY <2>3, <2>4, <2>5 DEF Sound
<1> QED BY <1>1, <1>2

\* Caller c goes on with o; what stays unspoiled is sound to step on.
Turns(c, o) ==
  /\ op' = [op EXCEPT ![c] = o] /\ op'[c] = o
  /\ spoiled \subseteq spoiled' /\ spoiled' \subseteq Slug /\ raced' \subseteq Slug
  /\ \A x \in Slug \ spoiled' : Steps(c, x)

\* Proceeds(c, o) spoils what c takes up while another call is at it.
LEMMA ProceedsOK ==
  ASSUME TrellisTyped, NEW c \in Caller, NEW o, Proceeds(c, o), OpOK(o)
  PROVE  Turns(c, o)
<1>1. op = [d \in Caller |-> op[d]]
  BY DEF TrellisTyped
<1>2. op'[c] = o /\ op' = [op EXCEPT ![c] = op'[c]]
  BY <1>1 DEF Proceeds, NextOp
<1>3. spoiled \subseteq spoiled' /\ spoiled' \subseteq Slug /\ raced' \subseteq Slug
  BY DEF Proceeds, NextOp, TrellisTyped, Touches
<1>4. ASSUME NEW x \in Slug \ spoiled' PROVE Steps(c, x)
  <2>1. x \in Touches(o) => OnlyCaller(c, x)
    BY DEF Proceeds, OnlyCaller
  <2> QED BY <1>2, <2>1 DEF Steps
<1> QED BY <1>2, <1>3, <1>4 DEF Turns, Proceeds, NextOp

\* A call that touches no more than before is safe to go on.
LEMMA StaysOK ==
  ASSUME TrellisTyped, NEW c \in Caller, NEW o, op' = [op EXCEPT ![c] = o],
         Touches(o) \subseteq Touches(op[c]), spoiled \subseteq spoiled', spoiled' \subseteq Slug,
         raced' \subseteq Slug
  PROVE  Turns(c, o)
<1>1. op'[c] = o
  BY DEF TrellisTyped
<1> QED BY <1>1 DEF Turns, Steps

DataTyped ==
  /\ record \in [Slug -> Status \cup {"none"}] /\ archived \subseteq Slug
  /\ pointer \in [TaskSession -> Slug \cup {NoTask, NoFile}]
  /\ bucket \in {NoBucket} \cup [cached : {TRUE}, tasks : SUBSET Slug]
  /\ made \in 0 .. MaxCalls

LEMMA TurnKeeps ==
  ASSUME TrellisInv, NEW c \in Caller, NEW o, OpOK(o), Turns(c, o), DataTyped',
         \A x \in Slug \ spoiled' : LeavesAlone(x) \/ x \in Touches(op[c]) \cup Touches(o),
         \A x \in Slug \ spoiled' : SoundOp(op[c], x) => SoundFor(c, x)'
  PROVE  TrellisInv'
<1>1. op = [d \in Caller |-> op[d]] /\ \A d \in Caller : OpOK(op[d])
  BY DEF TrellisInv, TrellisTyped
<1>2. op' = [d \in Caller |-> op'[d]] /\ \A d \in Caller : OpOK(op'[d])
  BY <1>1 DEF Turns
<1>3. TrellisTyped'
  BY <1>2 DEF Turns, TrellisTyped, DataTyped
<1>4. ASSUME NEW x \in Slug \ spoiled' PROVE Sound(x)'
  <2>1. Sound(x) /\ Steps(c, x) /\ op'[c] = o
    BY DEF TrellisInv, Turns
  <2> QED BY <2>1, StepSound DEF TrellisInv, SoundFor
<1> QED BY <1>3, <1>4 DEF TrellisInv

-----------------------------------------------------------------------------
(* Trellis: the steps *)

\* A step that writes nothing but the caller's own progress.
LEMMA QuietTurn ==
  ASSUME TrellisInv, NEW c \in Caller, NEW o, OpOK(o), Turns(c, o), made' \in 0 .. MaxCalls,
         UNCHANGED <<record, archived, pointer>>, bucket' = bucket,
         \A x \in Slug \ spoiled : SoundOp(op[c], x) => SoundOp(o, x)
  PROVE  TrellisInv'
<1>1. DataTyped'
  BY DEF TrellisInv, TrellisTyped, DataTyped
<1>2. \A x \in Slug : LeavesAlone(x)
  BY DEF LeavesAlone
<1>3. ASSUME NEW x \in Slug \ spoiled', SoundOp(op[c], x) PROVE SoundFor(c, x)'
  <2>1. SoundOp(o, x) /\ op'[c] = o
    BY <1>3 DEF Turns
  <2> QED BY <2>1 DEF SoundFor, SoundOp
<1> QED BY <1>1, <1>2, <1>3, TurnKeeps

LEMMA CallMade == ASSUME TrellisInv, made < MaxCalls, made' = made + 1 PROVE made' \in 0 .. MaxCalls
BY TrellisAssumption DEF TrellisInv, TrellisTyped

LEMMA BeginStep ==
  ASSUME TrellisInv, NEW c \in Caller, NEW o, OpOK(o), Begins(c, o),
         UNCHANGED <<record, archived, pointer, bucket>>,
         \A x \in Slug : ~Holds(o, x) /\ ~Moving(o, x)
  PROVE  TrellisInv'
<1>1. made' \in 0 .. MaxCalls /\ op[c] = NoOp /\ Proceeds(c, o)
  BY CallMade DEF Begins
<1>2. Turns(c, o)
  BY <1>1, ProceedsOK DEF TrellisInv
<1>3. \A x \in Slug : ~Moving(op[c], x)
  BY <1>1 DEF NoOp, Moving
<1>4. \A x \in Slug \ spoiled : SoundOp(op[c], x) => SoundOp(o, x)
  BY <1>3 DEF SoundOp
<1> QED BY <1>1, <1>2, <1>4, QuietTurn

LEMMA BeginSteps ==
  ASSUME TrellisInv, NEW c \in Caller,
         \/ \E s \in TaskSession :
              \/ \E x \in Slug : Bind(c, s, x) \/ \E st \in Status : Create(c, s, x, st)
              \/ Bind(c, s, NoTask)
              \/ \E x \in Slug \cup {NoTask}, st \in Status \cup {"keep"} : Update(c, s, x, st)
         \/ \E x \in Slug : Archive(c, x)
         \/ Board(c)
  PROVE  TrellisInv'
<1>1. ASSUME NEW s \in TaskSession, NEW x \in Slug \cup {NoTask}, Bind(c, s, x) PROVE TrellisInv'
  <2> DEFINE o == [name |-> "bind", session |-> s, slug |-> x,
                   step |-> IF x = NoTask THEN "point" ELSE "stat"]
  <2>1. OpOK(o) /\ \A y \in Slug : ~Holds(o, y) /\ ~Moving(o, y)
    BY TrellisAssumption DEF OpOK, BindOp, Holds, Moving
  <2>2. Begins(c, o) /\ UNCHANGED <<record, archived, pointer, bucket>>
    BY <1>1 DEF Bind
  <2> HIDE DEF o
  <2> QED BY <2>1, <2>2, BeginStep
<1>2. ASSUME NEW s \in TaskSession, NEW x \in Slug, NEW st \in Status, Create(c, s, x, st)
      PROVE  TrellisInv'
  <2> DEFINE o == [name |-> "create", session |-> s, slug |-> x, status |-> st, step |-> "stat"]
  <2>1. OpOK(o) /\ \A y \in Slug : ~Holds(o, y) /\ ~Moving(o, y)
    BY DEF OpOK, CreateOp, Holds, Moving
  <2>2. Begins(c, o) /\ UNCHANGED <<record, archived, pointer, bucket>>
    BY <1>2 DEF Create
  <2> HIDE DEF o
  <2> QED BY <2>1, <2>2, BeginStep
<1>3. ASSUME NEW s \in TaskSession, NEW x \in Slug \cup {NoTask}, NEW st \in Status \cup {"keep"},
             Update(c, s, x, st)
      PROVE  TrellisInv'
  <2> DEFINE o == [name |-> "update", session |-> s, slug |-> x, status |-> st,
                   step |-> IF x = NoTask THEN "find" ELSE "read"]
  <2>1. OpOK(o) /\ \A y \in Slug : ~Holds(o, y) /\ ~Moving(o, y)
    BY DEF OpOK, UpdateOp, Holds, Moving
  <2>2. Begins(c, o) /\ UNCHANGED <<record, archived, pointer, bucket>>
    BY <1>3 DEF Update
  <2> HIDE DEF o
  <2> QED BY <2>1, <2>2, BeginStep
<1>4. ASSUME NEW x \in Slug, Archive(c, x) PROVE TrellisInv'
  <2> DEFINE o == [name |-> "archive", slug |-> x, step |-> "read", todo |-> {}]
  <2>1. OpOK(o) /\ \A y \in Slug : ~Holds(o, y) /\ ~Moving(o, y)
    BY DEF OpOK, MoveOp, Holds, Moving
  <2>2. Begins(c, o) /\ UNCHANGED <<record, archived, pointer, bucket>>
    BY <1>4 DEF Archive
  <2> HIDE DEF o
  <2> QED BY <2>1, <2>2, BeginStep
<1>5. ASSUME Board(c) PROVE TrellisInv'
  <2> DEFINE o == [name |-> "board", active |-> Unread, archive |-> Unread, step |-> "lookup",
                   there |-> {x \in Slug : Exists(x)}]
  <2>1. OpOK(o) /\ \A y \in Slug : ~Holds(o, y) /\ ~Moving(o, y)
    BY DEF OpOK, BoardOp, TreeAnswers, Holds, Moving
  <2>2. Begins(c, o) /\ UNCHANGED <<record, archived, pointer, bucket>>
    BY <1>5 DEF Board
  <2> HIDE DEF o
  <2> QED BY <2>1, <2>2, BeginStep
<1> QED BY <1>1, <1>2, <1>3, <1>4, <1>5

\* The calls that look something up, or give up, before they have moved a task.
LEMMA LookSteps ==
  ASSUME TrellisInv, NEW c \in Caller,
         \/ CreateStats(c) \/ WriteFails(c) \/ UpdateFinds(c) \/ UpdateReads(c)
         \/ ArchiveReads(c) \/ ArchiveMoveFails(c) \/ BindStats(c)
  PROVE  TrellisInv'
<1>1. /\ OpOK(op[c]) /\ made' \in 0 .. MaxCalls /\ TrellisTyped
      /\ UNCHANGED <<record, archived, pointer, bucket>>
  BY DEF TrellisInv, TrellisTyped, CreateStats, WriteFails, UpdateFinds, UpdateReads, ArchiveReads,
         ArchiveMoveFails, BindStats
<1>2. \A x \in Slug : ~Moving(op[c], x)
  BY DEF CreateStats, WriteFails, UpdateFinds, UpdateReads, ArchiveReads, ArchiveMoveFails,
         BindStats, At, Moving
<1>3. ASSUME NEW o, OpOK(o), Proceeds(c, o),
             \A x \in Slug : ~Moving(o, x) /\ (Holds(o, x) => record[x] # "none")
      PROVE  TrellisInv'
  <2>1. Turns(c, o)
    BY <1>1, <1>3, ProceedsOK
  <2>2. \A x \in Slug : SoundOp(op[c], x) => SoundOp(o, x)
    BY <1>2, <1>3 DEF SoundOp
  <2> QED BY <1>1, <1>3, <2>1, <2>2, QuietTurn
<1>4. CASE Ends(c)
  <2>1. OpOK(NoOp) /\ \A x \in Slug : ~Moving(NoOp, x) /\ ~Holds(NoOp, x)
    BY DEF OpOK, NoOp, Moving, Holds
  <2>2. Proceeds(c, NoOp)
    BY <1>4 DEF Ends
  <2> QED BY <1>3, <2>1, <2>2
<1>5. CASE CreateStats(c) /\ ~Ends(c)
  <2> DEFINE o == [op[c] EXCEPT !.step = "write"]
  <2>1. Proceeds(c, o) /\ op[c] \in CreateOp
    BY <1>1, <1>5, OpByName DEF CreateStats, At, Goes
  <2>2. o \in CreateOp /\ o.step = "write" /\ o.name = "create"
    BY <2>1 DEF CreateOp
  <2> HIDE DEF o
  <2>3. OpOK(o) /\ \A x \in Slug : ~Moving(o, x) /\ ~Holds(o, x)
    BY <2>2 DEF OpOK, Moving, Holds
  <2> QED BY <1>3, <2>1, <2>3
<1>6. CASE UpdateFinds(c) /\ ~Ends(c)
  <2> DEFINE o == [op[c] EXCEPT !.slug = pointer[op[c].session], !.step = "read"]
  <2>1. Proceeds(c, o) /\ op[c] \in UpdateOp /\ pointer[op[c].session] \in Slug
    BY <1>1, <1>6, OpByName DEF UpdateFinds, Finds, At
  <2>2. o \in UpdateOp /\ o.step = "read" /\ o.name = "update" /\ o.slug \in Slug
    BY <2>1 DEF UpdateOp
  <2> HIDE DEF o
  <2>3. OpOK(o) /\ \A x \in Slug : ~Moving(o, x) /\ ~Holds(o, x)
    BY <2>2 DEF OpOK, Moving, Holds
  <2> QED BY <1>3, <2>1, <2>3
<1>7. CASE UpdateReads(c) /\ ~Ends(c)
  <2> DEFINE now == record[op[c].slug]
             o == [op[c] EXCEPT !.step = "write", !.status = IF @ = "keep" THEN now ELSE @]
  <2>1. /\ Proceeds(c, o) /\ now # "none" /\ op[c] \in UpdateOp /\ op[c].slug \in Slug
        /\ now \in Status
    BY <1>1, <1>7, OpByName DEF UpdateReads, At, TrellisTyped
  <2>2. /\ o \in UpdateOp /\ o.step = "write" /\ o.name = "update" /\ o.slug = op[c].slug
        /\ o.status \in Status
    BY <2>1 DEF UpdateOp
  <2> HIDE DEF o
  <2>3. /\ OpOK(o)
        /\ \A x \in Slug : ~Moving(o, x) /\ (Holds(o, x) => record[x] # "none")
    BY <2>1, <2>2 DEF OpOK, Moving, Holds
  <2> QED BY <1>3, <2>1, <2>3
<1>8. CASE ArchiveReads(c) /\ ~Ends(c)
  <2> DEFINE o == [op[c] EXCEPT !.step = "move"]
  <2>1. Proceeds(c, o) /\ op[c] \in MoveOp
    BY <1>1, <1>8, OpByName DEF ArchiveReads, At, Goes
  <2>2. o \in MoveOp /\ o.step = "move" /\ o.name = "archive"
    BY <2>1 DEF MoveOp
  <2> HIDE DEF o
  <2>3. OpOK(o) /\ \A x \in Slug : ~Moving(o, x) /\ ~Holds(o, x)
    BY <2>2 DEF OpOK, Moving, Holds
  <2> QED BY <1>3, <2>1, <2>3
<1>9. CASE BindStats(c) /\ ~Ends(c)
  <2> DEFINE o == [op[c] EXCEPT !.step = "point"]
  <2>1. Proceeds(c, o) /\ op[c] \in BindOp /\ record[op[c].slug] # "none"
    BY <1>1, <1>9, OpByName DEF BindStats, Bindable, At, Goes
  <2>2. o \in BindOp /\ o.step = "point" /\ o.name = "bind" /\ o.slug = op[c].slug
    BY <2>1 DEF BindOp
  <2> HIDE DEF o
  <2>3. /\ OpOK(o)
        /\ \A x \in Slug : ~Moving(o, x) /\ (Holds(o, x) => record[x] # "none")
    BY <2>1, <2>2 DEF OpOK, Moving, Holds
  <2> QED BY <1>3, <2>1, <2>3
<1>10. WriteFails(c) \/ ArchiveMoveFails(c) => Ends(c)
  BY DEF WriteFails, ArchiveMoveFails
<1> QED BY <1>4, <1>5, <1>6, <1>7, <1>8, <1>9, <1>10

\* The record is written: a create over an archived task spoils it, and an update
\* found the record that it writes.
LEMMA WriteSteps ==
  ASSUME TrellisInv, NEW c \in Caller, CreateWrites(c) \/ UpdateWrites(c)
  PROVE  TrellisInv'
<1> DEFINE y == op[c].slug
           o == [op[c] EXCEPT !.step = "point"]
<1>1. TrellisTyped /\ OpOK(op[c]) /\ DOMAIN record = Slug
  BY DEF TrellisInv, TrellisTyped
<1>2. /\ op[c] \in CreateOp \/ (op[c] \in UpdateOp /\ op[c].slug \in Slug)
      /\ op[c].step = "write" /\ op[c].status \in Status
  BY <1>1, OpByName DEF CreateWrites, UpdateWrites, At, CreateOp
<1>3. /\ record' = [record EXCEPT ![y] = op[c].status] /\ y \in Slug /\ op[c].status # "none"
      /\ UNCHANGED <<archived, pointer, bucket, made>>
  BY <1>2 DEF CreateWrites, UpdateWrites, CreateOp, Status
<1>4. /\ OpOK(o) /\ o.step = "point" /\ o.slug = y /\ o.name \in {"create", "update"}
      /\ Touches(o) = Touches(op[c]) /\ y \in Touches(op[c])
  BY <1>2, <1>3 DEF OpOK, CreateOp, UpdateOp, Touches
<1>5. Turns(c, o)
  <2>1. CASE CreateWrites(c)
    <3>1. /\ op' = [op EXCEPT ![c] = o] /\ spoiled \subseteq spoiled' /\ spoiled' \subseteq Slug
          /\ raced' \subseteq Slug
      BY <1>1, <1>3, <2>1 DEF CreateWrites, NextOp, TrellisTyped
    <3> HIDE DEF o
    <3> QED BY <1>1, <1>4, <3>1, StaysOK
  <2>2. CASE UpdateWrites(c)
    <3>1. Proceeds(c, o)
      BY <2>2 DEF UpdateWrites, Goes
    <3> HIDE DEF o
    <3> QED BY <1>1, <1>4, <3>1, ProceedsOK
  <2> QED BY <2>1, <2>2
<1>6. DataTyped'
  BY <1>1, <1>2, <1>3 DEF TrellisTyped, DataTyped
<1>7. \A x \in Slug : LeavesAlone(x) \/ x \in Touches(op[c])
  BY <1>1, <1>3, <1>4 DEF LeavesAlone
<1>8. ASSUME NEW x \in Slug \ spoiled', SoundOp(op[c], x) PROVE SoundFor(c, x)'
  <2>1. op'[c] = o
    BY <1>5 DEF Turns
  <2>2. y = x => x \notin archived
    <3>1. CASE CreateWrites(c)
      BY <3>1 DEF CreateWrites
    <3>2. CASE UpdateWrites(c)
      BY <1>8, <3>2 DEF UpdateWrites, At, SoundOp, Holds
    <3> QED BY <3>1, <3>2
  <2>3. record'[x] # "none" \/ record'[x] = record[x]
    BY <1>1, <1>3
  <2>4. x # y => record'[x] = record[x]
    BY <1>1, <1>3
  <2>5. x = y => record'[x] # "none"
    BY <1>1, <1>3
  <2>6. /\ ~Moving(op[c], x) /\ ~Moving(o, x)
        /\ Holds(o, x) => x = y
    BY <1>2, <1>4 DEF Moving, Holds, CreateOp, UpdateOp
  <2> HIDE DEF o, y
  <2> QED BY <1>3, <1>8, <2>1, <2>2, <2>4, <2>5, <2>6 DEF SoundFor, SoundOp
<1> HIDE DEF o
<1> QED BY <1>4, <1>5, <1>6, <1>7, <1>8, TurnKeeps

\* A session is bound to a task that has an active record.
LEMMA PointStep == ASSUME TrellisInv, NEW c \in Caller, Points(c) PROVE TrellisInv'
<1> DEFINE y == op[c].slug
<1>1. TrellisTyped /\ OpOK(op[c]) /\ DOMAIN pointer = TaskSession
  BY DEF TrellisInv, TrellisTyped
<1>2. op[c].session \in TaskSession /\ y \in Slug \cup {NoTask}
  BY <1>1, OpByName DEF Points, CreateOp, UpdateOp, BindOp
<1>3. /\ pointer' = [pointer EXCEPT ![op[c].session] = y]
      /\ UNCHANGED <<record, archived, bucket, made>> /\ Proceeds(c, NoOp)
  BY DEF Points, Point, Ends
<1>4. /\ OpOK(NoOp)
      /\ \A x \in Slug : ~Moving(NoOp, x) /\ ~Holds(NoOp, x) /\ ~Moving(op[c], x)
      /\ \A x \in Slug : x = y => Holds(op[c], x) /\ x \in Touches(op[c])
  BY DEF OpOK, NoOp, Moving, Holds, Points, Touches
<1>5. Turns(c, NoOp)
  BY <1>1, <1>3, <1>4, ProceedsOK
<1>6. DataTyped'
  BY <1>1, <1>2, <1>3 DEF TrellisTyped, DataTyped
<1>7. \A s \in TaskSession : pointer'[s] \in {y, pointer[s]}
  BY <1>1, <1>3
<1>8. \A x \in Slug : LeavesAlone(x) \/ x \in Touches(op[c])
  BY <1>3, <1>4, <1>7 DEF LeavesAlone
<1>9. ASSUME NEW x \in Slug \ spoiled', SoundOp(op[c], x) PROVE SoundFor(c, x)'
  <2>1. op'[c] = NoOp
    BY <1>5 DEF Turns
  <2>2. x = y => x \notin archived
    BY <1>4, <1>9 DEF SoundOp
  <2> QED BY <1>3, <1>4, <1>7, <1>9, <2>1, <2>2 DEF SoundFor, SoundOp
<1> QED BY <1>4, <1>5, <1>6, <1>8, <1>9, TurnKeeps

\* The task leaves the active tree; the sessions bound to it are looked up later.
LEMMA MoveStep == ASSUME TrellisInv, NEW c \in Caller, ArchiveMoves(c) PROVE TrellisInv'
<1> DEFINE y == op[c].slug
           o == [op[c] EXCEPT !.step = "list"]
<1>1. TrellisTyped /\ OpOK(op[c]) /\ DOMAIN record = Slug
  BY DEF TrellisInv, TrellisTyped
<1>2. op[c] \in MoveOp /\ op[c].step = "move" /\ y \in Slug
  BY <1>1, OpByName DEF ArchiveMoves, At, MoveOp
<1>3. /\ record' = [record EXCEPT ![y] = "none"] /\ archived' = archived \cup {y}
      /\ y \notin archived
      /\ UNCHANGED <<pointer, bucket, made>> /\ Proceeds(c, o)
  BY DEF ArchiveMoves, Move, Goes
<1>4. o \in MoveOp /\ o.step = "list" /\ o.name = "archive" /\ o.slug = y
  BY <1>2 DEF MoveOp
<1> HIDE DEF o
<1>5. OpOK(o) /\ y \in Touches(op[c]) /\ \A x \in Slug : ~Holds(o, x) /\ (Moving(o, x) <=> x = y)
  BY <1>2, <1>4 DEF OpOK, MoveOp, Touches, Holds, Moving
<1>6. Turns(c, o)
  BY <1>1, <1>3, <1>5, ProceedsOK
<1>7. DataTyped'
  BY <1>1, <1>2, <1>3 DEF TrellisTyped, DataTyped
<1>8. \A x \in Slug : LeavesAlone(x) \/ x \in Touches(op[c])
  BY <1>1, <1>3, <1>5 DEF LeavesAlone
<1>9. ASSUME NEW x \in Slug \ spoiled', SoundOp(op[c], x) PROVE SoundFor(c, x)'
  <2>1. op'[c] = o
    BY <1>6 DEF Turns
  <2>2. ~Moving(op[c], x)
    BY <1>2 DEF Moving
  <2>3. record'[x] = IF x = y THEN "none" ELSE record[x]
    BY <1>1, <1>3
  <2>4. \A s \in TaskSession : Will(o, s)
    BY <1>4 DEF Will
  <2> QED BY <1>3, <1>4, <1>5, <1>9, <2>1, <2>2, <2>3, <2>4 DEF SoundFor, SoundOp
<1> QED BY <1>5, <1>6, <1>7, <1>8, <1>9, TurnKeeps

\* The archiving lists the pointer files and looks at each of them.
LEMMA ScanSteps ==
  ASSUME TrellisInv, NEW c \in Caller,
         ArchiveLists(c) \/ \E s \in TaskSession : ArchiveReadsPointer(c, s)
  PROVE  TrellisInv'
<1>1. /\ OpOK(op[c]) /\ made' \in 0 .. MaxCalls /\ TrellisTyped
      /\ UNCHANGED <<record, archived, pointer, bucket>>
  BY DEF TrellisInv, TrellisTyped, ArchiveLists, ArchiveReadsPointer
<1>2. ASSUME NEW o, OpOK(o), Proceeds(c, o), o.name = "archive", o.slug = op[c].slug,
             o.step \in {"scan", "unbind"}, op[c].name = "archive",
             op[c].step \in {"list", "scan"},
             \A s \in TaskSession : Will(op[c], s) /\ pointer[s] = o.slug /\ o.slug \in Slug => s \in o.todo
      PROVE  TrellisInv'
  <2>1. Turns(c, o)
    BY <1>1, <1>2, ProceedsOK
  <2>2. \A x \in Slug : /\ ~Holds(o, x)
                        /\ Moving(o, x) <=> x = o.slug
                        /\ Moving(op[c], x) <=> x = o.slug
    BY <1>2 DEF Holds, Moving
  <2>3. \A x \in Slug : SoundOp(op[c], x) => SoundOp(o, x)
    BY <1>2, <2>2 DEF SoundOp, Will
  <2> QED BY <1>1, <1>2, <2>1, <2>3, QuietTurn
<1>3. CASE ArchiveLists(c)
  <2> DEFINE o == [name |-> "archive", slug |-> op[c].slug, step |-> "scan",
                   todo |-> {s \in TaskSession : pointer[s] # NoFile}, file |-> NoFile]
  <2>1. Proceeds(c, o) /\ op[c] \in MoveOp /\ op[c].step = "list" /\ op[c].name = "archive"
    BY <1>1, <1>3, OpByName DEF ArchiveLists, At
  <2>2. /\ o \in UnbindOp /\ o.step = "scan" /\ o.name = "archive" /\ o.slug = op[c].slug
        /\ o.slug \in Slug /\ o.todo = {s \in TaskSession : pointer[s] # NoFile}
    BY <2>1 DEF UnbindOp, MoveOp
  <2> HIDE DEF o
  <2>3. OpOK(o)
    BY <2>2 DEF OpOK
  <2>4. \A s \in TaskSession : pointer[s] = o.slug => s \in o.todo
    BY <2>2, TrellisAssumption
  <2> QED BY <1>2, <2>1, <2>2, <2>3, <2>4
<1>4. ASSUME NEW s \in TaskSession, ArchiveReadsPointer(c, s) PROVE TrellisInv'
  <2>1. /\ op[c] \in UnbindOp /\ op[c].step = "scan" /\ op[c].name = "archive"
        /\ s \in op[c].todo
    BY <1>1, <1>4, OpByName DEF ArchiveReadsPointer, At
  <2>2. CASE pointer[s] = op[c].slug
    <3> DEFINE o == [op[c] EXCEPT !.step = "unbind", !.file = s]
    <3>1. Proceeds(c, o)
      BY <1>4, <2>2 DEF ArchiveReadsPointer, BoundTo
    <3>2. /\ o \in UnbindOp /\ o.step = "unbind" /\ o.name = "archive" /\ o.slug = op[c].slug
          /\ o.todo = op[c].todo /\ o.file = s
      BY <2>1 DEF UnbindOp
    <3> HIDE DEF o
    <3>3. OpOK(o) /\ \A r \in TaskSession : Will(op[c], r) => r \in o.todo
      BY <2>1, <3>2 DEF OpOK, Will
    <3> QED BY <1>2, <2>1, <3>1, <3>2, <3>3
  <2>3. CASE pointer[s] # op[c].slug
    <3> DEFINE o == [op[c] EXCEPT !.todo = @ \ {s}]
    <3>1. Proceeds(c, o)
      BY <1>4, <2>3 DEF ArchiveReadsPointer, BoundTo
    <3>2. /\ o \in UnbindOp /\ o.step = "scan" /\ o.name = "archive" /\ o.slug = op[c].slug
          /\ o.todo = op[c].todo \ {s}
      BY <2>1 DEF UnbindOp
    <3> HIDE DEF o
    <3>3. OpOK(o) /\ \A r \in TaskSession : Will(op[c], r) /\ pointer[r] = o.slug => r \in o.todo
      BY <2>1, <2>3, <3>2 DEF OpOK, Will
    <3> QED BY <1>2, <2>1, <3>1, <3>2, <3>3
  <2> QED BY <2>2, <2>3
<1> QED BY <1>3, <1>4

LEMMA UnbindStep == ASSUME TrellisInv, NEW c \in Caller, ArchiveUnbinds(c) PROVE TrellisInv'
<1> DEFINE f == op[c].file
           o == [op[c] EXCEPT !.step = "scan", !.todo = @ \ {f}]
<1>1. TrellisTyped /\ OpOK(op[c]) /\ DOMAIN pointer = TaskSession
  BY DEF TrellisInv, TrellisTyped
<1>2. op[c] \in UnbindOp /\ op[c].step = "unbind" /\ f \in TaskSession
  BY <1>1, OpByName DEF ArchiveUnbinds, At
<1>3. /\ pointer' = [pointer EXCEPT ![f] = NoTask] /\ Proceeds(c, o)
      /\ UNCHANGED <<record, archived, bucket, made>>
  BY DEF ArchiveUnbinds
<1>4. /\ o \in UnbindOp /\ o.step = "scan" /\ o.name = "archive" /\ o.slug = op[c].slug
      /\ o.todo = op[c].todo \ {f}
  BY <1>2 DEF UnbindOp
<1> HIDE DEF o
<1>5. OpOK(o) /\ \A x \in Slug : ~Holds(o, x) /\ (Moving(o, x) <=> Moving(op[c], x))
  BY <1>2, <1>4 DEF OpOK, UnbindOp, Holds, Moving
<1>6. Turns(c, o)
  BY <1>1, <1>3, <1>5, ProceedsOK
<1>7. DataTyped'
  BY <1>1, <1>2, <1>3 DEF TrellisTyped, DataTyped
<1>8. \A x \in Slug, s \in TaskSession : pointer'[s] = x => pointer[s] = x /\ s # f
  BY <1>1, <1>2, <1>3, TrellisAssumption
<1>9. \A x \in Slug : LeavesAlone(x)
  BY <1>3, <1>8 DEF LeavesAlone
<1>10. ASSUME NEW x \in Slug \ spoiled', SoundOp(op[c], x) PROVE SoundFor(c, x)'
  <2>1. op'[c] = o
    BY <1>6 DEF Turns
  <2>2. \A s \in TaskSession : Will(op[c], s) /\ s # f => Will(o, s)
    BY <1>2, <1>4 DEF Will
  <2> QED BY <1>3, <1>4, <1>5, <1>8, <1>10, <2>1, <2>2 DEF SoundFor, SoundOp
<1> QED BY <1>5, <1>6, <1>7, <1>9, <1>10, TurnKeeps

\* The archiving ends: no session is bound to the task and no cache is kept.
LEMMA ArchiveEndStep == ASSUME TrellisInv, NEW c \in Caller, ArchiveEnds(c) PROVE TrellisInv'
<1>1. TrellisTyped /\ OpOK(op[c]) /\ OpOK(NoOp)
  BY DEF TrellisInv, TrellisTyped, OpOK
<1>2. /\ bucket' = NoBucket /\ Proceeds(c, NoOp)
      /\ UNCHANGED <<record, archived, pointer, made>>
      /\ op[c].step = "scan" /\ op[c].todo = {}
  BY DEF ArchiveEnds, At, Ends, Invalidate
<1>3. Turns(c, NoOp)
  BY <1>1, <1>2, ProceedsOK
<1>4. DataTyped' /\ \A x \in Slug : LeavesAlone(x)
  BY <1>1, <1>2 DEF TrellisTyped, DataTyped, LeavesAlone
<1>5. ASSUME NEW x \in Slug \ spoiled', SoundOp(op[c], x) PROVE SoundFor(c, x)'
  <2>1. op'[c] = NoOp /\ ~Holds(NoOp, x)
    BY <1>3 DEF Turns, NoOp, Holds
  <2>2. \A s \in TaskSession : ~Will(op[c], s)
    BY <1>2 DEF Will
  <2> QED BY <1>2, <1>5, <2>1, <2>2 DEF SoundFor, SoundOp
<1> QED BY <1>1, <1>3, <1>4, <1>5, TurnKeeps

\* An archiving cut short spoils its task.
LEMMA AbortStep == ASSUME TrellisInv, NEW c \in Caller, Aborted(c) PROVE TrellisInv'
<1> DEFINE o == IF op[c].step = "list" THEN NoOp
                ELSE [op[c] EXCEPT !.step = "scan", !.todo = @ \ {op[c].file}]
<1>1. TrellisTyped /\ OpOK(op[c]) /\ op[c].name = "archive" /\ op[c].step \in {"list", "unbind"}
  BY DEF TrellisInv, TrellisTyped, Aborted
<1>2. /\ op' = [op EXCEPT ![c] = o] /\ spoiled' = spoiled \cup {op[c].slug}
      /\ UNCHANGED <<record, archived, pointer, bucket, made>>
  BY DEF Aborted, NextOp
<1>3. /\ op[c].slug \in Slug /\ raced' \subseteq Slug
      /\ op[c].step = "unbind" => op[c] \in UnbindOp
  BY <1>1, OpByName DEF MoveOp, UnbindOp, Aborted, NextOp, TrellisTyped
<1>4. OpOK(o) /\ \A x \in Touches(o) : x = op[c].slug
  <2>1. CASE op[c].step = "list"
    BY <2>1 DEF OpOK, Touches, NoOp
  <2>2. CASE op[c].step = "unbind"
    <3>1. o \in UnbindOp /\ o.step = "scan" /\ o.slug = op[c].slug /\ o.name = "archive"
      BY <1>3, <2>2 DEF UnbindOp
    <3> HIDE DEF o
    <3> QED BY <3>1 DEF OpOK, Touches
  <2> QED BY <1>1, <2>1, <2>2
<1>5. /\ Touches(o) \subseteq Touches(op[c]) /\ \A x \in Slug : Touches(op[c]) \subseteq {op[c].slug}
  BY <1>1, <1>3, <1>4 DEF Touches, NoOp
<1> HIDE DEF o
<1>6. Turns(c, o)
  BY <1>1, <1>2, <1>3, <1>5, StaysOK DEF TrellisTyped
<1>7. made' \in 0 .. MaxCalls
  BY <1>1, <1>2 DEF TrellisTyped
<1>8. DataTyped' /\ \A x \in Slug : LeavesAlone(x)
  BY <1>1, <1>2 DEF TrellisTyped, DataTyped, LeavesAlone
<1>9. ASSUME NEW x \in Slug \ spoiled', SoundOp(op[c], x) PROVE SoundFor(c, x)'
  <2>1. op'[c] = o /\ x # op[c].slug
    BY <1>2, <1>6 DEF Turns
  <2>2. x \notin Touches(o) /\ x \notin Touches(op[c])
    BY <1>4, <1>5, <2>1
  <2>3. ~Holds(o, x) /\ ~Moving(o, x) /\ ~Moving(op[c], x)
    BY <2>2, Touching
  <2> QED BY <1>2, <1>5, <1>9, <2>1, <2>3 DEF SoundFor, SoundOp
<1> QED BY <1>4, <1>6, <1>8, <1>9, TurnKeeps

\* A board holds no task and moves none.
LEMMA BoardSteps ==
  ASSUME TrellisInv, NEW c \in Caller,
         BoardReadsActive(c) \/ BoardLooksUp(c) \/ BoardCaches(c) \/ BoardEnds(c)
  PROVE  TrellisInv'
<1>1. /\ OpOK(op[c]) /\ TrellisTyped /\ op[c].name = "board" /\ op[c] \in BoardOp
      /\ op[c].step # "lookup" => op[c].archive # Unread
      /\ UNCHANGED <<record, archived, pointer, made>>
  BY OpByName DEF TrellisInv, TrellisTyped, BoardReadsActive, BoardLooksUp, BoardCaches, BoardEnds, At
<1>2. /\ Found({x \in Slug : record[x] # "none"}) \in TreeAnswers
      /\ bucket # NoBucket => Found(bucket.tasks) \in TreeAnswers
      /\ Found(archived) \in TreeAnswers /\ \A T : Found(T) # Unread
  BY <1>1 DEF TreeAnswers, Found, Unread, TrellisTyped
<1>3. PICK o : /\ Proceeds(c, o) /\ OpOK(o) /\ o.name \in {"board", "none"}
  <2>1. ASSUME NEW o \in BoardOp, o.step # "lookup" => o.archive # Unread
        PROVE  OpOK(o) /\ o.name \in {"board", "none"}
    BY <2>1 DEF OpOK, BoardOp
  <2>2. CASE BoardReadsActive(c)
    <3> DEFINE found == Found({x \in Slug : record[x] # "none"})
               o == [op[c] EXCEPT !.active = found]
    <3>1. Proceeds(c, o)
      BY <2>2 DEF BoardReadsActive
    <3> HIDE DEF found
    <3>2. o \in BoardOp /\ o.step = op[c].step /\ o.archive = op[c].archive
      BY <1>1, <1>2 DEF BoardOp, found
    <3> HIDE DEF o
    <3> QED BY <1>1, <2>1, <3>1, <3>2
  <2>3. CASE BoardLooksUp(c)
    <3>1. PICK step \in {"done", "cache"}, found \in TreeAnswers \ {Unread} :
            Proceeds(c, [op[c] EXCEPT !.step = step, !.archive = found])
      BY <1>2, <2>3 DEF BoardLooksUp
    <3> DEFINE o == [op[c] EXCEPT !.step = step, !.archive = found]
    <3>2. o \in BoardOp /\ o.archive = found
      BY <1>1 DEF BoardOp
    <3>3. Proceeds(c, o)
      BY <3>1
    <3> HIDE DEF o
    <3> QED BY <2>1, <3>2, <3>3
  <2>4. CASE BoardCaches(c)
    <3> DEFINE o == [op[c] EXCEPT !.step = "done"]
    <3>1. Proceeds(c, o) /\ op[c].step = "cache"
      BY <2>4 DEF BoardCaches, Goes, At
    <3>2. o \in BoardOp /\ o.archive = op[c].archive
      BY <1>1 DEF BoardOp
    <3> HIDE DEF o
    <3> QED BY <1>1, <2>1, <3>1, <3>2
  <2>5. CASE BoardEnds(c)
    BY <2>5 DEF BoardEnds, Ends, OpOK, NoOp
  <2> QED BY <2>2, <2>3, <2>4, <2>5
<1>4. \A x \in Slug : ~Holds(o, x) /\ ~Moving(o, x) /\ ~Moving(op[c], x)
  BY <1>1, <1>3 DEF Holds, Moving
<1>5. Turns(c, o)
  BY <1>1, <1>3, ProceedsOK
<1>6. bucket' \in {NoBucket} \cup [cached : {TRUE}, tasks : SUBSET Slug]
  <2>1. CASE BoardCaches(c)
    <3>1. bucket' \in {bucket, Cached(op[c].archive.tasks)} /\ op[c].archive # Unread
      BY <1>1, <2>1 DEF BoardCaches, At
    <3>2. op[c].archive.tasks \in SUBSET Slug
      BY <1>1, <3>1 DEF BoardOp, TreeAnswers
    <3>3. Cached(op[c].archive.tasks) \in [cached : {TRUE}, tasks : SUBSET Slug]
      BY <3>2 DEF Cached
    <3> QED BY <1>1, <3>1, <3>3 DEF TrellisTyped
  <2>2. CASE bucket' = bucket
    BY <1>1, <2>2 DEF TrellisTyped
  <2> QED BY <2>1, <2>2 DEF BoardReadsActive, BoardLooksUp, BoardEnds
<1>7. DataTyped' /\ \A x \in Slug : LeavesAlone(x)
  BY <1>1, <1>6 DEF DataTyped, TrellisTyped, LeavesAlone
<1>8. ASSUME NEW x \in Slug \ spoiled', SoundOp(op[c], x) PROVE SoundFor(c, x)'
  <2>1. op'[c] = o
    BY <1>5 DEF Turns
  <2> QED BY <1>1, <1>4, <1>8, <2>1 DEF SoundFor, SoundOp
<1> QED BY <1>3, <1>5, <1>7, <1>8, TurnKeeps

-----------------------------------------------------------------------------
(* Trellis: the theorems *)

LEMMA TrellisBegins == TrellisInit => TrellisInv
<1> SUFFICES ASSUME TrellisInit PROVE TrellisInv
  OBVIOUS
<1>1. TrellisTyped
  BY TrellisAssumption DEF TrellisInit, TrellisTyped, OpOK
<1>2. ASSUME NEW c \in Caller, NEW x \in Slug PROVE op[c] = NoOp /\ ~Holds(NoOp, x) /\ x \notin Touches(NoOp)
  BY DEF TrellisInit, NoOp, Holds, Touches
<1>4. ASSUME NEW x \in Slug PROVE Sound(x)
  BY <1>2 DEF TrellisInit, Sound, Alone, HeldTask, Closed
<1> QED BY <1>1, <1>4 DEF TrellisInv

LEMMA TrellisGoes == TrellisInv /\ [TrellisNext]_trellisVars => TrellisInv'
<1> SUFFICES ASSUME TrellisInv, [TrellisNext]_trellisVars PROVE TrellisInv'
  OBVIOUS
<1>1. CASE UNCHANGED trellisVars
  BY <1>1 DEF TrellisInv, TrellisTyped, Sound, Alone, HeldTask, Closed, trellisVars
<1>2. CASE TrellisNext
  BY <1>2, BeginSteps, LookSteps, WriteSteps, PointStep, MoveStep, ScanSteps, UnbindStep,
     ArchiveEndStep, AbortStep, BoardSteps DEF TrellisNext
<1> QED BY <1>1, <1>2

LEMMA TrellisHolds == TrellisSpec => []TrellisInv
<1> QED BY TrellisBegins, TrellisGoes, PTL DEF TrellisSpec

\* The records, the pointers, the cache and the calls keep their shapes.
THEOREM TrellisTypes == TrellisSpec => []TrellisTypeOK
<1>1. TrellisInv => TrellisTypeOK
  <2> SUFFICES ASSUME TrellisInv PROVE TrellisTypeOK
    OBVIOUS
  <2>1. ASSUME NEW c \in Caller, op[c].name = "update"
        PROVE  op[c].slug \in Slug \/ op[c].step = "find"
    BY <2>1, OpByName DEF TrellisInv, TrellisTyped
  <2> QED BY <2>1 DEF TrellisInv, TrellisTyped, TrellisTypeOK
<1> QED BY <1>1, TrellisHolds, PTL

\* The only removal of a record is the rename of archiveTaskRecord.
LEMMA Survives ==
  ASSUME TrellisInv, TrellisNext
  PROVE  (\A x \in Slug : Exists(x) => Exists(x)') /\ archived \subseteq archived'
<1>0. DOMAIN record = Slug /\ \A c \in Caller : OpOK(op[c])
  BY DEF TrellisInv, TrellisTyped
<1>1. CASE UNCHANGED <<record, archived>>
  BY <1>1 DEF Exists
<1>2. ASSUME NEW c \in Caller, CreateWrites(c) \/ UpdateWrites(c)
      PROVE  (\A x \in Slug : Exists(x) => Exists(x)') /\ archived \subseteq archived'
  <2>1. op[c].status \in Status
    BY <1>0, <1>2, OpByName DEF CreateWrites, UpdateWrites, At, CreateOp
  <2>2. record' = [record EXCEPT ![op[c].slug] = op[c].status] /\ archived' = archived
    BY <1>2 DEF CreateWrites, UpdateWrites
  <2> QED BY <1>0, <2>1, <2>2 DEF Exists, Status
<1>3. ASSUME NEW c \in Caller, ArchiveMoves(c)
      PROVE  (\A x \in Slug : Exists(x) => Exists(x)') /\ archived \subseteq archived'
  <2>1. record' = [record EXCEPT ![op[c].slug] = "none"] /\ archived' = archived \cup {op[c].slug}
    BY <1>3 DEF ArchiveMoves, Move
  <2> QED BY <1>0, <2>1 DEF Exists
<1>4. \/ UNCHANGED <<record, archived>>
      \/ \E c \in Caller : CreateWrites(c) \/ UpdateWrites(c) \/ ArchiveMoves(c)
  <2>1. ASSUME NEW c \in Caller, NEW s \in TaskSession,
               \/ \E x \in Slug : Bind(c, s, x) \/ \E st \in Status : Create(c, s, x, st)
               \/ Bind(c, s, NoTask)
               \/ \E x \in Slug \cup {NoTask}, st \in Status \cup {"keep"} : Update(c, s, x, st)
               \/ ArchiveReadsPointer(c, s)
        PROVE  UNCHANGED <<record, archived>>
    BY <2>1 DEF Bind, Create, Update, ArchiveReadsPointer
  <2>2. ASSUME NEW c \in Caller, \E x \in Slug : Archive(c, x)
        PROVE  UNCHANGED <<record, archived>>
    BY <2>2 DEF Archive
  <2>3. ASSUME NEW c \in Caller,
               \/ CreateStats(c) \/ Points(c) \/ WriteFails(c)
               \/ UpdateFinds(c) \/ UpdateReads(c)
        PROVE  UNCHANGED <<record, archived>>
    BY <2>3 DEF CreateStats, Points, WriteFails, UpdateFinds, UpdateReads
  <2>4. ASSUME NEW c \in Caller,
               \/ ArchiveReads(c) \/ ArchiveMoveFails(c) \/ Aborted(c)
               \/ ArchiveLists(c) \/ ArchiveUnbinds(c) \/ ArchiveEnds(c) \/ BindStats(c)
        PROVE  UNCHANGED <<record, archived>>
    BY <2>4 DEF ArchiveReads, ArchiveMoveFails, Aborted, ArchiveLists, ArchiveUnbinds,
                ArchiveEnds, BindStats
  <2>5. ASSUME NEW c \in Caller,
               \/ Board(c) \/ BoardReadsActive(c) \/ BoardLooksUp(c)
               \/ BoardCaches(c) \/ BoardEnds(c)
        PROVE  UNCHANGED <<record, archived>>
    BY <2>5 DEF Board, BoardReadsActive, BoardLooksUp, BoardCaches, BoardEnds
  <2> QED BY <2>1, <2>2, <2>3, <2>4, <2>5 DEF TrellisNext
<1> QED BY <1>1, <1>2, <1>3, <1>4

\* A task is in the active tree or in the archive at every moment, whatever
\* calls overlap: the only removal is the rename of archiveTaskRecord.
THEOREM TasksSurvive == TrellisSpec => TaskSurvives
<1>1. ASSUME TrellisInv, [TrellisNext]_trellisVars
      PROVE  [/\ \A x \in Slug : Exists(x) => Exists(x)'
              /\ archived \subseteq archived']_trellisVars
  BY <1>1, Survives
<1> QED BY <1>1, TrellisHolds, PTL DEF TrellisSpec, TaskSurvives

\* When the archiving of a task that no other call met is over, no session is
\* bound to the task and no active record is left.
THEOREM ArchivesClose == TrellisSpec => []ArchivedIsClosed
<1>1. TrellisInv => ArchivedIsClosed
  BY DEF TrellisInv, TrellisTyped, Sound, Closed, Moving, ArchivedIsClosed, Archiving
<1> QED BY <1>1, TrellisHolds, PTL

-----------------------------------------------------------------------------
(* Trellis: the boards *)

\* No board is being built while a task that is not raced moves.
Apart(x) == \A c, d \in Caller : Moving(op[c], x) => op[d].name # "board"

\* What the cache and a board say of x: the archive was read as it is, and the
\* active tree when x was in it.
CacheTells(x) ==
  bucket # NoBucket /\ (\A c \in Caller : ~Moving(op[c], x)) => (x \in bucket.tasks <=> x \in archived)
BoardTells(o, x) == o.name = "board" =>
  /\ x \in o.there => Exists(x)
  /\ o.archive # Unread => (x \in o.archive.tasks <=> x \in archived)
  /\ o.active # Unread /\ x \in o.there /\ x \notin archived => x \in o.active.tasks

WellTold(x) == Apart(x) /\ CacheTells(x) /\ \A c \in Caller : BoardTells(op[c], x)
BoardInv == \A x \in Slug \ raced : WellTold(x)

\* Caller c steps and nobody else does.
OneSteps(c) == /\ \A d \in Caller : d # c => op'[d] = op[d]
               /\ op' = [d \in Caller |-> op'[d]] /\ raced \subseteq raced'
Sets(c, o) == OneSteps(c) /\ op'[c] = o

LEMMA NextOpSets ==
  ASSUME TrellisTyped, NEW c \in Caller, NEW o, NextOp(c, o)
  PROVE  Sets(c, o) /\ \A x \in Slug \ raced' : Apart(x)'
<1>1. op = [d \in Caller |-> op[d]] /\ op' = [op EXCEPT ![c] = o]
  BY DEF TrellisTyped, NextOp
<1>2. op' = [d \in Caller |-> IF d = c THEN o ELSE op[d]]
  BY <1>1
<1>3. Sets(c, o)
  BY <1>2 DEF Sets, OneSteps, NextOp
<1>4. \A x \in Slug \ raced' : Apart(x)'
  BY DEF NextOp, Apart
<1> QED BY <1>3, <1>4

\* Where x stays in its tree, what was told of it is still right.
LEMMA StillTold ==
  ASSUME NEW c \in Caller, NEW x \in Slug, WellTold(x), OneSteps(c), Apart(x)', CacheTells(x)',
         BoardTells(op[c], x)', x \in archived' <=> x \in archived, Exists(x) => Exists(x)'
  PROVE  WellTold(x)'
<1>1. ASSUME NEW d \in Caller PROVE BoardTells(op[d], x)'
  <2>1. CASE d = c
    BY <2>1
  <2>2. CASE d # c
    <3>1. op'[d] = op[d] /\ BoardTells(op[d], x)
      BY <2>2 DEF OneSteps, WellTold
    <3> QED BY <3>1 DEF BoardTells, Exists
  <2> QED BY <2>1, <2>2
<1> QED BY <1>1 DEF WellTold

\* A call that is no board and neither moves a task nor touches the cache.
LEMMA OthersTell ==
  ASSUME TrellisInv, BoardInv, TrellisNext, NEW c \in Caller, NEW o, Sets(c, o), o.name # "board",
         \A x \in Slug \ raced' : Apart(x)', archived' = archived, bucket' = bucket,
         \A x \in Slug \ raced' : Moving(op[c], x) => Moving(o, x)
  PROVE  BoardInv'
<1>1. ASSUME NEW x \in Slug, x \notin raced' PROVE WellTold(x)'
  <2>1. WellTold(x) /\ Apart(x)' /\ (Exists(x) => Exists(x)') /\ OneSteps(c) /\ op'[c] = o
    BY <1>1, Survives DEF BoardInv, Sets, OneSteps
  <2>2. CacheTells(x)'
    <3>1. ASSUME NEW d \in Caller, Moving(op[d], x) PROVE Moving(op'[d], x)
      BY <1>1, <2>1, <3>1 DEF OneSteps
    <3> QED BY <2>1, <3>1 DEF WellTold, CacheTells
  <2>3. BoardTells(op[c], x)'
    BY <2>1 DEF BoardTells
  <2> QED BY <2>1, <2>2, <2>3, StillTold
<1> QED BY <1>1 DEF BoardInv

\* The steps of create, update and bind, and of an archiving that is not over.
LEMMA OtherSteps ==
  ASSUME TrellisInv, BoardInv, TrellisNext, NEW c \in Caller,
         \/ \E s \in TaskSession :
              \/ \E x \in Slug : Bind(c, s, x) \/ \E st \in Status : Create(c, s, x, st)
              \/ Bind(c, s, NoTask)
              \/ \E x \in Slug \cup {NoTask}, st \in Status \cup {"keep"} : Update(c, s, x, st)
         \/ \E x \in Slug : Archive(c, x)
         \/ CreateStats(c) \/ CreateWrites(c) \/ Points(c) \/ WriteFails(c)
         \/ UpdateFinds(c) \/ UpdateReads(c) \/ UpdateWrites(c)
         \/ ArchiveReads(c) \/ ArchiveMoveFails(c) \/ BindStats(c)
  PROVE  BoardInv'
<1>1. TrellisTyped /\ op = [d \in Caller |-> op[d]] /\ OpOK(op[c])
  BY DEF TrellisInv, TrellisTyped
<1>2. archived' = archived /\ bucket' = bucket
  BY DEF Bind, Create, Update, Archive, CreateStats, CreateWrites, Points, WriteFails, UpdateFinds,
         UpdateReads, UpdateWrites, ArchiveReads, ArchiveMoveFails, BindStats
<1>3. \A x \in Slug : ~Moving(op[c], x)
  <2>1. \/ op[c] = NoOp \/ op[c].name \in {"create", "update", "bind"}
        \/ op[c].step \in {"read", "move"}
    BY DEF Bind, Create, Update, Archive, CreateStats, CreateWrites, Points, WriteFails, UpdateFinds,
           UpdateReads, UpdateWrites, ArchiveReads, ArchiveMoveFails, BindStats, Begins, At
  <2> QED BY <2>1 DEF NoOp, Moving
<1>4. ASSUME NEW o, NextOp(c, o), o.name # "board" PROVE BoardInv'
  BY <1>1, <1>2, <1>3, <1>4, NextOpSets, OthersTell
<1>5. \E o : NextOp(c, o) /\ o.name # "board"
  <2>1. ASSUME NEW s \in TaskSession, NEW x \in Slug \cup {NoTask}, Bind(c, s, x)
        PROVE  \E o : NextOp(c, o) /\ o.name # "board"
    <3> DEFINE o == [name |-> "bind", session |-> s, slug |-> x,
                     step |-> IF x = NoTask THEN "point" ELSE "stat"]
    <3>1. NextOp(c, o) /\ o.name # "board"
      BY <2>1 DEF Bind, Begins, Proceeds
    <3> QED BY <3>1
  <2>2. ASSUME NEW s \in TaskSession, NEW x \in Slug, NEW st \in Status, Create(c, s, x, st)
        PROVE  \E o : NextOp(c, o) /\ o.name # "board"
    <3> DEFINE o == [name |-> "create", session |-> s, slug |-> x, status |-> st, step |-> "stat"]
    <3>1. NextOp(c, o) /\ o.name # "board"
      BY <2>2 DEF Create, Begins, Proceeds
    <3> QED BY <3>1
  <2>3. ASSUME NEW s \in TaskSession, NEW x \in Slug \cup {NoTask}, NEW st \in Status \cup {"keep"},
               Update(c, s, x, st)
        PROVE  \E o : NextOp(c, o) /\ o.name # "board"
    <3> DEFINE o == [name |-> "update", session |-> s, slug |-> x, status |-> st,
                     step |-> IF x = NoTask THEN "find" ELSE "read"]
    <3>1. NextOp(c, o) /\ o.name # "board"
      BY <2>3 DEF Update, Begins, Proceeds
    <3> QED BY <3>1
  <2>4. ASSUME NEW x \in Slug, Archive(c, x) PROVE \E o : NextOp(c, o) /\ o.name # "board"
    <3> DEFINE o == [name |-> "archive", slug |-> x, step |-> "read", todo |-> {}]
    <3>1. NextOp(c, o) /\ o.name # "board"
      BY <2>4 DEF Archive, Begins, Proceeds
    <3> QED BY <3>1
  <2>5. ASSUME Ends(c) PROVE \E o : NextOp(c, o) /\ o.name # "board"
    BY <2>5 DEF Ends, Proceeds, NoOp
  <2>6. ASSUME NEW o, NextOp(c, o), o.name = op[c].name, op[c].name # "board"
        PROVE  \E q : NextOp(c, q) /\ q.name # "board"
    BY <2>6
  <2>7. CASE CreateStats(c) /\ ~Ends(c)
    <3>1. NextOp(c, [op[c] EXCEPT !.step = "write"]) /\ op[c] \in CreateOp
      BY <1>1, <2>7, OpByName DEF CreateStats, At, Goes, Proceeds
    <3> QED BY <2>6, <3>1 DEF CreateOp
  <2>8. CASE CreateWrites(c)
    <3>1. NextOp(c, [op[c] EXCEPT !.step = "point"]) /\ op[c] \in CreateOp
      BY <1>1, <2>8, OpByName DEF CreateWrites, At
    <3> QED BY <2>6, <3>1 DEF CreateOp
  <2>9. CASE UpdateFinds(c) /\ ~Ends(c)
    <3>1. /\ NextOp(c, [op[c] EXCEPT !.slug = pointer[op[c].session], !.step = "read"])
          /\ op[c] \in UpdateOp
      BY <1>1, <2>9, OpByName DEF UpdateFinds, Finds, At, Proceeds
    <3> QED BY <2>6, <3>1 DEF UpdateOp
  <2>10. CASE UpdateReads(c) /\ ~Ends(c)
    <3>1. PICK st : /\ NextOp(c, [op[c] EXCEPT !.step = "write", !.status = st])
                    /\ op[c] \in UpdateOp
      BY <1>1, <2>10, OpByName DEF UpdateReads, At, Proceeds
    <3> QED BY <2>6, <3>1 DEF UpdateOp
  <2>11. CASE UpdateWrites(c)
    <3>1. NextOp(c, [op[c] EXCEPT !.step = "point"]) /\ op[c] \in UpdateOp
      BY <1>1, <2>11, OpByName DEF UpdateWrites, At, Goes, Proceeds
    <3> QED BY <2>6, <3>1 DEF UpdateOp
  <2>12. CASE ArchiveReads(c) /\ ~Ends(c)
    <3>1. NextOp(c, [op[c] EXCEPT !.step = "move"]) /\ op[c] \in MoveOp
      BY <1>1, <2>12, OpByName DEF ArchiveReads, At, Goes, Proceeds
    <3> QED BY <2>6, <3>1 DEF MoveOp
  <2>13. CASE BindStats(c) /\ ~Ends(c)
    <3>1. NextOp(c, [op[c] EXCEPT !.step = "point"]) /\ op[c] \in BindOp
      BY <1>1, <2>13, OpByName DEF BindStats, At, Goes, Proceeds
    <3> QED BY <2>6, <3>1 DEF BindOp
  <2>14. Points(c) \/ WriteFails(c) \/ ArchiveMoveFails(c) => Ends(c)
    BY DEF Points, WriteFails, ArchiveMoveFails
  <2> QED BY <2>1, <2>2, <2>3, <2>4, <2>5, <2>7, <2>8, <2>9, <2>10, <2>11, <2>12, <2>13, <2>14
<1> QED BY <1>4, <1>5

\* The steps of an archiving that has moved its task and still keeps it moving.
LEMMA MovingSteps ==
  ASSUME TrellisInv, BoardInv, TrellisNext, NEW c \in Caller,
         \/ ArchiveLists(c) \/ ArchiveUnbinds(c) \/ Aborted(c)
         \/ \E s \in TaskSession : ArchiveReadsPointer(c, s)
  PROVE  BoardInv'
<1>1. TrellisTyped /\ op = [d \in Caller |-> op[d]] /\ OpOK(op[c])
  BY DEF TrellisInv, TrellisTyped
<1>2. archived' = archived /\ bucket' = bucket
  BY DEF ArchiveLists, ArchiveUnbinds, Aborted, ArchiveReadsPointer
<1>3. ASSUME NEW o, NextOp(c, o), o.name = "archive", o.slug = op[c].slug, o.step \in {"scan", "unbind"}
      PROVE  BoardInv'
  <2>1. \A x \in Slug : Moving(op[c], x) => Moving(o, x)
    BY <1>3 DEF Moving
  <2> QED BY <1>1, <1>2, <1>3, <2>1, NextOpSets, OthersTell
<1>4. CASE ArchiveLists(c)
  <2> DEFINE o == [name |-> "archive", slug |-> op[c].slug, step |-> "scan",
                   todo |-> {s \in TaskSession : pointer[s] # NoFile}, file |-> NoFile]
  <2>1. NextOp(c, o) /\ o.name = "archive" /\ o.slug = op[c].slug /\ o.step = "scan"
    BY <1>4 DEF ArchiveLists, Proceeds
  <2> HIDE DEF o
  <2> QED BY <1>3, <2>1
<1>5. CASE ArchiveUnbinds(c) \/ (Aborted(c) /\ op[c].step # "list")
  <2> DEFINE o == [op[c] EXCEPT !.step = "scan", !.todo = @ \ {op[c].file}]
  <2>1. NextOp(c, o) /\ op[c] \in UnbindOp
    BY <1>1, <1>5, OpByName DEF ArchiveUnbinds, Aborted, At, Proceeds
  <2>2. o.name = "archive" /\ o.slug = op[c].slug /\ o.step = "scan"
    BY <2>1 DEF UnbindOp
  <2> HIDE DEF o
  <2> QED BY <1>3, <2>1, <2>2
<1>6. ASSUME NEW s \in TaskSession, ArchiveReadsPointer(c, s) PROVE BoardInv'
  <2>1. op[c] \in UnbindOp /\ op[c].step = "scan"
    BY <1>1, <1>6, OpByName DEF ArchiveReadsPointer, At
  <2>2. PICK o : /\ NextOp(c, o)
                 /\ \/ o = [op[c] EXCEPT !.step = "unbind", !.file = s]
                    \/ o = [op[c] EXCEPT !.todo = @ \ {s}]
    BY <1>6 DEF ArchiveReadsPointer, Proceeds
  <2>3. o.name = "archive" /\ o.slug = op[c].slug /\ o.step \in {"scan", "unbind"}
    BY <2>1, <2>2 DEF UnbindOp
  <2> QED BY <1>3, <2>2, <2>3
<1>7. CASE Aborted(c) /\ op[c].step = "list"
  <2>1. op' = [op EXCEPT ![c] = NoOp] /\ raced' = raced \cup {op[c].slug} /\ NoOp.name # "board"
    BY <1>7 DEF Aborted, NoOp
  <2>2. op' = [d \in Caller |-> IF d = c THEN NoOp ELSE op[d]]
    BY <1>1, <2>1
  <2>3. Sets(c, NoOp)
    BY <2>1, <2>2 DEF Sets, OneSteps
  <2>4. ASSUME NEW x \in Slug, x \notin raced' PROVE Apart(x)' /\ ~Moving(op[c], x)
    <3>1. x # op[c].slug /\ Apart(x)
      BY <2>1, <2>4 DEF BoardInv, WellTold
    <3>2. ~Moving(NoOp, x) /\ ~Moving(op[c], x)
      BY <3>1 DEF Moving, NoOp
    <3> QED BY <2>1, <2>2, <3>1, <3>2 DEF Apart
  <2> QED BY <1>2, <2>1, <2>3, <2>4, OthersTell
<1> QED BY <1>4, <1>5, <1>6, <1>7

\* The move itself: a board under way makes the task raced.
LEMMA MoveTold ==
  ASSUME TrellisInv, BoardInv, TrellisNext, NEW c \in Caller, ArchiveMoves(c) PROVE BoardInv'
<1> DEFINE y == op[c].slug
           o == [op[c] EXCEPT !.step = "list"]
<1>1. TrellisTyped /\ OpOK(op[c]) /\ op[c] \in MoveOp /\ op[c].step = "move"
  BY OpByName DEF TrellisInv, TrellisTyped, ArchiveMoves, At
<1>2. NextOp(c, o) /\ archived' = archived \cup {y} /\ bucket' = bucket
  BY DEF ArchiveMoves, Move, Goes, Proceeds
<1>3. o.name = "archive" /\ o.slug = y /\ o.step = "list"
  BY <1>1 DEF MoveOp
<1> HIDE DEF o
<1>4. Sets(c, o) /\ \A x \in Slug \ raced' : Apart(x)'
  BY <1>1, <1>2, NextOpSets
<1>5. ASSUME NEW x \in Slug, x \notin raced' PROVE WellTold(x)'
  <2>1. WellTold(x) /\ Apart(x)' /\ (Exists(x) => Exists(x)') /\ OneSteps(c) /\ op'[c] = o
    BY <1>4, <1>5, Survives DEF BoardInv, Sets, OneSteps
  <2>2. CASE x = y
    <3>1. Moving(op'[c], x)
      BY <1>3, <2>1, <2>2 DEF Moving
    <3> QED BY <2>1, <3>1 DEF WellTold, Apart, CacheTells, BoardTells
  <2>3. CASE x # y
    <3>1. ~Moving(op[c], x) /\ op'[c].name # "board" /\ (x \in archived' <=> x \in archived)
      BY <1>1, <1>2, <1>3, <2>1, <2>3 DEF Moving
    <3>2. CacheTells(x)'
      <4>1. ASSUME NEW d \in Caller, Moving(op[d], x) PROVE Moving(op'[d], x)
        BY <2>1, <3>1, <4>1 DEF OneSteps
      <4> QED BY <1>2, <2>1, <3>1, <4>1 DEF WellTold, CacheTells
    <3>3. BoardTells(op[c], x)'
      BY <3>1 DEF BoardTells
    <3> QED BY <2>1, <3>1, <3>2, <3>3, StillTold
  <2> QED BY <2>2, <2>3
<1> QED BY <1>5 DEF BoardInv

\* The end of an archiving leaves no cached bucket.
LEMMA EndTold ==
  ASSUME TrellisInv, BoardInv, TrellisNext, NEW c \in Caller, ArchiveEnds(c) PROVE BoardInv'
<1>1. NextOp(c, NoOp) /\ archived' = archived /\ bucket' = NoBucket /\ NoOp.name # "board"
  BY DEF ArchiveEnds, Invalidate, Ends, Proceeds, NoOp
<1>2. Sets(c, NoOp) /\ \A x \in Slug \ raced' : Apart(x)'
  BY <1>1, NextOpSets DEF TrellisInv
<1>3. ASSUME NEW x \in Slug, x \notin raced' PROVE WellTold(x)'
  <2>1. WellTold(x) /\ Apart(x)' /\ (Exists(x) => Exists(x)') /\ OneSteps(c) /\ op'[c] = NoOp
    BY <1>2, <1>3, Survives DEF BoardInv, Sets, OneSteps
  <2>2. CacheTells(x)' /\ BoardTells(op[c], x)'
    BY <1>1, <2>1 DEF CacheTells, BoardTells
  <2> QED BY <1>1, <2>1, <2>2, StillTold
<1> QED BY <1>3 DEF BoardInv

\* A board's own steps: what it reads is right of every task that is not moving,
\* and what it caches it has read.
LEMMA BoardTold ==
  ASSUME TrellisInv, BoardInv, TrellisNext, NEW c \in Caller,
         \/ Board(c) \/ BoardReadsActive(c) \/ BoardLooksUp(c) \/ BoardCaches(c) \/ BoardEnds(c)
  PROVE  BoardInv'
<1>1. /\ TrellisTyped /\ OpOK(op[c]) /\ UNCHANGED <<record, archived>>
      /\ \A x \in Slug : ~Moving(op[c], x)
  <2>1. op[c] = NoOp \/ op[c].name = "board"
    BY DEF Board, BoardReadsActive, BoardLooksUp, BoardCaches, BoardEnds, Begins, At
  <2>2. UNCHANGED <<record, archived>>
    BY DEF Board, BoardReadsActive, BoardLooksUp, BoardCaches, BoardEnds
  <2>3. TrellisTyped /\ OpOK(op[c])
    BY DEF TrellisInv, TrellisTyped
  <2>4. \A x \in Slug : ~Moving(op[c], x)
    BY <2>1 DEF NoOp, Moving
  <2> QED BY <2>2, <2>3, <2>4
<1>2. ASSUME NEW o, NextOp(c, o), \A x \in Slug : ~Moving(o, x),
             \A x \in Slug \ raced : WellTold(x) => BoardTells(o, x),
             \A x \in Slug \ raced : WellTold(x) => bucket' = bucket \/ (x \in bucket'.tasks <=> x \in archived)
      PROVE  BoardInv'
  <2>1. Sets(c, o) /\ \A x \in Slug \ raced' : Apart(x)'
    BY <1>1, <1>2, NextOpSets
  <2>2. ASSUME NEW x \in Slug, x \notin raced' PROVE WellTold(x)'
    <3>1. /\ WellTold(x) /\ Apart(x)' /\ OneSteps(c) /\ op'[c] = o /\ x \in Slug \ raced
          /\ (Exists(x) => Exists(x)')
      BY <2>1, <2>2, Survives DEF BoardInv, Sets, OneSteps
    <3>2. CacheTells(x)'
      <4>1. ASSUME NEW d \in Caller, Moving(op[d], x) PROVE Moving(op'[d], x)
        BY <1>1, <3>1, <4>1 DEF OneSteps
      <4> QED BY <1>1, <1>2, <3>1, <4>1 DEF WellTold, CacheTells
    <3>3. BoardTells(o, x)
      BY <1>2, <3>1
    <3>4. BoardTells(op[c], x)'
      BY <1>1, <3>1, <3>3 DEF BoardTells, Exists
    <3> QED BY <1>1, <3>1, <3>2, <3>4, StillTold
  <2> QED BY <2>2 DEF BoardInv
<1>3. CASE Board(c)
  <2> DEFINE o == [name |-> "board", active |-> Unread, archive |-> Unread, step |-> "lookup",
                   there |-> {x \in Slug : Exists(x)}]
  <2>1. NextOp(c, o) /\ bucket' = bucket
    BY <1>3 DEF Board, Begins, Proceeds
  <2>2. \A x \in Slug : ~Moving(o, x) /\ BoardTells(o, x)
    BY DEF Moving, BoardTells
  <2> HIDE DEF o
  <2> QED BY <1>2, <2>1, <2>2
<1>4. CASE BoardReadsActive(c)
  <2> DEFINE found == Found({x \in Slug : record[x] # "none"})
             o == [op[c] EXCEPT !.active = found]
  <2>1. NextOp(c, o) /\ bucket' = bucket /\ op[c] \in BoardOp
    BY <1>1, <1>4, OpByName DEF BoardReadsActive, Proceeds
  <2>2. \A x \in Slug : x \in found.tasks <=> record[x] # "none"
    BY DEF Found
  <2> HIDE DEF found
  <2>3. o.name = "board" /\ o.active = found /\ o.archive = op[c].archive /\ o.there = op[c].there
    BY <2>1 DEF BoardOp
  <2> HIDE DEF o
  <2>4. ASSUME NEW x \in Slug, WellTold(x) PROVE BoardTells(o, x)
    <3>1. BoardTells(op[c], x) /\ op[c].name = "board"
      BY <2>1, <2>4 DEF WellTold, BoardOp
    <3> QED BY <2>2, <2>3, <3>1 DEF BoardTells, Exists
  <2> QED BY <1>2, <2>1, <2>3, <2>4 DEF Moving
<1>5. CASE BoardLooksUp(c)
  <2>1. PICK step : /\ bucket' = bucket /\ op[c] \in BoardOp
                    /\ NextOp(c, [op[c] EXCEPT !.step = step,
                         !.archive = Found(IF bucket # NoBucket THEN bucket.tasks ELSE archived)])
    BY <1>1, <1>5, OpByName DEF BoardLooksUp, Proceeds, At
  <2> DEFINE found == Found(IF bucket # NoBucket THEN bucket.tasks ELSE archived)
             o == [op[c] EXCEPT !.step = step, !.archive = found]
  <2>2. found.tasks = IF bucket # NoBucket THEN bucket.tasks ELSE archived
    BY DEF Found
  <2>3. NextOp(c, o)
    BY <2>1
  <2> HIDE DEF found
  <2>4. o.name = "board" /\ o.archive = found /\ o.active = op[c].active /\ o.there = op[c].there
    BY <2>1 DEF BoardOp
  <2> HIDE DEF o
  <2>5. ASSUME NEW x \in Slug, WellTold(x) PROVE BoardTells(o, x)
    <3>1. BoardTells(op[c], x) /\ op[c].name = "board"
      BY <2>1, <2>5 DEF WellTold, BoardOp
    <3>2. \A d \in Caller : ~Moving(op[d], x)
      BY <2>5, <3>1 DEF WellTold, Apart
    <3>3. bucket # NoBucket => (x \in bucket.tasks <=> x \in archived)
      BY <2>5, <3>2 DEF WellTold, CacheTells
    <3> QED BY <2>2, <2>4, <3>1, <3>3 DEF BoardTells
  <2> QED BY <1>2, <2>1, <2>3, <2>4, <2>5 DEF Moving
<1>6. CASE BoardCaches(c)
  <2> DEFINE o == [op[c] EXCEPT !.step = "done"]
  <2>1. /\ NextOp(c, o) /\ op[c] \in BoardOp /\ op[c].archive # Unread
        /\ bucket' = bucket \/ bucket' = Cached(op[c].archive.tasks)
    BY <1>1, <1>6, OpByName DEF BoardCaches, Goes, Proceeds, At
  <2>2. o.name = "board" /\ o.archive = op[c].archive /\ o.active = op[c].active /\ o.there = op[c].there
    BY <2>1 DEF BoardOp
  <2> HIDE DEF o
  <2>3. ASSUME NEW x \in Slug, WellTold(x)
        PROVE  /\ BoardTells(o, x)
               /\ bucket' = bucket \/ (x \in bucket'.tasks <=> x \in archived)
    <3>1. BoardTells(op[c], x) /\ op[c].name = "board"
      BY <2>1, <2>3 DEF WellTold, BoardOp
    <3> QED BY <2>1, <2>2, <3>1 DEF BoardTells, Cached
  <2> QED BY <1>2, <2>1, <2>2, <2>3 DEF Moving
<1>7. CASE BoardEnds(c)
  <2>1. NextOp(c, NoOp) /\ bucket' = bucket /\ NoOp.name # "board" /\ \A x \in Slug : ~Moving(NoOp, x)
    BY <1>7 DEF BoardEnds, Ends, Proceeds, NoOp, Moving
  <2>2. \A x \in Slug : BoardTells(NoOp, x)
    BY <2>1 DEF BoardTells
  <2> QED BY <1>2, <2>1, <2>2
<1> QED BY <1>3, <1>4, <1>5, <1>6, <1>7

LEMMA BoardsBegin == TrellisInit => BoardInv
<1> SUFFICES ASSUME TrellisInit, NEW x \in Slug PROVE WellTold(x)
  BY DEF BoardInv
<1>1. \A c \in Caller : op[c] = NoOp /\ NoOp.name = "none"
  BY DEF TrellisInit, NoOp
<1> QED BY <1>1 DEF TrellisInit, WellTold, Apart, CacheTells, BoardTells, Moving

LEMMA BoardsGo == TrellisInv /\ BoardInv /\ [TrellisNext]_trellisVars => BoardInv'
<1> SUFFICES ASSUME TrellisInv, BoardInv, [TrellisNext]_trellisVars PROVE BoardInv'
  OBVIOUS
<1>1. CASE UNCHANGED trellisVars
  BY <1>1 DEF BoardInv, WellTold, Apart, CacheTells, BoardTells, Exists, trellisVars
<1>2. CASE TrellisNext
  BY <1>2, OtherSteps, MovingSteps, MoveTold, EndTold, BoardTold DEF TrellisNext
<1> QED BY <1>1, <1>2

LEMMA BoardsHold == TrellisSpec => []BoardInv
<1> QED BY TrellisHolds, BoardsBegin, BoardsGo, PTL DEF TrellisSpec

\* A board is over only when it has answered.
LEMMA BoardGone ==
  ASSUME TrellisTyped, TrellisNext, NEW c \in Caller, op[c].name = "board", op'[c] = NoOp
  PROVE  BoardEnds(c)
<1>1. op[c] # NoOp /\ op'[c] # op[c] /\ NoOp.name # "board"
  BY DEF NoOp
<1>2. op = [d \in Caller |-> op[d]] /\ op[c] \in BoardOp
  BY OpByName DEF TrellisTyped
<1>3. ASSUME NEW d \in Caller, d # c, NEW o, op' = [op EXCEPT ![d] = o] PROVE FALSE
  BY <1>1, <1>2, <1>3
<1>4. ASSUME NEW d \in Caller, d # c,
             \/ \E s \in TaskSession :
                  \/ \E x \in Slug : Bind(d, s, x) \/ \E st \in Status : Create(d, s, x, st)
                  \/ Bind(d, s, NoTask)
                  \/ \E x \in Slug \cup {NoTask}, st \in Status \cup {"keep"} : Update(d, s, x, st)
                  \/ ArchiveReadsPointer(d, s)
             \/ \E x \in Slug : Archive(d, x)
      PROVE  FALSE
  BY <1>3, <1>4 DEF Bind, Create, Update, Archive, ArchiveReadsPointer, Begins, Proceeds, NextOp
<1>5. ASSUME NEW d \in Caller, d # c,
             \/ CreateStats(d) \/ CreateWrites(d) \/ Points(d) \/ WriteFails(d)
             \/ UpdateFinds(d) \/ UpdateReads(d) \/ UpdateWrites(d)
             \/ ArchiveReads(d) \/ ArchiveMoveFails(d) \/ ArchiveMoves(d) \/ Aborted(d)
             \/ ArchiveLists(d) \/ ArchiveUnbinds(d) \/ ArchiveEnds(d) \/ BindStats(d)
      PROVE  FALSE
  BY <1>3, <1>5 DEF CreateStats, CreateWrites, Points, WriteFails, UpdateFinds, Finds, UpdateReads,
     UpdateWrites, ArchiveReads, ArchiveMoveFails, ArchiveMoves, Aborted, ArchiveLists,
     ArchiveUnbinds, ArchiveEnds, BindStats, Ends, Goes, Proceeds, NextOp
<1>6. ASSUME NEW d \in Caller, d # c,
             Board(d) \/ BoardReadsActive(d) \/ BoardLooksUp(d) \/ BoardCaches(d) \/ BoardEnds(d)
      PROVE  FALSE
  BY <1>3, <1>6 DEF Board, BoardReadsActive, BoardLooksUp, BoardCaches, BoardEnds, Begins, Ends,
     Goes, Proceeds, NextOp
<1>7. ASSUME BoardReadsActive(c) \/ BoardLooksUp(c) \/ BoardCaches(c) PROVE FALSE
  <2>1. op'[c].name = op[c].name
    BY <1>2, <1>7 DEF BoardReadsActive, BoardLooksUp, BoardCaches, Goes, Proceeds, NextOp, BoardOp
  <2> QED BY <1>1, <2>1
<1>8. ASSUME \/ \E s \in TaskSession :
                  \/ \E x \in Slug : Bind(c, s, x) \/ \E st \in Status : Create(c, s, x, st)
                  \/ Bind(c, s, NoTask)
                  \/ \E x \in Slug \cup {NoTask}, st \in Status \cup {"keep"} : Update(c, s, x, st)
             \/ \E x \in Slug : Archive(c, x)
             \/ Board(c)
      PROVE  FALSE
  BY <1>1, <1>8 DEF Bind, Create, Update, Archive, Board, Begins
<1>9. ASSUME \/ CreateStats(c) \/ CreateWrites(c) \/ Points(c) \/ WriteFails(c)
             \/ UpdateFinds(c) \/ UpdateReads(c) \/ UpdateWrites(c)
             \/ ArchiveReads(c) \/ ArchiveMoveFails(c) \/ ArchiveMoves(c) \/ Aborted(c)
             \/ ArchiveLists(c) \/ ArchiveUnbinds(c) \/ ArchiveEnds(c) \/ BindStats(c)
             \/ \E s \in TaskSession : ArchiveReadsPointer(c, s)
      PROVE  FALSE
  BY <1>9 DEF CreateStats, CreateWrites, Points, WriteFails, UpdateFinds, UpdateReads,
     UpdateWrites, ArchiveReads, ArchiveMoveFails, ArchiveMoves, Aborted, ArchiveLists,
     ArchiveReadsPointer, ArchiveUnbinds, ArchiveEnds, BindStats, At
<1> QED BY <1>4, <1>5, <1>6, <1>7, <1>8, <1>9 DEF TrellisNext

\* A board shows every task that was there when it was asked for, in the tree
\* where it is, from a fresh read or from the cache, whatever creations, updates,
\* bindings, other boards and archivings of other tasks run beside it.  A task
\* that moved to the archive while a board was being built is excepted.
THEOREM BoardsShowAll == TrellisSpec => BoardShowsAll
<1> DEFINE Shows(c) == \A x \in op[c].there \ raced :
             IF x \in archived THEN x \in op[c].archive.tasks
             ELSE x \in op[c].active.tasks \ op[c].archive.tasks
<1>1. ASSUME TrellisInv, BoardInv, [TrellisNext]_trellisVars
      PROVE  [\A c \in Caller : op[c].name = "board" /\ op'[c] = NoOp => Shows(c)]_trellisVars
  <2> SUFFICES ASSUME TrellisNext, NEW c \in Caller, op[c].name = "board", op'[c] = NoOp,
                      NEW x \in op[c].there \ raced
               PROVE  IF x \in archived THEN x \in op[c].archive.tasks
                      ELSE x \in op[c].active.tasks \ op[c].archive.tasks
    BY <1>1
  <2>1. op[c] \in BoardOp /\ x \in Slug
    BY <1>1, OpByName DEF TrellisInv, TrellisTyped, BoardOp
  <2>2. op[c].active # Unread /\ op[c].archive # Unread
    <3>1. BoardEnds(c)
      BY <1>1, BoardGone DEF TrellisInv
    <3> QED BY <1>1, <3>1, OpByName DEF BoardEnds, At, TrellisInv, TrellisTyped
  <2>3. BoardTells(op[c], x)
    BY <1>1, <2>1 DEF BoardInv, WellTold
  <2> QED BY <2>2, <2>3 DEF BoardTells
<1> QED BY <1>1, TrellisHolds, BoardsHold, PTL DEF TrellisSpec, BoardShowsAll

-----------------------------------------------------------------------------
(* The parts side by side                                                    *)

\* Each part takes its own steps or none.
LEMMA PartsOfWorkspace == WorkspaceSpec => TrellisSpec /\ TerminalSpec /\ LayoutSpec /\ GitSpec
<1>1. WorkspaceInit => TrellisInit /\ TerminalInit /\ LayoutInit /\ GitInit
  BY DEF WorkspaceInit
<1>2. [WorkspaceNext]_workspaceVars => /\ [TrellisNext]_trellisVars
                                      /\ [TerminalNext]_terminalVars
                                      /\ [LayoutNext]_layoutVars
                                      /\ [GitNext]_gitVars
  BY DEF WorkspaceNext, workspaceVars
<1> QED BY <1>1, <1>2, PTL DEF WorkspaceSpec, TrellisSpec, TerminalSpec, LayoutSpec, GitSpec

\* The books of every part agree with each other, whatever part is at work: the
\* archived tasks, the shells of the host, the Git view and the layout.
THEOREM WorkspaceAgrees == WorkspaceSpec => []WorkspaceConsistent
<1>1. /\ TrellisTypeOK /\ ArchivedIsClosed
      /\ TerminalTypeOK /\ NoneAfterTeardown /\ LimitHolds
      /\ GitTypeOK
      /\ LayoutTypeOK /\ NodesDistinct /\ NamedTabsOnce /\ NarrowShowsAll
      => WorkspaceConsistent
  BY DEF WorkspaceConsistent
<1> QED BY <1>1, PartsOfWorkspace, TrellisTypes, ArchivesClose, TerminalTypes, NothingAfterTeardown,
           LimitIsKept, GitTypes, LayoutTypes, NodesStayDistinct, NamedTabsStayOnce, NarrowKeepsAll, PTL
===============================================================================
