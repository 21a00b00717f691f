---------------------------- MODULE SidebarLayout ----------------------------
(***************************************************************************)
(* The layout of one conversation's sidebar (dsh-better-sidebar,           *)
(* client/state.ts and the actions of client/Sidebar.tsx and service.ts):  *)
(* two trees of panes, free windows, the pane that receives new tabs, and  *)
(* the counter all pane, split, window and side-opened tab ids come from.  *)
(* Reducers are pure and run one at a time; what makes them hard is that   *)
(* every one of them must keep the trees, the windows and the counter in   *)
(* step across reloads and switches of the conversation.                   *)
(* Sizes, directions, titles and geometry are left out.                    *)
(***************************************************************************)
EXTENDS Naturals, Sequences, FiniteSets, SequencesExt

CONSTANTS
  File,       \* files that editors open
  Diff,       \* changes that diff tabs show
  Agent,      \* terminals the model may create
  MaxId,      \* bound: ids minted by the counter
  MaxTabs,    \* bound: open tabs
  MaxPanes,   \* bound: panes in the two trees
  MaxEdits    \* bound: operations on the layout

ASSUME LayoutAssumption ==
  /\ "home" \notin File /\ IsFiniteSet(Agent)
  /\ {MaxId, MaxTabs, MaxPanes, MaxEdits} \subseteq Nat /\ MaxId >= 3

VARIABLES
  right,      \* splits: the tree of the right panel
  bottom,     \* bottomSplits: the tree of the bottom panel
  floats,     \* free windows, the last one on top
  activePane, \* the pane that receives new tabs
  counter,    \* nextIdCounter, shared by every conversation of the page
  gitChecked, \* gitDefaultsChecked
  panelOpen, bottomOpen,
  narrow,     \* the viewport is narrow: the bottom panel is not shown
  merged,     \* the effect that throws the bottom tabs into the right tree ran
  edits       \* operations so far (bounds the model, not in the code)

layoutVars == <<right, bottom, floats, activePane, counter, gitChecked,
                panelOpen, bottomOpen, narrow, merged, edits>>

None == <<"none", 0>>
Home == <<"editor", "home">>

\* A tab: its id, its type and the file, change or terminal it shows.
TabOf(id, kind, of) == [id |-> id, kind |-> kind, of |-> of]
FileTab(f) == TabOf(<<"editor", f>>, "editor", f)
HomeTab(id) == TabOf(id, "editor", "home")
GitTab == TabOf(<<"git", 0>>, "git", "git")
DiffTab(d) == TabOf(<<"diff", d>>, "diff", d)
AgentTab(a) == TabOf(<<"agent", a>>, "terminal", a)

Leaf(id, tabs, active) == [id |-> id, tabs |-> tabs, active |-> active]

-----------------------------------------------------------------------------
(* Trees                                                                   *)

\* A tree: its leaves from first to last and, between each two neighbours, the
\* split that has one on either side, with the number of splits around it.
Tree(panes, splits) == [panes |-> panes, splits |-> splits]
Single(leaf) == Tree(<<leaf>>, <<>>)

\* The entries of a sequence at some of its indexes, in their order.
Only(s, I) ==
  LET f[n \in 0..Len(s)] == IF n = 0 THEN <<>> ELSE IF n \in I THEN Append(f[n - 1], s[n]) ELSE f[n - 1]
  IN f[Len(s)]

Ids(tabs) == {tabs[i].id : i \in DOMAIN tabs}
IdsOf(nodes) == [i \in DOMAIN nodes |-> nodes[i].id]
NodeIds(tree) == IdsOf(tree.panes) \o IdsOf(tree.splits)
Panes(tree) == ToSet(IdsOf(tree.panes))
IndexOf(tree, pane) == CHOOSE i \in DOMAIN tree.panes : tree.panes[i].id = pane
LeafAt(tree, pane) == tree.panes[IndexOf(tree, pane)]
FirstLeaf(tree) == tree.panes[1]
TabsIn(tree) == FlattenSeq([i \in DOMAIN tree.panes |-> tree.panes[i].tabs])
TabIds(tree) == UNION {Ids(tree.panes[i].tabs) : i \in DOMAIN tree.panes}
FloatTabs == [i \in DOMAIN floats |-> floats[i].tab]
OpenTabs == TabsIn(right) \o TabsIn(bottom) \o FloatTabs

\* Replace the leaf with the given id; a tree without it is returned as it is.
MapLeaf(tree, pane, by) ==
  Tree([i \in DOMAIN tree.panes |-> IF tree.panes[i].id = pane THEN by ELSE tree.panes[i]],
       tree.splits)

\* The splits next to leaf i, the innermost of which is its parent, and the
\* splits of the subtree of split j on either side of it.
Beside(tree, i) == {i - 1, i} \cap DOMAIN tree.splits
Parent(tree, i) ==
  CHOOSE j \in Beside(tree, i) : \A k \in Beside(tree, i) : tree.splits[k].depth <= tree.splits[j].depth
Under(tree, j) ==
  {k \in DOMAIN tree.splits \ {j} : \A m \in (k..j) \cup (j..k) :
                                    m # j => tree.splits[m].depth > tree.splits[j].depth}

\* Remove a leaf: its sibling takes the place of their split; the last leaf of
\* a tree stays, empty.
RemoveLeafAt(tree, pane) ==
  LET i == IndexOf(tree, pane)
      j == Parent(tree, i)
      lifted == [k \in DOMAIN tree.splits |->
                   IF k \in Under(tree, j) THEN [tree.splits[k] EXCEPT !.depth = @ - 1] ELSE tree.splits[k]]
  IN IF pane \notin Panes(tree) THEN tree
     ELSE IF Len(tree.panes) = 1 THEN Single(Leaf(pane, <<>>, None))
     ELSE Tree(RemoveAt(tree.panes, i), RemoveAt(lifted, j))

\* Split a leaf: a fresh one joins it, before or after it.
SplitLeafAt(tree, pane, fresh, id, front) ==
  LET i == IndexOf(tree, pane)
      depths == {tree.splits[j].depth + 1 : j \in Beside(tree, i)}
  IN Tree(InsertAt(tree.panes, IF front THEN i ELSE i + 1, fresh),
          InsertAt(tree.splits, i, [id |-> id, depth |-> Max(depths \cup {0})]))

\* The tree that owns a pane: the bottom one, else the right one.
InBottom(pane) == pane \in ToSet(NodeIds(bottom))
TreeOf(pane) == IF InBottom(pane) THEN bottom ELSE right
SetTree(inBottom, tree) ==
  /\ bottom' = IF inBottom THEN tree ELSE bottom
  /\ right' = IF inBottom THEN right ELSE tree

\* The first leaf, and the first tab of a sequence, with a tab id.
LeafWithTab(tree, id) ==
  tree.panes[Min({i \in DOMAIN tree.panes : id \in Ids(tree.panes[i].tabs)})]
PaneOfTab(id) == IF id \in TabIds(right) THEN LeafWithTab(right, id) ELSE LeafWithTab(bottom, id)
TabWith(tabs, id) == tabs[Min({i \in DOMAIN tabs : tabs[i].id = id})]
Docked(id) == id \in TabIds(right) \cup TabIds(bottom)
Floating(id) == id \in Ids(FloatTabs)

\* The panes the user can see, and the tabs at hand.
Shown == (IF panelOpen THEN Panes(right) ELSE {})
         \cup (IF bottomOpen /\ ~narrow THEN Panes(bottom) ELSE {})
AtHand(id) == Floating(id) \/ (Docked(id) /\ PaneOfTab(id).id \in Shown)

-----------------------------------------------------------------------------
(* Panes gain and lose tabs                                                *)

Without(tabs, id) == Only(tabs, {i \in DOMAIN tabs : tabs[i].id # id})
LastId(tabs) == IF tabs = <<>> THEN None ELSE tabs[Len(tabs)].id

Refocus(active, id, rest) == IF active = id THEN LastId(rest) ELSE active

\* A leaf that loses a tab; an emptied leaf collapses (unless it is the only one).
TakeOut(tree, pane, id) ==
  LET leaf == LeafAt(tree, pane)
      rest == Without(leaf.tabs, id)
  IN IF pane \notin Panes(tree) THEN tree
     ELSE IF rest = <<>> THEN RemoveLeafAt(tree, pane)
     ELSE MapLeaf(tree, pane, Leaf(pane, rest, Refocus(leaf.active, id, rest)))

\* A leaf that gains a tab at an index and shows it; a missing leaf gains nothing.
PutAt(tree, pane, tab, index) ==
  IF pane \notin Panes(tree) THEN tree
  ELSE LET leaf == LeafAt(tree, pane)
           at == IF index \in 0..Len(leaf.tabs) THEN index ELSE Len(leaf.tabs)
       IN MapLeaf(tree, pane, Leaf(pane, InsertAt(leaf.tabs, at + 1, tab), tab.id))
Append1(tree, pane, tab) == PutAt(tree, pane, tab, Len(OpenTabs) + 1)

\* insertLeafAt: a fresh leaf beside a pane; mints the leaf, then the split.
InsertLeafAt(tree, pane, tab, front) ==
  IF pane \notin Panes(tree) THEN tree
  ELSE SplitLeafAt(tree, pane, Leaf(<<"pane", counter + 1>>, <<tab>>, tab.id),
                   <<"split", counter + 2>>, front)
Minted(tree, pane) == IF pane \in Panes(tree) THEN 2 ELSE 1

\* The first window of a tab, and the window raised to the top.
WindowOf(id) == floats[Min({i \in DOMAIN floats : floats[i].tab.id = id})].id
Raised(window) ==
  LET i == Min({k \in DOMAIN floats : floats[k].id = window})
  IN Append(RemoveAt(floats, i), floats[i])

-----------------------------------------------------------------------------
(* Opening                                                                 *)

\* A pane id that no longer exists must not swallow the open.
LandingPane(pane) ==
  IF pane \in Panes(right) \cup Panes(bottom) THEN pane ELSE FirstLeaf(right).id

\* A tab with this id, or an editor of the same file, is focused, not opened again.
Alike(tab) == {i \in DOMAIN OpenTabs :
  \/ /\ OpenTabs[i].kind = "editor" /\ tab.kind = "editor"
     /\ tab.of # "home" /\ OpenTabs[i].of = tab.of
  \/ OpenTabs[i].id = tab.id}
SameAs(tab) == OpenTabs[Min(Alike(tab))].id

Activate(id) ==
  LET leaf == PaneOfTab(id)
  IN /\ SetTree(InBottom(leaf.id), MapLeaf(TreeOf(leaf.id), leaf.id,
                                           [leaf EXCEPT !.active = id]))
     /\ activePane' = leaf.id

\* openTabInActivePane after the descriptor's dedupe.
Land(tab) ==
  LET pane == LandingPane(activePane)
  IN IF Alike(tab) = {}
       THEN /\ Len(OpenTabs) < MaxTabs
            /\ SetTree(InBottom(pane), Append1(TreeOf(pane), pane, tab))
            /\ activePane' = pane
            /\ UNCHANGED floats
     ELSE IF Docked(SameAs(tab))
       THEN Activate(SameAs(tab)) /\ UNCHANGED floats
     ELSE /\ floats' = Raised(WindowOf(SameAs(tab)))
          /\ UNCHANGED <<right, bottom, activePane>>

\* Mutation: the right panel.
InSightRight(tab) == panelOpen' = TRUE /\ UNCHANGED bottomOpen

\* A content open that lands in a pane expands the panel hosting the pane.
InSight(tab) ==
  LET inFloat == Alike(tab) # {} /\ Floating(SameAs(tab))
      hidden == activePane' \in ToSet(NodeIds(bottom'))
  IN /\ panelOpen' = (panelOpen \/ (~inFloat /\ (narrow \/ ~hidden)))
     /\ bottomOpen' = (bottomOpen \/ (~inFloat /\ ~narrow /\ hidden))

OpenFile(f) ==
  /\ Land(FileTab(f))
  /\ InSight(FileTab(f))
  /\ UNCHANGED <<counter, gitChecked, narrow, merged>>

\* The + menu opens types, which never expands a panel.
OpenType(tab) ==
  /\ Land(tab)
  /\ UNCHANGED <<counter, gitChecked, panelOpen, bottomOpen, narrow, merged>>

RoomFor(k) ==
  /\ Len(OpenTabs) <= MaxTabs
  /\ counter + k <= MaxId
  /\ Cardinality(Panes(right)) + Cardinality(Panes(bottom)) < MaxPanes

\* "Open to the side" in the editor tab `id`: the new pane always joins the
\* right tree, because treeOf is asked about a tab id, which is no node's id.
OpenFileSide(id, f) ==
  LET pane == IF id \in TabIds(right) THEN LeafWithTab(right, id).id ELSE FirstLeaf(right).id
      tab == TabOf(<<"tab", counter + 1>>, "editor", f)
      fresh == Leaf(<<"pane", counter + 2>>, <<tab>>, tab.id)
  IN /\ RoomFor(3) /\ Len(OpenTabs) < MaxTabs
     /\ AtHand(id)
     /\ \E i \in DOMAIN OpenTabs : OpenTabs[i].id = id /\ OpenTabs[i].kind = "editor"
     /\ right' = SplitLeafAt(right, pane, fresh, <<"split", counter + 3>>, FALSE)
     /\ activePane' = fresh.id
     /\ counter' = counter + 3
     /\ UNCHANGED <<bottom, floats, gitChecked, panelOpen, bottomOpen, narrow, merged>>

\* A change clicked in the Git view: only the right tree is searched for it.
OpenDiff(d) ==
  LET tab == DiffTab(d)
      diffs == {i \in DOMAIN right.panes : \E t \in ToSet(right.panes[i].tabs) : t.kind = "diff"}
      pane == right.panes[Min(diffs)].id
      source == IF Docked(GitTab.id) THEN PaneOfTab(GitTab.id).id ELSE None
  IN /\ AtHand(GitTab.id)
     /\ IF tab.id \in TabIds(right)
          THEN Activate(tab.id) /\ UNCHANGED <<floats, counter>>
        ELSE IF diffs # {}
          THEN /\ Len(OpenTabs) < MaxTabs
               /\ right' = Append1(right, pane, tab)
               /\ activePane' = pane
               /\ UNCHANGED <<bottom, floats, counter>>
        ELSE IF source \notin Panes(right)
          THEN Land(tab) /\ UNCHANGED counter
        ELSE /\ RoomFor(2) /\ Len(OpenTabs) < MaxTabs
             /\ right' = InsertLeafAt(right, source, tab, FALSE)
             /\ activePane' = <<"pane", counter + 1>>
             /\ counter' = counter + 2
             /\ UNCHANGED <<bottom, floats>>
     /\ UNCHANGED <<gitChecked, panelOpen, bottomOpen, narrow, merged>>

-----------------------------------------------------------------------------
(* Closing, activating, moving                                             *)

Same == UNCHANGED <<gitChecked, panelOpen, bottomOpen, narrow, merged>>

\* A floating tab closes with its window(s); a docked one leaves its pane.
CloseTab(id) ==
  /\ AtHand(id)
  /\ IF Floating(id)
       THEN /\ floats' = Only(floats, {i \in DOMAIN floats : floats[i].tab.id # id})
            /\ UNCHANGED <<right, bottom>>
       ELSE LET pane == PaneOfTab(id).id
            IN SetTree(InBottom(pane), TakeOut(TreeOf(pane), pane, id)) /\ UNCHANGED floats
  /\ UNCHANGED <<activePane, counter>>
  /\ Same

ActivateTab(id) ==
  /\ AtHand(id) /\ ~Floating(id)
  /\ Activate(id)
  /\ UNCHANGED <<floats, counter>>
  /\ Same

\* A floating tab activates by raising its window.
RaiseFloat(id) ==
  /\ Floating(id)
  /\ floats' = Raised(WindowOf(id))
  /\ UNCHANGED <<right, bottom, activePane, counter>>
  /\ Same

FocusPane(pane) ==
  /\ pane \in Shown
  /\ activePane' = pane
  /\ UNCHANGED <<right, bottom, floats, counter>>
  /\ Same

\* The tree without the dragged tab, and both trees once `place` puts it down.
Moved(from, to, id, Place(_)) ==
  LET taken == TakeOut(TreeOf(from), from, id)
  IN IF InBottom(from) = InBottom(to)
       THEN SetTree(InBottom(to), Place(taken))
       ELSE /\ bottom' = IF InBottom(to) THEN Place(bottom) ELSE taken
            /\ right' = IF InBottom(to) THEN taken ELSE Place(right)

\* A tab dropped on the centre of a pane, or before another tab of it.
MoveTab(from, id, to, index) ==
  /\ LET tab == TabWith(LeafAt(TreeOf(from), from).tabs, id)
         Place(tree) == PutAt(tree, to, tab, index)
     IN Moved(from, to, id, Place)
  /\ activePane' = to
  /\ UNCHANGED <<floats, counter>>
  /\ Same

DropOnCentre(from, id, to) ==
  /\ {from, to} \subseteq Shown
  /\ id \in Ids(LeafAt(TreeOf(from), from).tabs)
  /\ MoveTab(from, id, to, Len(OpenTabs) + 1)

\* The index is looked up in the right tree only: elsewhere the tab is appended.
DropBefore(from, id, to, before) ==
  LET found == Min({i \in DOMAIN LeafAt(TreeOf(to), to).tabs : LeafAt(TreeOf(to), to).tabs[i].id = before})
      index == IF to \in Panes(right) THEN found - 1 ELSE Len(OpenTabs) + 1
  IN /\ {from, to} \subseteq Shown
     /\ id \in Ids(LeafAt(TreeOf(from), from).tabs)
     /\ before \in Ids(LeafAt(TreeOf(to), to).tabs)
     /\ MoveTab(from, id, to, index)

\* A tab dropped on an edge of a pane splits it.
DropOnEdge(from, id, to, front) ==
  /\ {from, to} \subseteq Shown
  /\ id \in Ids(LeafAt(TreeOf(from), from).tabs)
  /\ RoomFor(2)
  /\ LET tab == TabWith(LeafAt(TreeOf(from), from).tabs, id)
         Place(tree) == InsertLeafAt(tree, to, tab, front)
         target == IF InBottom(from) = InBottom(to) THEN TakeOut(TreeOf(from), from, id) ELSE TreeOf(to)
     IN /\ Moved(from, to, id, Place)
        /\ counter' = counter + Minted(target, to)
  /\ activePane' = <<"pane", counter + 1>>
  /\ UNCHANGED floats
  /\ Same

-----------------------------------------------------------------------------
(* Free windows                                                            *)

FloatTab(id) ==
  /\ Docked(id) /\ AtHand(id)
  /\ counter < MaxId
  /\ LET pane == PaneOfTab(id)
         key == InBottom(pane.id)
         emptied == Without(pane.tabs, id) = <<>>
     IN /\ SetTree(key, TakeOut(TreeOf(pane.id), pane.id, id))
        /\ floats' = Append(floats, [id |-> <<"float", counter + 1>>,
                                     tab |-> TabWith(pane.tabs, id)])
        /\ activePane' = IF emptied /\ activePane = pane.id THEN FirstLeaf(right').id ELSE activePane
  /\ counter' = counter + 1
  /\ Same

\* Docking takes the first window with the id, and drops every window with it.
DockFloat(window, pane) ==
  LET first == Min({i \in DOMAIN floats : floats[i].id = window})
      to == LandingPane(pane)
  IN /\ pane \in Shown \cup {activePane}
     /\ floats' = Only(floats, {i \in DOMAIN floats : floats[i].id # window})
     /\ SetTree(InBottom(to), Append1(TreeOf(to), to, floats[first].tab))
     /\ activePane' = to
     /\ UNCHANGED counter
     /\ Same

-----------------------------------------------------------------------------
(* The panels and the viewport                                             *)

TogglePanel ==
  /\ panelOpen' = ~panelOpen
  /\ UNCHANGED <<right, bottom, floats, activePane, counter, gitChecked, bottomOpen,
                 narrow, merged>>

ToggleBottom ==
  /\ ~narrow
  /\ bottomOpen' = ~bottomOpen
  /\ UNCHANGED <<right, bottom, floats, activePane, counter, gitChecked, panelOpen,
                 narrow, merged>>

Resize ==
  /\ narrow' = ~narrow
  /\ merged' = FALSE
  /\ UNCHANGED <<right, bottom, floats, activePane, counter, gitChecked, panelOpen,
                 bottomOpen>>

ClearAllTabs(tree) ==
  Tree([i \in DOMAIN tree.panes |-> Leaf(tree.panes[i].id, <<>>, None)], tree.splits)

\* The bottom tree has something to throw into the drawer of a narrow viewport.
NeedsMerge == TabsIn(bottom) # <<>> \/ bottomOpen \/ InBottom(activePane)

\* migrateBottomTabs: one effect per mount, per conversation and per resize.
Migrate ==
  LET target == FirstLeaf(right)
  IN /\ narrow /\ ~merged
     /\ merged' = TRUE
     /\ IF NeedsMerge
          THEN /\ right' = MapLeaf(right, target.id,
                             [target EXCEPT !.tabs = @ \o TabsIn(bottom)])
               /\ bottom' = IF TabsIn(bottom) = <<>> THEN bottom ELSE ClearAllTabs(bottom)
               /\ activePane' = target.id
               /\ bottomOpen' = FALSE
          ELSE UNCHANGED <<right, bottom, activePane, bottomOpen>>
     /\ UNCHANGED <<floats, counter, gitChecked, panelOpen, narrow>>

-----------------------------------------------------------------------------
(* Pushes and answers from the host                                        *)

IsHome(tab) == tab.kind = "editor" /\ tab.of = "home"

\* initializeGitDefaultTabs: Files and Source Control, once per conversation.
GitDefaults(hasGit) ==
  LET homes == {i \in DOMAIN OpenTabs : IsHome(OpenTabs[i])}
      files == OpenTabs[Min(homes)].id
      dockedHome == homes # {} /\ Docked(files)
      pane == IF dockedHome THEN PaneOfTab(files).id ELSE LandingPane(activePane)
      leaf == LeafAt(TreeOf(pane), pane)
      home == IF homes = {} THEN <<HomeTab(Home)>> ELSE <<>>
      editor == IF dockedHome THEN files ELSE LastId(home)
      git == IF GitTab.id \in Ids(OpenTabs) THEN <<>> ELSE <<GitTab>>
      grown == leaf.tabs \o home
      shown == {i \in DOMAIN grown : grown[i].id = editor}
      tabs == IF git = <<>> THEN grown
              ELSE IF shown = {} THEN grown \o git ELSE InsertAt(grown, Min(shown) + 1, GitTab)
      active == IF shown # {} THEN editor
                ELSE IF leaf.active = None /\ git # <<>> THEN GitTab.id ELSE leaf.active
      settled == home \o git = <<>>
                 /\ (~dockedHome \/ (leaf.active = editor /\ activePane = pane))
  IN /\ ~gitChecked
     /\ Len(OpenTabs) < MaxTabs
     /\ gitChecked' = TRUE
     /\ IF hasGit /\ ~settled
          THEN /\ SetTree(InBottom(pane), MapLeaf(TreeOf(pane), pane, Leaf(pane, tabs, active)))
               /\ activePane' = pane
          ELSE UNCHANGED <<right, bottom, activePane>>
     /\ UNCHANGED <<floats, counter, panelOpen, bottomOpen, narrow, merged>>

AgentTabs(tabs) == Only(tabs, {i \in DOMAIN tabs : tabs[i].kind = "terminal"})
Vanished(terminals) ==
  LET tabs == AgentTabs(OpenTabs)
  IN Only(tabs, {i \in DOMAIN tabs : tabs[i].of \notin terminals})

\* Mutation: only the windows are searched.
DroppedNone(tree, gone) == tree

\* Vanished terminals lose their tab in the right tree and in the windows.
Dropped(tree, gone) ==
  LET f[n \in 0..Len(gone)] ==
        IF n = 0 THEN tree
        ELSE IF gone[n].id \in TabIds(f[n - 1])
          THEN TakeOut(f[n - 1], LeafWithTab(f[n - 1], gone[n].id).id, gone[n].id)
        ELSE f[n - 1]
  IN f[Len(gone)]

\* reconcileAgentTerminals: the tabs follow the list of the model's terminals
\* that the host pushed. The tabs
\* to add land in the pane in use, the first one of the right tree if it is gone.
Reconcile(terminals) ==
  LET gone == Vanished(terminals)
      fresh == SetToSeq({AgentTab(a) : a \in {b \in terminals : AgentTab(b).id \notin Ids(OpenTabs)}})
      tree == Dropped(right, gone)
      pane == IF activePane \in Panes(tree) \cup Panes(bottom) THEN activePane
              ELSE FirstLeaf(tree).id
      Add(t) == MapLeaf(t, pane, Leaf(pane, LeafAt(t, pane).tabs \o fresh, LastId(fresh)))
      adds == fresh # <<>>
  IN /\ gone # <<>> \/ adds
     /\ Len(OpenTabs) + Len(fresh) <= MaxTabs
     /\ right' = IF adds /\ pane \in Panes(tree) THEN Add(tree) ELSE tree
     /\ bottom' = IF adds /\ pane \in Panes(bottom) THEN Add(bottom) ELSE bottom
     /\ floats' = Only(floats, {i \in DOMAIN floats : floats[i].tab.id \notin Ids(gone)})
     /\ activePane' = IF adds THEN pane ELSE activePane
     /\ UNCHANGED counter
     /\ Same

-----------------------------------------------------------------------------
(* Reload and change of conversation                                       *)

\* maxCounterId: the largest number of a pane, split or docked tab id. The
\* ids of free windows are walked too, but their prefix is not recognised.
Counted == {i \in ToSet(NodeIds(right) \o NodeIds(bottom)) \cup TabIds(right) \cup TabIds(bottom) :
              i[1] \in {"pane", "split", "tab"}}
MaxCounterId == Max({i[2] : i \in Counted})

\* The user comes back from another conversation of the page: the counter,
\* wherever that one left it, is seeded from this layout.
Revisit ==
  /\ counter' = MaxCounterId
  /\ merged' = FALSE
  /\ UNCHANGED <<right, bottom, floats, activePane, gitChecked, panelOpen,
                 bottomOpen, narrow>>

Kept(tabs) == Only(tabs, {i \in DOMAIN tabs : tabs[i].kind # "diff"})

\* Mutation: a dropped diff tab is not forgiven.
SoundStrict(leaf) ==
  leaf.active = None \/ leaf.active \in Ids(Kept(leaf.tabs))

\* sanitizeNode: an active tab that is not in its leaf is corruption, unless
\* the leaf has just lost a diff tab.
SoundLeaf(leaf) ==
  leaf.active = None \/ leaf.active \in Ids(Kept(leaf.tabs)) \/ Kept(leaf.tabs) # leaf.tabs

Sanitized(tree) ==
  LET Clean(l) == Leaf(l.id, Kept(l.tabs), IF l.active \in Ids(Kept(l.tabs)) THEN l.active ELSE None)
  IN Tree([i \in DOMAIN tree.panes |-> Clean(tree.panes[i])], tree.splits)

\* The leaves of a tree that are not wanted are removed, from first to last.
RemoveLeaves(tree, unwanted) ==
  LET f[n \in 0..Len(tree.panes)] ==
        IF n = 0 THEN tree
        ELSE IF n \in unwanted THEN RemoveLeafAt(f[n - 1], tree.panes[n].id)
        ELSE f[n - 1]
  IN f[Len(tree.panes)]

\* Mutation: a pane that shows no tab counts as empty.
PruneUnfocused(tree) ==
  IF TabIds(tree) = {} THEN tree
  ELSE RemoveLeaves(tree, {i \in DOMAIN tree.panes : tree.panes[i].active = None})

PruneEmptyPanes(tree) ==
  IF TabIds(tree) = {} THEN tree
  ELSE RemoveLeaves(tree, {i \in DOMAIN tree.panes : tree.panes[i].tabs = <<>>})

\* Windows of diffs go, and so does a window whose id an earlier one has.
KeptFloats == Only(floats, {i \in DOMAIN floats :
  /\ floats[i].tab.kind # "diff"
  /\ \A j \in 1..(i - 1) : floats[j].tab.kind # "diff" => floats[j].id # floats[i].id})

Restorable == \A l \in ToSet(right.panes) : SoundLeaf(l)
RestorableBottom == \A l \in ToSet(bottom.panes) : SoundLeaf(l)

\* A page reload with every change persisted (the debounce is 200 ms): diff
\* tabs go, emptied panes collapse, a corrupt right tree resets the layout.
Reload ==
  LET n == MaxCounterId
      tree == PruneEmptyPanes(Sanitized(right))
      below == IF RestorableBottom THEN PruneEmptyPanes(Sanitized(bottom))
               ELSE Single(Leaf(<<"pane", n + 1>>, <<>>, None))
  IN /\ n + 3 <= MaxId
     /\ merged' = FALSE
     /\ IF Restorable
          THEN /\ right' = tree
               /\ bottom' = below
               /\ floats' = KeptFloats
               /\ activePane' = IF activePane \in ToSet(NodeIds(tree) \o NodeIds(below))
                                  THEN activePane ELSE FirstLeaf(tree).id
               /\ counter' = IF RestorableBottom THEN n ELSE n + 1
               /\ UNCHANGED <<gitChecked, panelOpen, bottomOpen>>
          ELSE /\ right' = Single(Leaf(<<"pane", n + 1>>, <<HomeTab(<<"tab", n + 2>>)>>, <<"tab", n + 2>>))
               /\ bottom' = Single(Leaf(<<"pane", n + 3>>, <<>>, None))
               /\ floats' = <<>>
               /\ activePane' = <<"pane", n + 1>>
               /\ counter' = n + 3
               /\ gitChecked' = FALSE
               /\ panelOpen' = ~narrow
               /\ bottomOpen' = FALSE
     /\ UNCHANGED narrow

-----------------------------------------------------------------------------
\* makeDefaultState: a new conversation opens the files window.
LayoutInit ==
  /\ right = Single(Leaf(<<"pane", 1>>, <<HomeTab(<<"tab", 2>>)>>, <<"tab", 2>>))
  /\ bottom = Single(Leaf(<<"pane", 3>>, <<>>, None))
  /\ floats = <<>>
  /\ activePane = <<"pane", 1>>
  /\ counter = 3
  /\ gitChecked = FALSE
  /\ narrow \in BOOLEAN
  /\ panelOpen = ~narrow
  /\ bottomOpen = FALSE
  /\ merged = FALSE
  /\ edits = 0

Drop ==
  \E from, to \in Panes(right) \cup Panes(bottom) :
    \E id \in Ids(LeafAt(TreeOf(from), from).tabs) :
      \/ DropOnCentre(from, id, to)
      \/ \E before \in Ids(LeafAt(TreeOf(to), to).tabs) : DropBefore(from, id, to, before)
      \/ \E front \in BOOLEAN : DropOnEdge(from, id, to, front)

Open ==
  \/ \E f \in File : OpenFile(f)
  \/ OpenType(HomeTab(Home)) \/ OpenType(GitTab)
  \/ \E d \in Diff : OpenDiff(d)
  \/ \E id \in Ids(OpenTabs), f \in File : OpenFileSide(id, f)

Dock == \E i \in DOMAIN floats, pane \in Shown \cup {activePane} : DockFloat(floats[i].id, pane)

Touch ==
  \E id \in Ids(OpenTabs) : CloseTab(id) \/ ActivateTab(id) \/ RaiseFloat(id) \/ FloatTab(id)

Edit ==
  \/ Open \/ Touch \/ Drop \/ Dock
  \/ \E pane \in Shown : FocusPane(pane)
  \/ TogglePanel \/ ToggleBottom \/ Resize \/ Migrate
  \/ \E hasGit \in BOOLEAN : GitDefaults(hasGit)
  \/ \E live \in SUBSET Agent : Reconcile(live)
  \/ Revisit \/ Reload

LayoutNext == edits < MaxEdits /\ edits' = edits + 1 /\ Edit

LayoutSpec == LayoutInit /\ [][LayoutNext]_layoutVars

-----------------------------------------------------------------------------
(* Properties                                                              *)

Number == 0..MaxId
IdOK(id, prefixes) == id[1] \in prefixes /\ id[2] \in Number
LeafOK(l) == l.active = None \/ l.active \in Ids(l.tabs)

\* Every tree is made of panes and splits with minted ids, and a pane shows one
\* of its own tabs or none (sanitizeNode rejects a stored layout in which it
\* does not, and the conversation would lose all of its tabs).
LayoutTypeOK ==
  /\ \A id \in ToSet(NodeIds(right) \o NodeIds(bottom)) : IdOK(id, {"pane", "split"})
  /\ \A l \in ToSet(right.panes \o bottom.panes) : LeafOK(l)
  /\ IdOK(activePane, {"pane"})
  /\ counter \in Number /\ edits \in 0..MaxEdits
  /\ {gitChecked, panelOpen, bottomOpen, narrow, merged} \subseteq BOOLEAN

\* No two nodes of the two trees have the same id, whatever the order of
\* reloads, changes of conversation and splits: mapLeaf would change both.
NodesDistinct == IsInjective(NodeIds(right) \o NodeIds(bottom))

\* A file opened by its path, Source Control and an agent's terminal are in one
\* place only: one pane of one tree, or one free window.
NamedTabsOnce ==
  \A id \in {<<"git", 0>>} \cup {<<"editor", f>> : f \in File} \cup {<<"agent", a>> : a \in Agent} :
    Cardinality({i \in DOMAIN OpenTabs : OpenTabs[i].id = id}) <= 1

\* Once a narrow viewport has merged the panels, no tab is in the bottom tree,
\* which it does not show, and none can be opened there.
NarrowShowsAll ==
  narrow /\ merged => TabsIn(bottom) = <<>> /\ ~InBottom(activePane)

\* What client/state.ts says of the ids of free windows: none collides.
FloatIdsNeverCollide == \A i, j \in DOMAIN floats : floats[i].id = floats[j].id => i = j
IdsDistinct ==
  /\ FloatIdsNeverCollide
  /\ IsInjective([i \in DOMAIN OpenTabs |-> OpenTabs[i].id])

Edited == edits' # edits   \* a step of the layout

\* The user opens a file: afterwards an editor of it is the one shown by the
\* pane in use, in a panel that is open, or sits in a free window on top.
OpenedFileIsShown ==
  [][Edited => \A f \in File : IdsDistinct /\ OpenFile(f) =>
       LET showing == LeafAt(IF activePane' \in Panes(bottom') THEN bottom' ELSE right', activePane')
       IN \/ /\ activePane' \in Panes(right') \cup Panes(bottom')
             /\ IF activePane' \in Panes(bottom') /\ ~narrow THEN bottomOpen' ELSE panelOpen'
             /\ \E t \in ToSet(showing.tabs) : t.id = showing.active /\ t.of = f
          \/ floats' # <<>> /\ floats'[Len(floats')].tab.of = f]_layoutVars

\* A tab dropped on its own pane while it is the only one there.
OwnPaneDrop == \E pane \in Panes(right) \cup Panes(bottom), id \in Ids(OpenTabs) :
  /\ Ids(LeafAt(TreeOf(pane), pane).tabs) = {id}
  /\ \/ DropOnCentre(pane, id, pane) \/ DropBefore(pane, id, pane, id)
     \/ \E front \in BOOLEAN : DropOnEdge(pane, id, pane, front)

\* Nothing but closing a tab, a terminal's end and a reload (of a diff) makes a
\* tab disappear: moving, splitting, floating, docking and merging keep them all.
\* The two known exceptions are excluded: a tab alone in its pane dropped on that
\* pane, and free windows that share an id.
NoTabIsLost ==
  [][Edited => \A id \in Ids(OpenTabs) \ Ids(OpenTabs') :
       \/ ~IdsDistinct
       \/ CloseTab(id) \/ OwnPaneDrop
       \/ TabWith(OpenTabs, id).kind = "diff" /\ Reload
       \/ TabWith(OpenTabs, id).kind = "terminal" /\ \E live \in SUBSET Agent :
            TabWith(OpenTabs, id).of \notin live /\ Reconcile(live)]_layoutVars

\* A reload brings back the layout it found: the same tabs in the same order
\* but for the diffs, and the same free windows.
ReloadRestores ==
  [][Edited /\ Reload =>
       /\ TabsIn(right)' = Kept(TabsIn(right))
       /\ TabsIn(bottom)' = Kept(TabsIn(bottom))
       /\ FloatIdsNeverCollide => FloatTabs' = Kept(FloatTabs)]_layoutVars

\* A push of the host's list leaves a tab for each terminal of the list (one, by
\* NamedTabsOnce), and no tab of a vanished one outside the bottom panel.
TabsFollowTerminals ==
  [][Edited => \A live \in SUBSET Agent : Reconcile(live) =>
       /\ \A a \in live : <<"agent", a>> \in Ids(OpenTabs')
       /\ \A t \in ToSet(AgentTabs(TabsIn(right)' \o FloatTabs')) : t.of \in live]_layoutVars

\* What client/state.ts says of a drop on the tab's own pane: it reorders.
OwnDropReorders ==
  [][\A pane \in Panes(right) \cup Panes(bottom), id \in Ids(OpenTabs) :
       DropOnCentre(pane, id, pane) => id \in Ids(OpenTabs')]_layoutVars
=============================================================================
