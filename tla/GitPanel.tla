------------------------------- MODULE GitPanel -------------------------------
(***************************************************************************)
(* The source-control panel of the sidebar (dsh-better-sidebar:            *)
(* client/GitView.tsx), with the host that answers it (index.ts,           *)
(* git-workspaces.ts).  The panel shows the current checkout of one        *)
(* repository: its status and the first pages of its history, for one      *)
(* query.  Polls, full loads, pages, filters and writes overlap and their  *)
(* answers come in any order, so each request belongs to generations       *)
(* (refreshGeneration, historyGeneration, pollPublication, mutationOwner). *)
(* A generation is modelled by the requests that own it: raising the       *)
(* counter takes the token from every request in flight.  A repository     *)
(* stands for its current checkout, the only one the panel may select.     *)
(* Branch names, messages, menus and the commit box are left out, and a    *)
(* history reads as its pages, whatever commits they hold.                 *)
(***************************************************************************)
EXTENDS Naturals, Sequences, FiniteSets

CONSTANTS
  Scope,         \* sessions the panel is shown for, all of one directory
  Repo,          \* repositories of the directory
  RootRepo,      \* the one of kind 'root'
  Query,         \* history filters
  AllHistory,    \* the filters of a fresh toolbar
  Nothing,       \* no target, no status, no request
  GitFaults,     \* what else may go wrong: "git_error"
  MaxInputs,     \* bound: what the user, the timers and the disk do
  MaxRequests,   \* bound: requests in flight
  MaxVersion,    \* bound: changes to a checkout
  MaxPages       \* bound: pages of a history

ASSUME GitAssumption ==
  /\ RootRepo \in Repo /\ AllHistory \in Query /\ Nothing \notin Repo
  /\ MaxInputs \in Nat /\ MaxRequests \in Nat \ {0} /\ MaxVersion \in Nat /\ MaxPages \in Nat \ {0}

Request == 1..MaxRequests
Generation == {"refresh", "history", "poll", "mutation"}

\* What a request in flight is for and what the host has answered it so far.
Reading == {"inventory", "status", "log", "write"}
Answer == [code : {"ok"}, value : SUBSET Repo] \cup [code : {"ok"}, value : 0..MaxVersion]
          \cup [code : {"ok"}, value : BOOLEAN] \cup [code : {"git-target", "git-error"}]
Call == [kind : {"inventory", "load", "poll", "filter", "page", "write"},
         scope : Scope, repo : Repo \cup {Nothing}, query : Query, from : Nat, whole : BOOLEAN,
         owns : SUBSET Generation, replies : UNION {[R -> Answer] : R \in SUBSET Reading}]

ASSUME NothingAssumption == Nothing \notin Call

VARIABLES
  panel,    \* the component: what it shows, its flags, its requests in flight
  kept,     \* session -> the target persisted in its tab
  ready,    \* repositories that are on the disk
  known,    \* inventoryCache, or Nothing once it expired
  work,     \* repository -> version of its working tree
  inputs    \* inputs so far

gitVars == <<panel, kept, ready, known, work, inputs>>

-----------------------------------------------------------------------------
(* The host                                                                *)

\* What discoverGitWorkspace returns: a forced refresh looks at the disk again.
Inventory(force) == IF force \/ known = Nothing THEN ready ELSE known

\* What the client gets for an error of the host (gitOperationOf, writeError).
WireCode(code) ==
  CASE code = "git-target" -> "bad-request" [] code = "git-error" -> "internal" [] OTHER -> code

Got(v) == [code |-> "ok", value |-> v]
Denied(code) == [code |-> code]
Trouble == {Denied("git-error") : f \in GitFaults \cap {"git_error"}}

\* The calls a request of the panel makes, side by side.
Reads(kind) ==
  CASE kind = "inventory" -> {"inventory"}
    [] kind = "load" -> {"status", "log"}
    [] kind = "poll" -> {"status"}
    [] kind \in {"filter", "page"} -> {"log"}
    [] kind = "write" -> {"write"}

\* A target that the inventory does not list is refused, before Git runs.
GitAnswers(q, read) ==
  IF q.repo \notin Inventory(FALSE) THEN {Denied("git-target")}
  ELSE IF q.repo \notin ready THEN {Denied("git-error")}
  ELSE Trouble
       \cup (CASE read = "status" -> {Got(work[q.repo])}
               [] read = "log" -> {Got(more) : more \in {FALSE, q.from + 1 < MaxPages}}
               [] read = "write" -> {})

Waits(n, read) ==
  /\ panel.requests[n] # Nothing
  /\ read \in Reads(panel.requests[n].kind) \ DOMAIN panel.requests[n].replies

Reply(n, read, reply) ==
  panel' = [panel EXCEPT !.requests[n].replies =
              [r \in DOMAIN @ \cup {read} |-> IF r = read THEN reply ELSE @[r]]]

HostDiscovers(n) ==
  /\ Waits(n, "inventory")
  /\ LET found == Inventory(panel.requests[n].whole) IN
       \/ known' = found /\ Reply(n, "inventory", Got(found))
       \/ UNCHANGED known /\ \E reply \in Trouble : Reply(n, "inventory", reply)
  /\ UNCHANGED <<kept, ready, work, inputs>>

HostReads(n, read) ==
  /\ Waits(n, read)
  /\ \E reply \in GitAnswers(panel.requests[n], read) : Reply(n, read, reply)
  /\ known' = Inventory(FALSE)
  /\ UNCHANGED <<kept, ready, work, inputs>>

\* A Git command that changes the checkout; one that fails may have run.
HostWrites(n) ==
  /\ Waits(n, "write")
  /\ LET r == panel.requests[n].repo IN
       /\ r \in Inventory(FALSE) \cap ready /\ work[r] < MaxVersion
       /\ work' = [work EXCEPT ![r] = @ + 1]
  /\ \E reply \in {Got(TRUE)} \cup Trouble : Reply(n, "write", reply)
  /\ known' = Inventory(FALSE)
  /\ UNCHANGED <<kept, ready, inputs>>

Input == inputs < MaxInputs /\ inputs' = inputs + 1

\* An agent or the user's shell: files change, a checkout goes or comes back.
DiskChanges(r) ==
  /\ Input
  /\ \/ r \in ready /\ work[r] < MaxVersion /\ work' = [work EXCEPT ![r] = @ + 1] /\ UNCHANGED ready
     \/ ready' = (IF r \in ready THEN ready \ {r} ELSE ready \cup {r}) /\ UNCHANGED work
  /\ UNCHANGED <<panel, kept, known>>

CacheExpires ==
  Input /\ known # Nothing /\ known' = Nothing /\ UNCHANGED <<panel, kept, ready, work>>

-----------------------------------------------------------------------------
(* The panel: each operator maps the component's state to the next one     *)

\* generation.current += 1: the requests in flight own it no longer.
Raise(p, generations) ==
  [p EXCEPT !.requests = [n \in Request |->
     IF p.requests[n] = Nothing THEN Nothing
     ELSE [p.requests[n] EXCEPT !.owns = @ \ generations]]]

\* clearTargetView
Cleared(p) ==
  [Raise(p, {"history"}) EXCEPT !.status = Nothing, !.log = <<>>, !.more = FALSE,
                                !.historyLoading = FALSE, !.pageLoading = FALSE]

\* A request for the panel's target with its filters.
Ask(p, n, kind, owns, from, whole) ==
  [p EXCEPT !.requests[n] =
     [kind |-> kind, scope |-> p.scope, repo |-> p.target, query |-> p.filters,
      from |-> from, whole |-> whole, owns |-> owns, replies |-> <<>>]]

\* refreshInventory, up to its await.  `owner` is "mutation" in a write's course.
RefreshInventory(p, n, force, owner) ==
  Ask([Raise(Cleared(p), {"refresh", "poll"}) EXCEPT !.pending = TRUE, !.loading = TRUE],
      n, "inventory", {"refresh"} \cup owner, 0, force)

\* refreshTarget, up to its await.
RefreshTarget(p, n, whole, owner) ==
  Ask([Raise(p, {"history"}) EXCEPT !.pending = TRUE, !.loading = @ \/ whole,
                                    !.historyLoading = TRUE],
      n, "load", {"refresh", "history"} \cup owner, 0, whole)

\* The request is over; with it the write whose course it ends.
Over(p, n) ==
  [p EXCEPT !.requests[n] = Nothing, !.busy = @ /\ "mutation" \notin p.requests[n].owns]

Owner(q) == q.owns \cap {"mutation"}
Current(q) == "refresh" \in q.owns /\ q.repo = panel.target
Code(q, read) == WireCode(q.replies[read].code)

\* The panel rebuilds its inventory once for a target the host does not know.
Recovers(q, code) == code = "git-target" /\ panel.tried # q.repo
Recovered(q, n) == RefreshInventory([panel EXCEPT !.tried = q.repo], n, TRUE, Owner(q))

Row(q) == [scope |-> q.scope, repo |-> q.repo, version |-> q.replies["status"].value]
NotARepository == [scope |-> panel.scope, repo |-> Nothing, version |-> 0]
Page(q) == [scope |-> q.scope, repo |-> q.repo, query |-> q.query, from |-> q.from]

\* The wanted repository when it is there, else the root, else any.
Selection(inventory, wanted) ==
  IF wanted \in inventory THEN wanted
  ELSE IF RootRepo \in inventory THEN RootRepo
  ELSE IF inventory # {} THEN CHOOSE r \in inventory : TRUE
  ELSE Nothing

\* refreshInventory after its await.
InventoryArrives(n) ==
  LET q == panel.requests[n]
      reply == q.replies["inventory"]
      fresh == [Raise(Cleared(panel), {"refresh", "poll"}) EXCEPT !.inventory = reply.value]
      target == Selection(reply.value,
                  IF panel.target # Nothing THEN panel.target ELSE kept[panel.scope])
      filters == IF target = panel.target THEN panel.filters ELSE AllHistory
  IN /\ q # Nothing /\ q.kind = "inventory" /\ DOMAIN q.replies # {}
     /\ \/ /\ "refresh" \notin q.owns
           /\ panel' = Over(panel, n) /\ UNCHANGED kept
        \/ /\ "refresh" \in q.owns /\ reply.code # "ok"
           /\ panel' = [Over(panel, n) EXCEPT !.loading = FALSE, !.pending = FALSE]
           /\ UNCHANGED kept
        \/ /\ "refresh" \in q.owns /\ reply.code = "ok" /\ target = Nothing
           /\ panel' = [Over(fresh, n) EXCEPT !.target = Nothing, !.status = NotARepository,
                                              !.loading = FALSE, !.pending = FALSE]
           /\ UNCHANGED kept
        \/ /\ "refresh" \in q.owns /\ reply.code = "ok" /\ target # Nothing
           /\ panel' = RefreshTarget([fresh EXCEPT !.target = target, !.filters = filters],
                                     n, TRUE, Owner(q))
           /\ kept' = [kept EXCEPT ![panel.scope] = target]
     /\ UNCHANGED <<ready, known, work, inputs>>

\* The companion reads degrade to nothing, unless the target is gone.
Rejects(q, read) ==
  /\ read \in DOMAIN q.replies
  /\ IF read = "status" THEN Code(q, read) # "ok" ELSE Code(q, read) = "git-target"

\* Mutation: a reload after a write leaves the polls suspended.
LoadOverWhole(p, q, n) ==
  Over([p EXCEPT !.loading = @ /\ ~(q.whole /\ Current(q)),
                 !.pending = @ /\ ~(q.whole /\ Current(q)),
                 !.historyLoading = @ /\ "history" \notin q.owns], n)

\* The finally of refreshTarget.
LoadOver(p, q, n) ==
  Over([p EXCEPT !.loading = @ /\ ~(q.whole /\ Current(q)), !.pending = @ /\ ~Current(q),
                 !.historyLoading = @ /\ "history" \notin q.owns], n)

Published(q) ==
  LET shown == [panel EXCEPT !.status = Row(q), !.tried = Nothing]
      log == q.replies["log"]
  IN IF "history" \notin q.owns THEN shown
     ELSE [shown EXCEPT !.log = IF log.code = "ok" THEN <<Page(q)>> ELSE <<>>,
                        !.more = log.code = "ok" /\ log.value]

\* refreshTarget after its await.
LoadArrives(n) ==
  LET q == panel.requests[n] IN
  /\ q # Nothing /\ q.kind = "load"
  /\ \/ /\ DOMAIN q.replies = Reads("load") /\ \A read \in Reads("load") : ~Rejects(q, read)
        /\ panel' = LoadOver(IF Current(q) THEN Published(q) ELSE panel, q, n)
     \/ \E read \in Reads("load") :
          /\ Rejects(q, read)
          /\ panel' = IF Current(q) /\ Recovers(q, Code(q, read)) THEN Recovered(q, n)
                      ELSE LoadOver(panel, q, n)
  /\ UNCHANGED <<kept, ready, known, work, inputs>>

\* pollStatus after its await: only the last poll, and no poll during a load.
LastPoll(q) == {"refresh", "poll"} \subseteq q.owns /\ ~panel.pending /\ q.repo = panel.target

PollArrives(n) ==
  LET q == panel.requests[n] IN
  /\ q # Nothing /\ q.kind = "poll" /\ DOMAIN q.replies # {}
  /\ panel' = IF LastPoll(q) /\ Code(q, "status") = "ok"
                THEN [Over(panel, n) EXCEPT !.status = Row(q)]
              ELSE IF LastPoll(q) /\ Recovers(q, Code(q, "status")) THEN Recovered(q, n)
              ELSE Over(panel, n)
  /\ UNCHANGED <<kept, ready, known, work, inputs>>

\* changeHistoryFilters after its await.
FilterArrives(n) ==
  LET q == panel.requests[n]
      owns == "history" \in q.owns
      over == [Over(panel, n) EXCEPT !.historyLoading = @ /\ ~owns]
  IN /\ q # Nothing /\ q.kind = "filter" /\ DOMAIN q.replies # {}
     /\ panel' = IF ~(owns /\ q.repo = panel.target) THEN over
                 ELSE IF Code(q, "log") = "ok"
                   THEN [over EXCEPT !.log = <<Page(q)>>, !.more = q.replies["log"].value]
                 ELSE IF Recovers(q, Code(q, "log")) THEN Recovered(q, n)
                 ELSE over
     /\ UNCHANGED <<kept, ready, known, work, inputs>>

\* Mutation: a page of another query is appended.
ContinuesAnyQuery(q) == Current(q)

\* The page still continues the history on screen.
Continues(q) == Current(q) /\ "history" \in q.owns

\* loadMoreLog after its await.
PageArrives(n) ==
  LET q == panel.requests[n]
      over == [Over(panel, n) EXCEPT !.pageLoading = @ /\ ~Continues(q)]
  IN /\ q # Nothing /\ q.kind = "page" /\ DOMAIN q.replies # {}
     /\ panel' = IF Continues(q) /\ Code(q, "log") = "ok"
                   THEN [over EXCEPT !.log = Append(@, Page(q)), !.more = q.replies["log"].value]
                 ELSE IF Current(q) /\ Recovers(q, Code(q, "log")) THEN Recovered(q, n)
                 ELSE over
     /\ UNCHANGED <<kept, ready, known, work, inputs>>

\* Mutation: the polls that overlap the write stay valid.
ReloadedAmongPolls(q, n) == RefreshTarget(panel, n, FALSE, Owner(q))

\* runTargetAction after the write: what was read meanwhile is older than the write.
Reloaded(q, n) == RefreshTarget(Raise(panel, {"refresh"}), n, FALSE, Owner(q))

WriteArrives(n) ==
  LET q == panel.requests[n] IN
  /\ q # Nothing /\ q.kind = "write" /\ DOMAIN q.replies # {}
  /\ panel' = IF ~Current(q) THEN Over(panel, n)
              ELSE IF Code(q, "write") = "ok" THEN Reloaded(q, n)
              ELSE IF Code(q, "write") = "git-target"
                THEN RefreshInventory(panel, n, TRUE, Owner(q))
              ELSE Over(panel, n)
  /\ UNCHANGED <<kept, ready, known, work, inputs>>

-----------------------------------------------------------------------------
(* The user, the timer and the session                                     *)

FreeSlot(n) == panel.requests[n] = Nothing /\ \A m \in 1..(n - 1) : panel.requests[m] # Nothing
StatusShown == panel.status # Nothing /\ panel.status.repo # Nothing

SelectRepository(r, n) ==
  /\ Input /\ FreeSlot(n) /\ r \in panel.inventory
  /\ panel' = RefreshTarget(
       Cleared([Raise(panel, {"refresh"}) EXCEPT !.target = r, !.tried = Nothing,
                                                 !.filters = AllHistory]), n, TRUE, {})
  /\ kept' = [kept EXCEPT ![panel.scope] = r]
  /\ UNCHANGED <<ready, known, work>>

ManualRefresh(n) ==
  /\ Input /\ FreeSlot(n) /\ ~panel.busy
  /\ panel' = RefreshInventory([panel EXCEPT !.tried = Nothing], n, TRUE, {})
  /\ UNCHANGED <<kept, ready, known, work>>

PollTimer(n) ==
  /\ Input /\ FreeSlot(n) /\ ~panel.pending /\ panel.target # Nothing
  /\ panel' = Ask(Raise(panel, {"poll"}), n, "poll", {"refresh", "poll"}, 0, FALSE)
  /\ UNCHANGED <<kept, ready, known, work>>

\* The toolbar is there while a status is shown.
ChangeFilters(f, n) ==
  /\ Input /\ FreeSlot(n) /\ StatusShown
  /\ panel' = Ask([Raise(panel, {"history"}) EXCEPT !.filters = f, !.log = <<>>, !.more = FALSE,
                                                    !.historyLoading = TRUE],
                  n, "filter", {"history"}, 0, FALSE)
  /\ UNCHANGED <<kept, ready, known, work>>

LoadMore(n) ==
  /\ Input /\ FreeSlot(n) /\ StatusShown /\ ~panel.busy /\ ~panel.pageLoading /\ panel.more
  /\ panel' = Ask([panel EXCEPT !.pageLoading = TRUE], n, "page", {"refresh", "history"},
                  Len(panel.log), FALSE)
  /\ UNCHANGED <<kept, ready, known, work>>

\* Stage, unstage, commit, checkout, discard, revert, cherry-pick.
RunAction(n) ==
  /\ Input /\ FreeSlot(n) /\ StatusShown /\ ~panel.busy
  /\ panel' = Ask([Raise(panel, {"mutation", "refresh"}) EXCEPT !.busy = TRUE],
                  n, "write", {"refresh", "mutation"}, 0, FALSE)
  /\ UNCHANGED <<kept, ready, known, work>>

Blank(s) ==
  [scope |-> s, target |-> kept[s], inventory |-> {}, status |-> Nothing, log |-> <<>>,
   more |-> FALSE, loading |-> TRUE, historyLoading |-> FALSE, pageLoading |-> FALSE,
   busy |-> FALSE, pending |-> FALSE, filters |-> AllHistory, tried |-> Nothing,
   requests |-> [n \in Request |-> Nothing]]

\* The effect of a new scope: what is in flight belongs to nobody.
Rescope(s, n) ==
  /\ Input /\ FreeSlot(n) /\ s # panel.scope
  /\ panel' = RefreshInventory(
       [Raise(panel, {"refresh", "poll", "mutation"}) EXCEPT
          !.scope = s, !.target = kept[s], !.tried = Nothing, !.busy = FALSE,
          !.pending = FALSE, !.inventory = {}, !.filters = AllHistory], n, FALSE, {})
  /\ UNCHANGED <<kept, ready, known, work>>

-----------------------------------------------------------------------------
GitInit ==
  /\ kept \in [Scope -> Repo \cup {Nothing}] /\ ready \in SUBSET Repo
  /\ known = Nothing /\ work = [r \in Repo |-> 0] /\ inputs = 0
  /\ \E s \in Scope : panel = RefreshInventory(Blank(s), 1, FALSE, {})

GitNext ==
  \/ \E n \in Request :
       \/ HostDiscovers(n) \/ HostWrites(n)
       \/ \E read \in {"status", "log", "write"} : HostReads(n, read)
       \/ InventoryArrives(n) \/ LoadArrives(n) \/ PollArrives(n)
       \/ FilterArrives(n) \/ PageArrives(n) \/ WriteArrives(n)
       \/ \E r \in Repo : SelectRepository(r, n)
       \/ \E f \in Query : ChangeFilters(f, n)
       \/ \E s \in Scope : Rescope(s, n)
       \/ ManualRefresh(n) \/ PollTimer(n) \/ LoadMore(n) \/ RunAction(n)
  \/ \E r \in Repo : DiskChanges(r)
  \/ CacheExpires

GitSpec == GitInit /\ [][GitNext]_gitVars

-----------------------------------------------------------------------------
(* Properties                                                              *)

\* Type: panel.requests in flight belong to known generations.
GitTypeOK ==
  /\ panel.scope \in Scope /\ panel.target \in Repo \cup {Nothing} /\ panel.filters \in Query
  /\ panel.inventory \subseteq Repo /\ panel.tried \in Repo \cup {Nothing}
  /\ kept \in [Scope -> Repo \cup {Nothing}] /\ ready \subseteq Repo
  /\ work \in [Repo -> 0..MaxVersion] /\ inputs \in 0..MaxInputs
  /\ \A n \in Request : panel.requests[n] # Nothing => panel.requests[n].owns \subseteq Generation

\* "Status, branch choices and history are one consistency unit: never mix rows
\* from two worktrees": whatever is shown is of the session, the repository and
\* the filters on screen, and the history has no page twice and no gap.
ViewIsOneCheckout ==
  /\ panel.status # Nothing => panel.status.scope = panel.scope /\ panel.status.repo = panel.target
  /\ \A i \in DOMAIN panel.log :
       panel.log[i] = [scope |-> panel.scope, repo |-> panel.target,
                       query |-> panel.filters, from |-> i - 1]

\* The status of a checkout on screen is never replaced by one read before it.
StatusNeverOlder ==
  [][ /\ panel.status # Nothing /\ panel'.status # Nothing
      /\ panel.status.scope = panel'.status.scope /\ panel.status.repo = panel'.status.repo
      => panel.status.version <= panel'.status.version ]_panel

\* The panel never loads, blocks its buttons or suspends its polls for ever: those
\* flags are up only while a request in flight will take them down.  "Load more"
\* waits for its page in the same way, but only a page that still continues the
\* history takes that flag down: the exceptions are a change of the filters and a
\* write, which overtake the page and leave the flag up until a discovery or a
\* selection clears it.  No other step leaves the flag waiting for nothing.
Awaited(kinds, generation) ==
  \E n \in Request : /\ panel.requests[n] # Nothing
                     /\ panel.requests[n].kind \in kinds /\ generation \in panel.requests[n].owns

FlagsAwaited ==
  /\ panel.loading => Awaited({"inventory", "load"}, "refresh")
  /\ panel.pending => Awaited({"inventory", "load"}, "refresh")
  /\ panel.historyLoading => Awaited({"load", "filter"}, "history")
  /\ panel.busy => Awaited({"write", "load", "inventory"}, "mutation")

PageAwaited ==
  panel.pageLoading => \E n \in Request : /\ panel.requests[n] # Nothing
                                          /\ panel.requests[n].kind = "page"
                                          /\ {"refresh", "history"} \subseteq panel.requests[n].owns

Overtaken == \E n \in Request : RunAction(n) \/ \E f \in Query : ChangeFilters(f, n)

NothingWaitsAlone ==
  [][ /\ FlagsAwaited /\ FlagsAwaited'
      /\ PageAwaited => PageAwaited' \/ Overtaken ]_gitVars

\* "target loss ... must rebuild inventory and select a currently authoritative
\* checkout": a current load that the host answered with the loss of its target,
\* and with no other error, is followed by a forced discovery.
Lost(q) ==
  /\ \E read \in DOMAIN q.replies : q.replies[read].code = "git-target"
  /\ "status" \in DOMAIN q.replies => q.replies["status"].code # "git-error"

TargetLossRecovers ==
  [][ \A n \in Request :
        /\ panel.requests[n] # Nothing /\ panel.requests[n].kind = "load"
        /\ Current(panel.requests[n]) /\ Lost(panel.requests[n]) /\ panel.tried # panel.target
        /\ panel'.requests[n] = Nothing \/ panel'.requests[n].kind # "load"
        => \E m \in Request : /\ panel'.requests[m] # Nothing
                              /\ panel'.requests[m].kind = "inventory"
                              /\ panel'.requests[m].whole ]_panel
================================================================================
