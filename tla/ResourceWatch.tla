------------------------------ MODULE ResourceWatch ------------------------------
(*****************************************************************************)
(* ByClawResourceWatch and its callbacks in apply(): the authorization Hash  *)
(* of one user is compared with the last one that was synchronized, resource *)
(* events are merged and delivered, and both ask for a synchronization of    *)
(* the resources, on which synchronizeOrRetain (byclaw_list_resources, a     *)
(* template instance) may be at work too.                                    *)
(*                                                                           *)
(* Abstractions.  Redis answers the reads of one check at one moment.  The   *)
(* resources a synchronization yields are the granted ones that are not      *)
(* marked as deleted; CatalogGeneration has their publication.  Redis may    *)
(* lose or reorder what it publishes.  pollMs, pollOnlyMs and debounceMs are *)
(* the timers' right to fire at any time; missingGraceMs only words a log    *)
(* line.                                                                     *)
(*****************************************************************************)
EXTENDS Naturals, Sequences, FiniteSets

CONSTANTS
  Resource,       \* resource ids
  MaxAt,          \* bound: greatest changedAt; 0 stands for an event without one
  MaxGrants,      \* bound: changes of the authorization Hash
  MaxChanges,     \* bound: events received
  MaxLists        \* bound: synchronizations asked for by tools

ASSUME WatchAssumption ==
  MaxAt \in Nat /\ MaxGrants \in Nat /\ MaxChanges \in Nat /\ MaxLists \in Nat

Change == [id : Resource, type : {"updated", "deleted"}, at : 0 .. MaxAt]

VARIABLES
  granted,        \* Redis: the ids in the authorization Hash
  inCatalog,        \* Redis: the Hash and the user's mapping exist
  notice,         \* Redis: a keyspace notice is under way
  spent,          \* grants, changes and lists so far
  known,          \* #authorization.resourceIds
  watchedIds,     \* #watchedResourceIds
  changes,        \* #pendingChanges
  last,           \* #lastChangedAtByResourceId, 0 where there is none
  jobs,           \* #queue: "auth", "poll" (a check that re-arms the timer) or "flush"
  doing,          \* what the job at the head waits for, or Idle
  pollTimer, debounceTimer,
  watchClosing,        \* of the watch: "new", "open", "draining" or "closed"
  marked,         \* deletedResourceIds
  refreshes,      \* the chain of synchronizations, each with who asked for it
  fetched,         \* what the one at the head has read, or NotLoaded
  resources,      \* the resources of the last synchronization that succeeded
  grantsSeen,     \* resources.authorization.resourceIds
  retained        \* the last synchronization failed

remoteVars == <<granted, inCatalog, notice, spent>>
refreshVars == <<refreshes, fetched, resources, grantsSeen, retained>>
watchVars == <<remoteVars, known, watchedIds, changes, last, jobs, doing, pollTimer,
               debounceTimer, watchClosing, marked, refreshVars>>

NoJob == [kind |-> "idle"]
NotLoaded == [done |-> FALSE]

WatchInit ==
  /\ granted \in SUBSET Resource /\ inCatalog = TRUE
  /\ notice = FALSE /\ spent = [grants |-> 0, changes |-> 0, lists |-> 0]
  /\ known = granted /\ watchedIds = granted /\ resources = granted /\ grantsSeen = granted
  /\ changes = <<>> /\ last = [r \in Resource |-> 0]
  /\ jobs = <<>> /\ doing = NoJob /\ pollTimer = FALSE /\ debounceTimer = FALSE
  /\ watchClosing = "new" /\ marked = {}
  /\ refreshes = <<>> /\ fetched = NotLoaded /\ retained = FALSE

-----------------------------------------------------------------------------
(* Redis *)

\* A notice of a change of the Hash may be lost.
GrantChanges ==
  /\ spent.grants < MaxGrants /\ spent' = [spent EXCEPT !.grants = @ + 1]
  /\ \/ granted' \in SUBSET Resource \ {granted} /\ inCatalog' = TRUE
     \/ inCatalog' = ~inCatalog /\ UNCHANGED granted
  /\ notice' \in {notice, TRUE}
  /\ UNCHANGED <<known, watchedIds, changes, last, jobs, doing, pollTimer, debounceTimer, watchClosing,
                 marked, refreshVars>>

-----------------------------------------------------------------------------
(* The listeners and the timers of the watch *)

Enqueue(job) == jobs' = Append(jobs, job)

\* start, with the authorization of the first synchronization, and the first poll.
Start ==
  /\ watchClosing = "new" /\ watchClosing' = "open" /\ pollTimer' = TRUE
  /\ UNCHANGED <<remoteVars, known, watchedIds, changes, last, jobs, doing, debounceTimer, marked,
                 refreshVars>>

\* #onMessage: the debounce timer starts anew.  The event is any that was published:
\* events are lost, late and out of order.
ReceiveChange ==
  /\ watchClosing = "open" /\ spent.changes < MaxChanges
  /\ spent' = [spent EXCEPT !.changes = @ + 1]
  /\ \E c \in Change : changes' = Append(changes, c)
  /\ debounceTimer' = TRUE
  /\ UNCHANGED <<granted, inCatalog, notice, known, watchedIds, last, jobs, doing, pollTimer, watchClosing,
                 marked, refreshVars>>

\* #onPatternMessage
ReceiveNotice ==
  /\ watchClosing = "open" /\ notice /\ notice' = FALSE
  /\ Enqueue("auth")
  /\ UNCHANGED <<granted, inCatalog, spent, known, watchedIds, changes, last, doing, pollTimer,
                 debounceTimer, watchClosing, marked, refreshVars>>

PollFires ==
  /\ pollTimer /\ pollTimer' = FALSE /\ Enqueue("poll")
  /\ UNCHANGED <<remoteVars, known, watchedIds, changes, last, doing, debounceTimer, watchClosing,
                 marked, refreshVars>>

\* flushResourceChangesNow
DebounceFires ==
  /\ debounceTimer /\ debounceTimer' = FALSE /\ Enqueue("flush")
  /\ UNCHANGED <<remoteVars, known, watchedIds, changes, last, doing, pollTimer, watchClosing,
                 marked, refreshVars>>

\* Mutation: the timer is re-armed only by a check that found nothing to do.
RearmsIdle(job) == IF job = "poll" /\ doing = NoJob THEN watchClosing = "open" ELSE pollTimer

\* #schedulePoll in the finally of the poll's check
Rearms(job) == IF job = "poll" THEN watchClosing = "open" ELSE pollTimer

EndJob == jobs' = Tail(jobs) /\ doing' = NoJob /\ pollTimer' = Rearms(Head(jobs))

-----------------------------------------------------------------------------
(* checkAuthorizationNow and onAuthorizationChange *)

Checks == jobs # <<>> /\ Head(jobs) \in {"auth", "poll"} /\ doing = NoJob

\* Closed, no mapping, no Hash, or nothing new: what is known is retained.
CheckFindsNothing ==
  /\ Checks /\ (watchClosing # "open" \/ ~inCatalog \/ granted = known)
  /\ EndJob
  /\ UNCHANGED <<remoteVars, known, watchedIds, changes, last, debounceTimer, watchClosing, marked, refreshVars>>

\* A mark of deletion is dropped when its resource is not granted, or is granted anew.
CheckFindsChange ==
  /\ Checks /\ watchClosing = "open" /\ inCatalog /\ granted # known
  /\ marked' = marked \cap granted \cap grantsSeen
  /\ refreshes' = Append(refreshes, "watch")
  /\ doing' = [kind |-> "auth", ids |-> granted]
  /\ UNCHANGED <<remoteVars, known, watchedIds, changes, last, jobs, pollTimer, debounceTimer, watchClosing,
                 fetched, resources, grantsSeen, retained>>

-----------------------------------------------------------------------------
(* flushResourceChangesNow and onResourceChange *)

AtMost(a, b) == IF a > b THEN a ELSE b

\* mergeByClawResourceChanges, for two events of one resource
Merge(p, c) ==
  IF "deleted" \in {p.type, c.type} THEN [c EXCEPT !.type = "deleted", !.at = AtMost(p.at, c.at)]
  ELSE IF c.at >= p.at THEN c ELSE p

\* The merged event of r, or no event.
MergedFor(r) ==
  LET mine == SelectSeq(changes, LAMBDA c : c.id = r)
      merged[n \in 1 .. Len(mine)] == IF n = 1 THEN mine[1] ELSE Merge(merged[n - 1], mine[n])
  IN IF mine = <<>> THEN {} ELSE {merged[Len(mine)]}

\* Mutation: an event older than the last one that was processed is accepted.
StaleNever(c) == FALSE

\* isStaleByClawResourceChange
Stale(c) == c.at # 0 /\ c.at < last[c.id]

Accepted ==
  {c \in Change : /\ c \in MergedFor(c.id) /\ ~Stale(c)
                  /\ c.type = "deleted" \/ c.id \in watchedIds \cup known}

FlushRuns == jobs # <<>> /\ Head(jobs) = "flush" /\ doing = NoJob

ChangesLeft == IF watchClosing = "open" THEN <<>> ELSE changes

FlushFindsNothing ==
  /\ FlushRuns /\ (watchClosing # "open" \/ Accepted = {})
  /\ changes' = ChangesLeft
  /\ EndJob
  /\ UNCHANGED <<remoteVars, known, watchedIds, last, debounceTimer, watchClosing, marked, refreshVars>>

FlushDelivers ==
  /\ FlushRuns /\ watchClosing = "open" /\ Accepted # {}
  /\ changes' = <<>>
  /\ marked' = (marked \ {c.id : c \in Accepted}) \cup {c.id : c \in {d \in Accepted : d.type = "deleted"}}
  /\ refreshes' = Append(refreshes, "watch")
  /\ doing' = [kind |-> "flush", accepted |-> Accepted]
  /\ UNCHANGED <<remoteVars, known, watchedIds, last, jobs, pollTimer, debounceTimer, watchClosing,
                 fetched, resources, grantsSeen, retained>>

-----------------------------------------------------------------------------
(* synchronize *)

\* byclaw_list_resources, and every template instance
ListResources ==
  /\ watchClosing = "open" /\ spent.lists < MaxLists
  /\ spent' = [spent EXCEPT !.lists = @ + 1]
  /\ refreshes' = Append(refreshes, "tool")
  /\ UNCHANGED <<granted, inCatalog, notice, known, watchedIds, changes, last, jobs, doing, pollTimer,
                 debounceTimer, watchClosing, marked, fetched, resources, grantsSeen, retained>>

\* Mutation: what is deleted is loaded like the rest.
VisibleAll == granted

\* loadAuthorizedByClawResources with excludedResourceIds
Visible == granted \ marked

Loads ==
  /\ refreshes # <<>> /\ fetched = NotLoaded /\ inCatalog
  /\ fetched' = [done |-> TRUE, ids |-> Visible, grants |-> granted]
  /\ UNCHANGED <<remoteVars, known, watchedIds, changes, last, jobs, doing, pollTimer, debounceTimer,
                 watchClosing, marked, refreshes, resources, grantsSeen, retained>>

\* The callback returns: what it was given counts as processed.
Synchronized ==
  /\ refreshes # <<>> /\ fetched # NotLoaded
  /\ resources' = fetched.ids /\ watchedIds' = fetched.ids /\ grantsSeen' = fetched.grants
  /\ retained' = FALSE /\ refreshes' = Tail(refreshes) /\ fetched' = NotLoaded
  /\ IF Head(refreshes) = "tool" THEN UNCHANGED <<known, last, jobs, doing, pollTimer>>
     ELSE /\ EndJob
          /\ known' = IF doing.kind = "auth" THEN doing.ids ELSE known
          /\ last' = [r \in Resource |->
                        IF \E c \in IF doing.kind = "flush" THEN doing.accepted ELSE {} : c.id = r /\ c.at # 0
                        THEN (CHOOSE c \in doing.accepted : c.id = r).at ELSE last[r]]
  /\ UNCHANGED <<remoteVars, changes, debounceTimer, watchClosing, marked>>

\* A snapshot cannot be loaded or the generation cannot be published.
SynchronizationFails ==
  /\ refreshes # <<>>
  /\ retained' = TRUE /\ refreshes' = Tail(refreshes) /\ fetched' = NotLoaded
  /\ IF Head(refreshes) = "tool" THEN UNCHANGED <<jobs, doing, pollTimer>> ELSE EndJob
  /\ UNCHANGED <<remoteVars, known, watchedIds, changes, last, debounceTimer, watchClosing, marked,
                 resources, grantsSeen>>

-----------------------------------------------------------------------------
(* close *)

CloseWatch ==
  /\ watchClosing = "open" /\ watchClosing' = "draining"
  /\ pollTimer' = FALSE /\ debounceTimer' = FALSE /\ changes' = <<>>
  /\ UNCHANGED <<remoteVars, known, watchedIds, last, jobs, doing, marked, refreshVars>>

\* waitForIdle
WatchIsIdle == jobs = <<>>

Closed ==
  /\ watchClosing = "draining" /\ WatchIsIdle /\ watchClosing' = "closed"
  /\ UNCHANGED <<remoteVars, known, watchedIds, changes, last, jobs, doing, pollTimer, debounceTimer,
                 marked, refreshVars>>

-----------------------------------------------------------------------------
WatchNext ==
  \/ GrantChanges \/ Start
  \/ ReceiveChange \/ ReceiveNotice \/ PollFires \/ DebounceFires
  \/ CheckFindsNothing \/ CheckFindsChange \/ FlushFindsNothing \/ FlushDelivers
  \/ ListResources \/ Loads \/ Synchronized \/ SynchronizationFails
  \/ CloseWatch \/ Closed

WatchSpec == WatchInit /\ [][WatchNext]_watchVars

\* Timers fire, jobs run, and a synchronization that is tried again and again
\* succeeds at last.
WatchFairness ==
  /\ WF_watchVars(PollFires) /\ WF_watchVars(DebounceFires)
  /\ WF_watchVars(CheckFindsNothing \/ CheckFindsChange)
  /\ WF_watchVars(FlushFindsNothing \/ FlushDelivers)
  /\ WF_watchVars(Loads \/ SynchronizationFails) /\ WF_watchVars(Synchronized \/ SynchronizationFails)
  /\ SF_watchVars(Loads) /\ SF_watchVars(Synchronized)

FairWatchSpec == WatchSpec /\ WatchFairness

\* The variables have their types, and what is under way is what the first job
\* of the queue does.
WatchTypeOK ==
  /\ granted \subseteq Resource /\ known \subseteq Resource /\ watchedIds \subseteq Resource
  /\ resources \subseteq Resource /\ marked \subseteq Resource /\ grantsSeen \subseteq Resource
  /\ changes \in Seq(Change) /\ last \in [Resource -> 0 .. MaxAt]
  /\ jobs \in Seq({"auth", "poll", "flush"}) /\ refreshes \in Seq({"watch", "tool"})
  /\ doing.kind = "idle" \/ (jobs # <<>> /\ (doing.kind = "flush" <=> Head(jobs) = "flush"))
  /\ watchClosing \in {"new", "open", "draining", "closed"}

\* A resource event that was processed is never followed by an older one, though
\* events are delivered in any order and batched (isStaleByClawResourceChange).
NewestWins == [][\A r \in Resource : last'[r] >= last[r]]_watchVars

\* When no synchronization is under way, none has failed and the process is not
\* stopping, no resource whose deletion was delivered is on offer (onResourceChange).
DeletedIsHidden ==
  refreshes = <<>> /\ ~retained /\ watchClosing = "open" => marked \cap resources = {}

\* After close() has returned no timer of the watch is armed and none of its
\* checks runs or will run (close, waitForIdle, #schedulePoll).
QuietAfterClose ==
  watchClosing = "closed" => jobs = <<>> /\ doing = NoJob /\ ~pollTimer /\ ~debounceTimer

\* Whatever notices are lost and whatever synchronizations fail, the watch comes
\* to know the current authorization (checkAuthorizationNow, #schedulePoll).
AuthorizationConverges == []<>(watchClosing # "open" \/ ~inCatalog \/ known = granted)
=============================================================================
