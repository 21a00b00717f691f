---------------------------- MODULE CatalogGeneration --------------------------
(*****************************************************************************)
(* The generations of templates and Skills the ByClaw integration publishes, *)
(* and the operations that use them.  A refresh (synchronize() of index.ts)  *)
(* waits for the refresh before it, loads the authorized resources, takes    *)
(* the generation lease as a writer, stages a copy of the three live         *)
(* directories and renames them into place one after another, backing up     *)
(* what it replaces and rolling back when a rename fails.  Consumers, and    *)
(* agent_teams_save_template, share the same lease.                          *)
(*                                                                           *)
(* Abstractions.  The contents of a directory are the version of the         *)
(* resources it was projected from and the user templates in it; version 0   *)
(* is no ByClaw content.  Loading the resources is one step.                 *)
(*                                                                           *)
(* Operators introduced by "Mutation:" are wrong versions of the definition  *)
(* that follows them and not part of the specification.                      *)
(*****************************************************************************)
EXTENDS GenerationLease, FiniteSets

CONSTANTS
  Refresh,    \* calls of synchronize()
  Save,       \* calls of agent_teams_save_template
  Consumer,   \* template instantiations, template-backed team creations, listings
  RefreshOf,  \* the refresh a consumer awaits first (beforeInstantiate), or None
  CatalogOf,  \* the directory of templates a consumer reads
  Root,       \* the consumers that compose a session's root agent (prepareRoot)
  MaxVersion, \* bound: versions of the authorized resources
  MaxCrashes, \* bound: process restarts
  Faults      \* bound: "load_error", "stage_error", "rename_error"

\* The directories in the order of publishDirectories.
Skills == 1
Teams == 2
Agents == 3
Dir == 1 .. 3

ASSUME CatalogAssumption ==
  /\ Refresh \cup Save = Writer /\ Refresh \cap Save = {}
  /\ Consumer \subseteq Op \ Writer
  /\ \A o, p \in Writer \cup Consumer : KeyOf[o] = KeyOf[p]
  /\ RefreshOf \in [Consumer -> Refresh \cup {None}]
  /\ CatalogOf \in [Consumer -> {Teams, Agents}] /\ Root \subseteq Consumer
  /\ MaxVersion \in Nat \ {0} /\ MaxCrashes \in Nat

VARIABLES
  version,   \* version of the authorized resources in Redis and the BE
  accepting, \* acceptingRefresh
  online,    \* the cold start has succeeded, the worker runs
  chain,     \* the refreshes synchronize() has accepted and not settled
  asked,     \* version when each refresh was asked for, 0 before
  loaded,    \* version each refresh has loaded, 0 before
  outcome,   \* of each refresh: "none", "ok" or "failed"
  dir,       \* the live directories
  backup,    \* what the refresh under way has moved out of the way
  pub,       \* publishDirectories: its place, the directory, the staged own templates
  seen,      \* what each consumer has read: pairs of directory and version
  saved,     \* the templates whose save has been written
  crashes

catalogVars == <<version, accepting, online, chain, asked, loaded, outcome,
                 dir, backup, pub, seen, saved, crashes>>
vars == <<leaseVars, catalogVars>>

Content == [version : Nat, own : SUBSET Save]
Missing == [version |-> 0, own |-> {}]
IdlePub == [at |-> "idle", i |-> 0, own |-> {}]

Init ==
  /\ LeaseInit
  /\ version = 1 /\ accepting = TRUE /\ online = FALSE
  /\ chain = <<>> /\ asked = [r \in Refresh |-> 0]
  /\ loaded = [r \in Refresh |-> 0] /\ outcome = [r \in Refresh |-> "none"]
  /\ dir = [d \in Dir |-> Missing] /\ backup = [d \in Dir |-> Missing]
  /\ pub = IdlePub /\ seen = [c \in Consumer |-> {}] /\ saved = {}
  /\ crashes = 0

\* Authorizations, resources or Skills change in ByClaw.
BackendChanges ==
  /\ version < MaxVersion /\ version' = version + 1
  /\ UNCHANGED <<leaseVars, accepting, online, chain, asked, loaded, outcome, dir,
                 backup, pub, seen, saved, crashes>>

--------------------------------------------------------------------------------
(* synchronize(): the refreshes, one after another.                          *)

\* The cold start asks for the first one, watchers and consumers for others.
Request(r) ==
  /\ accepting /\ asked[r] = 0
  /\ online \/ chain = <<>>
  /\ chain' = Append(chain, r)
  /\ asked' = [asked EXCEPT ![r] = version]
  /\ UNCHANGED <<leaseVars, version, accepting, online, loaded, outcome, dir, backup,
                 pub, seen, saved, crashes>>

Current(r) == chain # <<>> /\ Head(chain) = r
Ends(r, result) == outcome' = [outcome EXCEPT ![r] = result]

\* Mutation: what another refresh has loaded is good enough.
LoadCached(r) ==
  /\ Current(r) /\ loaded[r] = 0 /\ outcome[r] = "none"
  /\ loaded' = [loaded EXCEPT ![r] =
       IF \E q \in Refresh : loaded[q] # 0
       THEN loaded[CHOOSE q \in Refresh : loaded[q] # 0] ELSE version]
  /\ UNCHANGED <<leaseVars, version, accepting, online, chain, asked, outcome, dir,
                 backup, pub, seen, saved, crashes>>
Load(r) ==
  /\ Current(r) /\ loaded[r] = 0 /\ outcome[r] = "none"
  /\ \/ loaded' = [loaded EXCEPT ![r] = version] /\ outcome' = outcome
     \/ "load_error" \in Faults /\ loaded' = loaded /\ Ends(r, "failed")
  /\ UNCHANGED <<leaseVars, version, accepting, online, chain, asked, dir, backup,
                 pub, seen, saved, crashes>>

\* project() asks for the lease; a closing lease refuses it.
AskLease(r) ==
  /\ Current(r) /\ loaded[r] # 0
  /\ \/ Acquire(r) /\ outcome' = outcome
     \/ Refuse(r) /\ Ends(r, "failed")
  /\ UNCHANGED <<version, accepting, online, chain, asked, loaded, dir, backup, pub,
                 seen, saved, crashes>>

Publishing(r, at) == Current(r) /\ status[r] = "admitted" /\ pub.at = at

\* Mutation: the copy is taken before the lease.
StageUnleased(r) ==
  /\ Current(r) /\ loaded[r] # 0 /\ outcome[r] = "none" /\ pub.at = "idle"
  /\ pub' = [at |-> "backup", i |-> 1, own |-> dir[Teams].own]
  /\ UNCHANGED <<leaseVars, version, accepting, online, chain, asked, loaded, outcome,
                 dir, backup, seen, saved, crashes>>
\* The live directories are copied under the lease and rewritten in the stage,
\* Skills are downloaded and models resolved for it.
Stage(r) ==
  /\ Publishing(r, "idle")
  /\ pub' = [at |-> "backup", i |-> 1, own |-> dir[Teams].own]
  /\ UNCHANGED <<leaseVars, version, accepting, online, chain, asked, loaded, outcome,
                 dir, backup, seen, saved, crashes>>

\* project() has returned, or thrown: the lease is released ...
ReleasePublisher(r) ==
  /\ \/ Publishing(r, "idle") /\ "stage_error" \in Faults /\ Ends(r, "failed")
     \/ Publishing(r, "failed") /\ Ends(r, "failed")
     \/ Publishing(r, "done") /\ Ends(r, "ok")
  /\ Release(r) /\ pub' = IdlePub
  /\ UNCHANGED <<version, accepting, online, chain, asked, loaded, dir, backup, seen,
                 saved, crashes>>

\* ... and then the refresh settles and the next one may begin.  The first one
\* to succeed lets the worker start, a failed cold start disposes the plugin.
Finish(r) ==
  /\ Current(r) /\ outcome[r] # "none"
  /\ chain' = Tail(chain)
  /\ online' = (online \/ outcome[r] = "ok")
  /\ accepting' = (accepting /\ online')
  /\ UNCHANGED <<leaseVars, version, asked, loaded, outcome, dir, backup, pub, seen,
                 saved, crashes>>

--------------------------------------------------------------------------------
(* publishDirectories, one rename at a time.                                 *)

RenameFails == "rename_error" \in Faults
Staged(r, d) == [version |-> loaded[r], own |-> IF d = Teams THEN pub.own ELSE {}]

\* target -> backup; a missing target is fine, another failure rolls back
MoveAway(r) ==
  /\ Publishing(r, "backup")
  /\ \/ /\ backup' = [backup EXCEPT ![pub.i] = dir[pub.i]]
        /\ dir' = [dir EXCEPT ![pub.i] = Missing]
        /\ pub' = [pub EXCEPT !.at = "publish"]
     \/ /\ RenameFails /\ dir[pub.i] # Missing
        /\ pub' = [pub EXCEPT !.at = "unpublish", !.i = @ - 1]
        /\ UNCHANGED <<dir, backup>>
  /\ UNCHANGED <<leaseVars, version, accepting, online, chain, asked, loaded, outcome,
                 seen, saved, crashes>>
\* prepared -> target
MoveIn(r) ==
  /\ Publishing(r, "publish")
  /\ \/ /\ dir' = [dir EXCEPT ![pub.i] = Staged(r, pub.i)]
        /\ pub' = IF pub.i = Agents THEN [pub EXCEPT !.at = "cleanup"]
                                    ELSE [pub EXCEPT !.at = "backup", !.i = @ + 1]
     \/ /\ RenameFails
        /\ pub' = [pub EXCEPT !.at = "putback"]
        /\ dir' = dir
  /\ UNCHANGED <<leaseVars, version, accepting, online, chain, asked, loaded, outcome,
                 backup, seen, saved, crashes>>

\* Mutation: only the directories published before it are restored.
PutBackForgotten(r) ==
  /\ Publishing(r, "putback")
  /\ pub' = [pub EXCEPT !.at = "unpublish", !.i = @ - 1]
  /\ UNCHANGED <<leaseVars, version, accepting, online, chain, asked, loaded, outcome,
                 dir, backup, seen, saved, crashes>>
\* backup -> target, for the directory whose publication has just failed
PutBack(r) ==
  /\ Publishing(r, "putback")
  /\ dir' = [dir EXCEPT ![pub.i] = backup[pub.i]]
  /\ backup' = [backup EXCEPT ![pub.i] = Missing]
  /\ pub' = [pub EXCEPT !.at = "unpublish", !.i = @ - 1]
  /\ UNCHANGED <<leaseVars, version, accepting, online, chain, asked, loaded, outcome,
                 seen, saved, crashes>>

\* Those published before it, the last one first: target -> failed ...
Unpublish(r) ==
  /\ Publishing(r, "unpublish")
  /\ IF pub.i = 0
     THEN pub' = [pub EXCEPT !.at = "failed"] /\ dir' = dir
     ELSE /\ dir' = [dir EXCEPT ![pub.i] = Missing]
          /\ pub' = [pub EXCEPT !.at = "restore"]
  /\ UNCHANGED <<leaseVars, version, accepting, online, chain, asked, loaded, outcome,
                 backup, seen, saved, crashes>>

\* ... and backup -> target
Restore(r) ==
  /\ Publishing(r, "restore")
  /\ dir' = [dir EXCEPT ![pub.i] = backup[pub.i]]
  /\ backup' = [backup EXCEPT ![pub.i] = Missing]
  /\ pub' = [pub EXCEPT !.at = "unpublish", !.i = @ - 1]
  /\ UNCHANGED <<leaseVars, version, accepting, online, chain, asked, loaded, outcome,
                 seen, saved, crashes>>

CleanUp(r) ==
  /\ Publishing(r, "cleanup")
  /\ backup' = [d \in Dir |-> Missing]
  /\ pub' = [pub EXCEPT !.at = "done"]
  /\ UNCHANGED <<leaseVars, version, accepting, online, chain, asked, loaded, outcome,
                 dir, seen, saved, crashes>>

--------------------------------------------------------------------------------
(* The other operations under the lease.                                     *)

Settled(r) == outcome[r] # "none" /\ \A i \in 1 .. Len(chain) : chain[i] # r
\* Template instantiation awaits its own refresh, succeed or not (a disposal
\* under way rejects it), and needs the tools registered after the cold start.
AskConsumer(c) ==
  /\ CatalogOf[c] = Agents => online
  /\ RefreshOf[c] # None =>
       Settled(RefreshOf[c]) \/ (~accepting /\ asked[RefreshOf[c]] = 0)
  /\ Acquire(c) \/ Refuse(c)
  /\ UNCHANGED catalogVars

\* The template is looked up, then its Skills; a missing one is an error.  A
\* root agent is composed, and reads its Skills, when the lease is released.
Consume(c, d) ==
  /\ IF c \in Root /\ d = Skills
     THEN status[c] = "settled" /\ seen[c] # {}
     ELSE status[c] = "admitted" /\ d \in {CatalogOf[c], Skills}
  /\ \A x \in seen[c] : x.dir # d
  /\ dir[d].version # 0
  /\ seen' = [seen EXCEPT ![c] = @ \cup {[dir |-> d, version |-> dir[d].version]}]
  /\ UNCHANGED <<leaseVars, version, accepting, online, chain, asked, loaded, outcome,
                 dir, backup, pub, saved, crashes>>

AskSave(s) == (Acquire(s) \/ Refuse(s)) /\ UNCHANGED catalogVars

\* writeTeamTemplate: one file is replaced atomically in the live directory
WriteTemplate(s) ==
  /\ status[s] = "admitted" /\ s \notin saved
  /\ dir' = [dir EXCEPT ![Teams].own = @ \cup {s}]
  /\ saved' = saved \cup {s}
  /\ UNCHANGED <<leaseVars, version, accepting, online, chain, asked, loaded, outcome,
                 backup, pub, seen, crashes>>

\* A save or a consumer settles, done or with an error.
Leave(o) == Release(o) /\ UNCHANGED catalogVars

\* An operation of another catalog directory of the same process.
Foreign == Op \ (Writer \cup Consumer)
AskForeign(o) == (Acquire(o) \/ Refuse(o)) /\ UNCHANGED catalogVars

--------------------------------------------------------------------------------
(* Disposal of the plugin, and restart of the process.                       *)

Dispose ==
  /\ accepting /\ accepting' = FALSE
  /\ UNCHANGED <<leaseVars, version, online, chain, asked, loaded, outcome, dir,
                 backup, pub, seen, saved, crashes>>

CloseLease == ~accepting /\ Close /\ UNCHANGED catalogVars

\* What was under way never returns; a backup left behind is never looked at.
Crash ==
  /\ crashes < MaxCrashes /\ crashes' = crashes + 1
  /\ status' = [o \in Op |-> IF status[o] = "idle" /\ (o \in Refresh => asked[o] = 0)
                             THEN "idle" ELSE "refused"]
  /\ entry' = [k \in Key |-> IdleEntry] /\ present' = {} /\ closed' = "open"
  /\ accepting' = TRUE /\ online' = FALSE /\ chain' = <<>> /\ pub' = IdlePub
  /\ backup' = [d \in Dir |-> Missing]
  /\ UNCHANGED <<version, asked, loaded, outcome, dir, seen, saved>>

--------------------------------------------------------------------------------
Publisher(r) ==
  \/ Load(r) \/ AskLease(r) \/ Stage(r) \/ MoveAway(r) \/ MoveIn(r) \/ PutBack(r)
  \/ Unpublish(r) \/ Restore(r) \/ CleanUp(r) \/ ReleasePublisher(r) \/ Finish(r)

Steady ==
  \/ BackendChanges \/ Dispose \/ CloseLease
  \/ \E r \in Refresh : Request(r) \/ Publisher(r)
  \/ \E c \in Consumer : AskConsumer(c) \/ \E d \in Dir : Consume(c, d)
  \/ \E s \in Save : AskSave(s) \/ WriteTemplate(s)
  \/ \E o \in Op \ Refresh : Leave(o)
  \/ \E o \in Foreign : AskForeign(o)

Next == Steady \/ Crash

Spec == Init /\ [][Next]_vars
SteadySpec == Init /\ [][Steady]_vars   \* Spec if MaxCrashes = 0

\* Promises of the runtime: the steps of a refresh go on and every operation
\* under the lease settles; a disposal that has begun reaches the lease.
Fairness == /\ \A r \in Refresh : WF_vars(Publisher(r))
            /\ \A o \in Op \ Refresh : WF_vars(Leave(o))
            /\ WF_vars(CloseLease)

FairSpec == Spec /\ Fairness

--------------------------------------------------------------------------------
(* Properties.                                                               *)

TypeOK ==
  /\ LeaseTypeOK
  /\ version \in 1 .. MaxVersion /\ accepting \in BOOLEAN /\ online \in BOOLEAN
  /\ chain \in Seq(Refresh)
  /\ asked \in [Refresh -> 0 .. MaxVersion] /\ loaded \in [Refresh -> 0 .. MaxVersion]
  /\ outcome \in [Refresh -> {"none", "ok", "failed"}]
  /\ dir \in [Dir -> Content] /\ backup \in [Dir -> Content]
  /\ pub \in [at : {"idle", "backup", "publish", "putback", "unpublish", "restore",
                    "cleanup", "failed", "done"}, i : 0 .. 3, own : SUBSET Save]
  /\ seen \in [Consumer -> SUBSET [dir : Dir, version : Nat]]
  /\ saved \subseteq Save /\ crashes \in 0 .. MaxCrashes

\* A consumer is served from one generation, whatever is published, rolled back
\* or saved meanwhile.
OneGenerationPerConsumer ==
  \A c \in Consumer : \A x, y \in seen[c] : x.version = y.version

\* A consumer whose own refresh has succeeded is served from resources at least
\* as new as those at the moment it asked for the refresh.
InstantiationIsFresh ==
  \A c \in Consumer : \A x \in seen[c] :
    RefreshOf[c] # None /\ outcome[RefreshOf[c]] = "ok"
      => x.version >= asked[RefreshOf[c]]

\* While the worker is online and nobody publishes, every template a user has
\* saved is in the live catalog.
SavedTemplatesKept ==
  online /\ pub.at = "idle" => saved \subseteq dir[Teams].own

\* The three directories behave as one atomic catalog.  The generation in force
\* changes with the last rename of a publication, and a directory moved away
\* counts as long as somebody is there to move it back.
Live(d) == IF pub.at # "idle" /\ dir[d] = Missing THEN backup[d] ELSE dir[d]
Catalog == INSTANCE AtomicCatalog WITH
  published <- Live(Agents).version,
  saved <- Live(Teams).own,
  view <- [c \in Consumer |-> IF seen[c] = {} THEN 0
                              ELSE (CHOOSE x \in seen[c] : TRUE).version]
KeepsCatalog == Catalog!Spec

\* Everything asked of the lease is answered, unless the process is restarted
\* first: no consumer starves behind publishers, no publisher behind consumers,
\* and disposal gets the lease closed, however much work it finds under way.
EveryoneIsAnswered ==
  /\ \A o \in Op : status[o] = "waiting" ~> status[o] \in {"settled", "refused"}
  /\ ~accepting ~> closed = "resolved" \/ accepting
================================================================================
