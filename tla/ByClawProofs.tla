------------------------------ MODULE ByClawProofs ------------------------------
(*****************************************************************************)
(* Theorems about the run-time of byclaw-integration beside its session: the *)
(* resource watch, for any resources, events, notices that are lost and      *)
(* synchronizations that fail; the question broker, for any questions and    *)
(* sessions; and the parts side by side, each behaving as it does alone.     *)
(*****************************************************************************)
EXTENDS MCByClaw, SessionTurnProofs

---------------------------------------------------------------------------
(* The watch                                                               *)


Jobs == {"auth", "poll", "flush"}
Doing == {NoJob} \cup [kind : {"auth"}, ids : SUBSET Resource]
                 \cup [kind : {"flush"}, accepted : SUBSET Change]
Fetched == {NotLoaded} \cup [done : {TRUE}, ids : SUBSET Resource, grants : SUBSET Resource]

TypeInv ==
  /\ granted \in SUBSET Resource /\ known \in SUBSET Resource /\ watchedIds \in SUBSET Resource
  /\ resources \in SUBSET Resource /\ marked \in SUBSET Resource /\ grantsSeen \in SUBSET Resource
  /\ changes \in Seq(Change) /\ last \in [Resource -> 0 .. MaxAt]
  /\ jobs \in Seq(Jobs) /\ refreshes \in Seq({"watch", "tool"})
  /\ doing \in Doing /\ fetched \in Fetched
  /\ watchClosing \in {"new", "open", "draining", "closed"}
  /\ pollTimer \in BOOLEAN /\ debounceTimer \in BOOLEAN /\ retained \in BOOLEAN

\* What is under way is what the first job of the queue does.
HeadWorks ==
  doing # NoJob => jobs # <<>> /\ (doing.kind = "flush" <=> Head(jobs) = "flush")

\* A synchronization of the watch is one that its job waits for, and there is one.
OneRefresh ==
  /\ \A i \in 1 .. Len(refreshes) : refreshes[i] = "watch" => doing # NoJob
  /\ \A i, j \in 1 .. Len(refreshes) : refreshes[i] = "watch" /\ refreshes[j] = "watch" => i = j

\* A flush under way has taken one event of a resource at most, and none that is stale.
TakenIsFresh ==
  doing.kind = "flush" =>
    \A c \in doing.accepted :
      /\ c.at = 0 \/ c.at >= last[c.id]
      /\ \A d \in doing.accepted : d.id = c.id => d = c

\* What the last synchronization of the chain has read offers nothing that is
\* marked; nor does what is on offer once the chain is empty.
MarksRespected ==
  /\ fetched # NotLoaded => refreshes # <<>>
  /\ Len(refreshes) = 1 /\ fetched # NotLoaded => marked \cap fetched.ids = {}
  /\ refreshes = <<>> /\ ~retained => marked \cap resources = {}

\* close() has cleared the timers, and nothing arms them again.
Silence ==
  /\ watchClosing \in {"draining", "closed"} => ~pollTimer /\ ~debounceTimer
  /\ watchClosing = "closed" => jobs = <<>>

WatchInv == TypeInv /\ HeadWorks /\ OneRefresh /\ TakenIsFresh /\ MarksRespected /\ Silence

-----------------------------------------------------------------------------
LEMMA DoingKinds ==
  ASSUME NEW d \in Doing
  PROVE  /\ d = NoJob <=> d.kind = "idle"
         /\ d.kind \in {"idle", "auth", "flush"}
         /\ d.kind = "auth" => d.ids \in SUBSET Resource
         /\ d.kind = "flush" => d.accepted \in SUBSET Change
BY DEF Doing, NoJob

LEMMA FetchedParts ==
  ASSUME NEW f \in Fetched, f # NotLoaded
  PROVE  f.ids \in SUBSET Resource /\ f.grants \in SUBSET Resource
BY DEF Fetched

LEMMA TakenTyped ==
  /\ Accepted \in SUBSET Change
  /\ \A c, d \in Accepted : c.id = d.id => c = d
<1>1. \A r \in Resource : \A c, d \in MergedFor(r) : c = d
  BY DEF MergedFor
<1> QED BY <1>1 DEF Accepted, Change

\* An event that is accepted is not older than the last one of its resource.
LEMMA TakenNotStale ==
  ASSUME TypeInv
  PROVE  \A c \in Accepted : c.at = 0 \/ c.at >= last[c.id]
<1> SUFFICES ASSUME NEW c \in Accepted, c.at # 0 PROVE c.at >= last[c.id]
  OBVIOUS
<1>1. c \in Change /\ ~Stale(c)
  BY DEF Accepted
<1>2. c.at \in Nat /\ last[c.id] \in Nat
  BY <1>1, WatchAssumption DEF Change, TypeInv
<1> QED BY <1>1, <1>2 DEF Stale

LEMMA InitHolds == WatchInit => WatchInv
<1> SUFFICES ASSUME WatchInit PROVE WatchInv
  OBVIOUS
<1>1. TypeInv
  <2>1. changes \in Seq(Change) /\ jobs \in Seq(Jobs) /\ refreshes \in Seq({"watch", "tool"})
    BY DEF WatchInit
  <2>2. last \in [Resource -> 0 .. MaxAt]
    BY WatchAssumption DEF WatchInit
  <2>3. doing \in Doing /\ fetched \in Fetched
    BY DEF WatchInit, Doing, Fetched
  <2>4. pollTimer \in BOOLEAN /\ debounceTimer \in BOOLEAN /\ retained \in BOOLEAN
    BY DEF WatchInit
  <2>5. /\ granted \in SUBSET Resource /\ known \in SUBSET Resource /\ watchedIds \in SUBSET Resource
        /\ resources \in SUBSET Resource /\ marked \in SUBSET Resource /\ grantsSeen \in SUBSET Resource
        /\ watchClosing \in {"new", "open", "draining", "closed"}
    BY DEF WatchInit
  <2> QED BY <2>1, <2>2, <2>3, <2>4, <2>5 DEF TypeInv
<1>2. HeadWorks /\ OneRefresh /\ TakenIsFresh /\ MarksRespected
  BY DEF WatchInit, HeadWorks, OneRefresh, TakenIsFresh, MarksRespected, NoJob, NotLoaded
<1>3. Silence
  BY DEF WatchInit, Silence
<1> QED BY <1>1, <1>2, <1>3 DEF WatchInv

\* The end of a job: the queue loses its head, and only an open watch re-arms.
LEMMA EndOfJob ==
  ASSUME WatchInv, EndJob, jobs # <<>>
  PROVE  /\ jobs' \in Seq(Jobs) /\ doing' = NoJob /\ pollTimer' \in BOOLEAN
         /\ watchClosing \in {"draining", "closed"} => ~pollTimer'
         /\ watchClosing # "closed"
<1>1. jobs' \in Seq(Jobs) /\ doing' = NoJob /\ watchClosing # "closed"
  BY DEF WatchInv, TypeInv, Silence, EndJob
<1>2. CASE Head(jobs) = "poll"
  <2>1. pollTimer' = (watchClosing = "open")
    BY <1>2 DEF EndJob, Rearms
  <2> QED BY <2>1, <1>1
<1>3. CASE Head(jobs) # "poll"
  <2>1. pollTimer' = pollTimer
    BY <1>3 DEF EndJob, Rearms
  <2> QED BY <2>1, <1>1 DEF WatchInv, TypeInv, Silence
<1> QED BY <1>2, <1>3

\* The head of the chain leaves it.
LEMMA ChainAdvances ==
  ASSUME WatchInv, refreshes # <<>>, refreshes' = Tail(refreshes)
  PROVE  /\ refreshes' \in Seq({"watch", "tool"})
         /\ Len(refreshes') = Len(refreshes) - 1
         /\ \A i \in 1 .. Len(refreshes') : refreshes'[i] = refreshes[i + 1]
         /\ Head(refreshes) = refreshes[1] /\ Head(refreshes) \in {"watch", "tool"}
         /\ Head(refreshes) = "watch" =>
              doing # NoJob /\ \A i \in 1 .. Len(refreshes') : refreshes'[i] # "watch"
<1>1. /\ refreshes' \in Seq({"watch", "tool"})
      /\ Len(refreshes') = Len(refreshes) - 1
      /\ \A i \in 1 .. Len(refreshes') : refreshes'[i] = refreshes[i + 1]
      /\ Head(refreshes) = refreshes[1] /\ Head(refreshes) \in {"watch", "tool"}
      /\ Len(refreshes) \in Nat /\ Len(refreshes) > 0
  BY DEF WatchInv, TypeInv
<1>2. ASSUME Head(refreshes) = "watch", NEW i \in 1 .. Len(refreshes'), refreshes'[i] = "watch"
      PROVE FALSE
  <2>1. 1 \in 1 .. Len(refreshes) /\ i + 1 \in 1 .. Len(refreshes) /\ i + 1 # 1
    BY <1>1
  <2> QED BY <2>1, <1>1, <1>2 DEF WatchInv, OneRefresh
<1>3. Head(refreshes) = "watch" => doing # NoJob
  BY <1>1 DEF WatchInv, OneRefresh
<1> QED BY <1>1, <1>2, <1>3

\* A job of the watch asks for a synchronization and waits for it.
LEMMA ChainGrows ==
  ASSUME WatchInv, doing = NoJob, refreshes' = Append(refreshes, "watch"), doing' # NoJob
  PROVE  /\ refreshes' \in Seq({"watch", "tool"}) /\ OneRefresh' /\ refreshes' # <<>>
         /\ Len(refreshes') = 1 => refreshes = <<>>
<1> DEFINE C == {"watch", "tool"}
<1>1. refreshes \in Seq(C) /\ refreshes' = Append(refreshes, "watch") /\ "watch" \in C
  BY DEF WatchInv, TypeInv
<1>2. /\ refreshes' \in Seq(C) /\ refreshes' # <<>>
      /\ Len(refreshes) \in Nat /\ Len(refreshes') = Len(refreshes) + 1
      /\ \A i \in 1 .. Len(refreshes) : refreshes'[i] = refreshes[i]
  BY <1>1
<1>3. \A i \in 1 .. Len(refreshes) : refreshes[i] # "watch"
  BY DEF WatchInv, OneRefresh
<1>4. Len(refreshes') = 1 => refreshes = <<>>
  BY <1>1, <1>2
<1> QED BY <1>2, <1>3, <1>4 DEF OneRefresh

\* A timer or a notice puts a job at the end of the queue of an open watch, or of
\* one whose timer is still armed.
LEMMA JobEnters ==
  ASSUME WatchInv, NEW job \in Jobs, Enqueue(job), watchClosing \notin {"draining", "closed"},
         doing' = doing, watchClosing' = watchClosing
  PROVE  jobs' \in Seq(Jobs) /\ HeadWorks'
<1>1. jobs \in Seq(Jobs) /\ jobs' = Append(jobs, job)
  BY DEF WatchInv, TypeInv, Enqueue
<1>2. jobs' \in Seq(Jobs) /\ jobs' # <<>> /\ (jobs # <<>> => Head(jobs') = Head(jobs))
  BY <1>1
<1> QED BY <1>2 DEF WatchInv, HeadWorks

\* A synchronization that succeeds: what a flush has taken becomes the last event.
LEMMA LastMoves ==
  ASSUME WatchInv, Synchronized, Head(refreshes) # "tool"
  PROVE  last' \in [Resource -> 0 .. MaxAt] /\ \A r \in Resource : last'[r] >= last[r]
<1> DEFINE A == IF doing.kind = "flush" THEN doing.accepted ELSE {}
           L(r) == IF \E c \in A : c.id = r /\ c.at # 0
                   THEN (CHOOSE c \in doing.accepted : c.id = r).at ELSE last[r]
<1>1. last' = [r \in Resource |-> L(r)]
  BY DEF Synchronized
<1>2. ASSUME NEW r \in Resource PROVE L(r) \in 0 .. MaxAt /\ L(r) >= last[r]
  <2>0. last[r] \in 0 .. MaxAt
    BY DEF WatchInv, TypeInv
  <2>1. CASE \E c \in A : c.id = r /\ c.at # 0
    <3>1. PICK c \in A : c.id = r /\ c.at # 0
      BY <2>1
    <3>2. doing.kind = "flush" /\ c \in doing.accepted
      BY <3>1
    <3>3. doing.accepted \in SUBSET Change
      BY <3>2, DoingKinds DEF WatchInv, TypeInv
    <3>4. (CHOOSE d \in doing.accepted : d.id = r) = c
      BY <3>1, <3>2 DEF WatchInv, TakenIsFresh
    <3>5. c.at \in 0 .. MaxAt /\ c.at >= last[r]
      BY <3>1, <3>2, <3>3 DEF WatchInv, TakenIsFresh, Change
    <3> QED BY <2>1, <3>4, <3>5
  <2>2. CASE ~ \E c \in A : c.id = r /\ c.at # 0
    BY <2>2, <2>0, WatchAssumption
  <2> QED BY <2>1, <2>2
<1> HIDE DEF L
<1> QED BY <1>1, <1>2


LEMMA StepHolds == WatchInv /\ [WatchNext]_watchVars => WatchInv'
<1> SUFFICES ASSUME WatchInv, [WatchNext]_watchVars PROVE WatchInv'
  OBVIOUS
<1>0. TypeInv /\ HeadWorks /\ OneRefresh /\ TakenIsFresh /\ MarksRespected /\ Silence
  BY DEF WatchInv
<1>1. CASE GrantChanges
  <2>1. granted' \in SUBSET Resource
    BY <1>0, <1>1 DEF GrantChanges, TypeInv
  <2>2. UNCHANGED <<known, watchedIds, changes, last, jobs, doing, pollTimer, debounceTimer,
                    watchClosing, marked, refreshVars>>
    BY <1>1 DEF GrantChanges
  <2> QED BY <1>0, <2>1, <2>2 DEF WatchInv, TypeInv, HeadWorks, OneRefresh, TakenIsFresh,
         MarksRespected, Silence, refreshVars
<1>2. CASE Start
  <2>1. pollTimer' = TRUE /\ watchClosing' = "open"
    BY <1>2 DEF Start
  <2>2. UNCHANGED <<remoteVars, known, watchedIds, changes, last, jobs, doing, debounceTimer,
                    marked, refreshVars>>
    BY <1>2 DEF Start
  <2>3. Silence'
    BY <2>1 DEF Silence
  <2>4. pollTimer' \in BOOLEAN
    BY <2>1
  <2> QED BY <1>0, <2>1, <2>2, <2>3, <2>4 DEF WatchInv, TypeInv, HeadWorks, OneRefresh, TakenIsFresh,
         MarksRespected, refreshVars, remoteVars
<1>3. CASE ReceiveChange
  <2>1. changes' \in Seq(Change) /\ debounceTimer' \in BOOLEAN
    <3>1. PICK c \in Change : changes' = Append(changes, c)
      BY <1>3 DEF ReceiveChange
    <3>2. debounceTimer' = TRUE
      BY <1>3 DEF ReceiveChange
    <3> QED BY <1>0, <3>1, <3>2 DEF TypeInv
  <2>2. watchClosing = "open"
    BY <1>3 DEF ReceiveChange
  <2>3. UNCHANGED <<granted, known, watchedIds, last, jobs, doing, pollTimer, watchClosing,
                    marked, refreshVars>>
    BY <1>3 DEF ReceiveChange
  <2> QED BY <1>0, <2>1, <2>2, <2>3 DEF WatchInv, TypeInv, HeadWorks, OneRefresh, TakenIsFresh,
         MarksRespected, Silence, refreshVars
<1>4. CASE ReceiveNotice
  <2>1. jobs' \in Seq(Jobs) /\ HeadWorks' /\ watchClosing = "open"
    BY <1>4, JobEnters DEF ReceiveNotice, Jobs
  <2>2. UNCHANGED <<granted, known, watchedIds, changes, last, doing, pollTimer,
                    debounceTimer, watchClosing, marked, refreshVars>>
    BY <1>4 DEF ReceiveNotice
  <2> QED BY <1>0, <2>1, <2>2 DEF WatchInv, TypeInv, OneRefresh, TakenIsFresh,
         MarksRespected, Silence, refreshVars
<1>5. CASE PollFires
  <2>0. watchClosing \notin {"draining", "closed"}
    BY <1>0, <1>5 DEF PollFires, Silence
  <2>1. jobs' \in Seq(Jobs) /\ HeadWorks'
    BY <2>0, <1>5, JobEnters DEF PollFires, Jobs
  <2>2. UNCHANGED <<granted, known, watchedIds, changes, last, doing, debounceTimer,
                    watchClosing, marked, refreshVars>>
    BY <1>5 DEF PollFires, remoteVars
  <2>3. pollTimer' \in BOOLEAN
    BY <1>5 DEF PollFires
  <2> QED BY <1>0, <2>0, <2>1, <2>2, <2>3 DEF WatchInv, TypeInv, OneRefresh, TakenIsFresh,
         MarksRespected, Silence, refreshVars
<1>6. CASE DebounceFires
  <2>0. watchClosing \notin {"draining", "closed"}
    BY <1>0, <1>6 DEF DebounceFires, Silence
  <2>1. jobs' \in Seq(Jobs) /\ HeadWorks'
    BY <2>0, <1>6, JobEnters DEF DebounceFires, Jobs
  <2>2. UNCHANGED <<granted, known, watchedIds, changes, last, doing, pollTimer,
                    watchClosing, marked, refreshVars>>
    BY <1>6 DEF DebounceFires, remoteVars
  <2>3. debounceTimer' \in BOOLEAN
    BY <1>6 DEF DebounceFires
  <2> QED BY <1>0, <2>0, <2>1, <2>2, <2>3 DEF WatchInv, TypeInv, OneRefresh, TakenIsFresh,
         MarksRespected, Silence, refreshVars
<1>7. CASE CheckFindsNothing
  <2>1. jobs # <<>> /\ doing = NoJob /\ EndJob
    BY <1>7 DEF CheckFindsNothing, Checks
  <2>2. UNCHANGED <<granted, known, watchedIds, changes, last, debounceTimer, watchClosing,
                    marked, refreshVars>>
    BY <1>7 DEF CheckFindsNothing, remoteVars
  <2> QED BY <1>0, <2>1, <2>2, EndOfJob DEF WatchInv, TypeInv, HeadWorks, OneRefresh, TakenIsFresh,
         MarksRespected, Silence, refreshVars
<1>8. CASE CheckFindsChange
  <2>1. /\ jobs # <<>> /\ Head(jobs) # "flush" /\ doing = NoJob /\ watchClosing = "open"
        /\ doing' = [kind |-> "auth", ids |-> granted] /\ refreshes' = Append(refreshes, "watch")
        /\ marked' \in SUBSET Resource
    BY <1>0, <1>8 DEF CheckFindsChange, Checks, TypeInv
  <2>2. UNCHANGED <<granted, known, watchedIds, changes, last, jobs, pollTimer, debounceTimer,
                    watchClosing, fetched, resources, grantsSeen, retained>>
    BY <1>8 DEF CheckFindsChange, remoteVars
  <2>3. doing' \in Doing /\ doing' # NoJob /\ doing'.kind = "auth"
    BY <1>0, <2>1 DEF Doing, NoJob, TypeInv
  <2>4. /\ refreshes' \in Seq({"watch", "tool"}) /\ OneRefresh' /\ refreshes' # <<>>
        /\ Len(refreshes') = 1 => refreshes = <<>>
    BY <2>1, <2>3, ChainGrows
  <2>5. MarksRespected'
    BY <1>0, <2>2, <2>4 DEF MarksRespected
  <2> QED BY <1>0, <2>1, <2>2, <2>3, <2>4, <2>5 DEF WatchInv, TypeInv, HeadWorks, TakenIsFresh, Silence
<1>9. CASE FlushFindsNothing
  <2>1. jobs # <<>> /\ doing = NoJob /\ EndJob
    BY <1>9 DEF FlushFindsNothing, FlushRuns
  <2>2. changes' \in Seq(Change)
    BY <1>0, <1>9 DEF FlushFindsNothing, ChangesLeft, TypeInv
  <2>3. UNCHANGED <<granted, known, watchedIds, last, debounceTimer, watchClosing, marked, refreshVars>>
    BY <1>9 DEF FlushFindsNothing, remoteVars
  <2> QED BY <1>0, <2>1, <2>2, <2>3, EndOfJob DEF WatchInv, TypeInv, HeadWorks, OneRefresh, TakenIsFresh,
         MarksRespected, Silence, refreshVars
<1>10. CASE FlushDelivers
  <2>1. /\ jobs # <<>> /\ Head(jobs) = "flush" /\ doing = NoJob /\ watchClosing = "open"
        /\ doing' = [kind |-> "flush", accepted |-> Accepted]
        /\ refreshes' = Append(refreshes, "watch") /\ changes' = <<>>
    BY <1>10 DEF FlushDelivers, FlushRuns
  <2>2. UNCHANGED <<granted, known, watchedIds, last, jobs, pollTimer, debounceTimer,
                    watchClosing, fetched, resources, grantsSeen, retained>>
    BY <1>10 DEF FlushDelivers, remoteVars
  <2>3. doing' \in Doing /\ doing' # NoJob /\ doing'.kind = "flush" /\ doing'.accepted = Accepted
    BY <2>1, TakenTyped DEF Doing, NoJob
  <2>4. /\ refreshes' \in Seq({"watch", "tool"}) /\ OneRefresh' /\ refreshes' # <<>>
        /\ Len(refreshes') = 1 => refreshes = <<>>
    BY <2>1, <2>3, ChainGrows
  <2>5. marked' \in SUBSET Resource
    <3>1. \A c \in Accepted : c.id \in Resource
      BY TakenTyped DEF Change
    <3> QED BY <1>0, <1>10, <3>1 DEF FlushDelivers, TypeInv
  <2>6. MarksRespected'
    BY <1>0, <2>2, <2>4 DEF MarksRespected
  <2>7. TakenIsFresh'
    BY <1>0, <2>2, <2>3, TakenTyped, TakenNotStale DEF TakenIsFresh
  <2> QED BY <1>0, <2>1, <2>2, <2>3, <2>4, <2>5, <2>6, <2>7 DEF WatchInv, TypeInv, HeadWorks, Silence
<1>11. CASE ListResources
  <2>1. refreshes' = Append(refreshes, "tool") /\ watchClosing = "open"
    BY <1>11 DEF ListResources
  <2>2. UNCHANGED <<granted, known, watchedIds, changes, last, jobs, doing, pollTimer,
                    debounceTimer, watchClosing, marked, fetched, resources, grantsSeen, retained>>
    BY <1>11 DEF ListResources
  <2>3. /\ refreshes' \in Seq({"watch", "tool"}) /\ refreshes' # <<>>
        /\ Len(refreshes) \in Nat /\ Len(refreshes') = Len(refreshes) + 1
        /\ \A i \in 1 .. Len(refreshes) : refreshes'[i] = refreshes[i]
        /\ refreshes'[Len(refreshes')] = "tool"
        /\ Len(refreshes') = 1 => refreshes = <<>>
    BY <1>0, <2>1 DEF TypeInv
  <2>4. OneRefresh'
    <3>1. \A i \in 1 .. Len(refreshes') : refreshes'[i] = "watch" => i \in 1 .. Len(refreshes)
      BY <2>3
    <3> QED BY <1>0, <2>2, <2>3, <3>1 DEF OneRefresh
  <2>5. MarksRespected'
    BY <1>0, <2>2, <2>3 DEF MarksRespected
  <2> QED BY <1>0, <2>2, <2>3, <2>4, <2>5 DEF WatchInv, TypeInv, HeadWorks, TakenIsFresh, Silence
<1>12. CASE Loads
  <2>1. refreshes # <<>> /\ fetched' = [done |-> TRUE, ids |-> granted \ marked, grants |-> granted]
    BY <1>12 DEF Loads, Visible
  <2>2. UNCHANGED <<granted, known, watchedIds, changes, last, jobs, doing, pollTimer, debounceTimer,
                    watchClosing, marked, refreshes, resources, grantsSeen, retained>>
    BY <1>12 DEF Loads, remoteVars
  <2>3. fetched' \in Fetched /\ marked' \cap fetched'.ids = {}
    BY <1>0, <2>1, <2>2 DEF Fetched, TypeInv
  <2> QED BY <1>0, <2>1, <2>2, <2>3 DEF WatchInv, TypeInv, HeadWorks, OneRefresh, TakenIsFresh,
         MarksRespected, Silence
<1>13. CASE Synchronized
  <2>0. refreshes # <<>> /\ fetched # NotLoaded /\ fetched' = NotLoaded /\ refreshes' = Tail(refreshes)
    BY <1>13 DEF Synchronized
  <2>1. /\ fetched.ids \in SUBSET Resource /\ resources' = fetched.ids /\ watchedIds' \in SUBSET Resource
        /\ grantsSeen' \in SUBSET Resource /\ retained' \in BOOLEAN /\ fetched' \in Fetched
    BY <1>0, <1>13, <2>0, FetchedParts DEF Synchronized, TypeInv, Fetched
  <2>2. UNCHANGED <<granted, changes, debounceTimer, watchClosing, marked>>
    BY <1>13 DEF Synchronized, remoteVars
  <2>3. /\ refreshes' \in Seq({"watch", "tool"}) /\ Len(refreshes') = Len(refreshes) - 1
        /\ \A i \in 1 .. Len(refreshes') : refreshes'[i] = refreshes[i + 1]
        /\ Len(refreshes) \in Nat
    BY <1>0, <2>0, ChainAdvances DEF TypeInv
  <2>4. MarksRespected'
    <3>1. refreshes' = <<>> => Len(refreshes) = 1
      BY <2>3
    <3> QED BY <1>0, <2>0, <2>1, <2>2, <3>1 DEF MarksRespected
  <2>5. CASE Head(refreshes) = "tool"
    <3>1. UNCHANGED <<known, last, jobs, doing, pollTimer>>
      BY <1>13, <2>5 DEF Synchronized
    <3>2. OneRefresh'
      BY <1>0, <2>3, <3>1 DEF OneRefresh
    <3> QED BY <1>0, <2>1, <2>2, <2>3, <2>4, <3>1, <3>2 DEF WatchInv, TypeInv, HeadWorks, TakenIsFresh, Silence
  <2>6. CASE Head(refreshes) # "tool"
    <3>1. doing # NoJob /\ \A i \in 1 .. Len(refreshes') : refreshes'[i] # "watch"
      BY <2>0, <2>6, ChainAdvances
    <3>2. jobs # <<>> /\ EndJob
      BY <1>0, <1>13, <2>6, <3>1 DEF Synchronized, HeadWorks
    <3>3. known' \in SUBSET Resource
      BY <1>0, <1>13, <2>6, DoingKinds DEF Synchronized, TypeInv
    <3>4. last' \in [Resource -> 0 .. MaxAt]
      BY <1>13, <2>6, LastMoves
    <3>5. OneRefresh'
      BY <3>1 DEF OneRefresh
    <3>6. /\ HeadWorks' /\ TakenIsFresh' /\ doing' \in Doing
          /\ jobs' \in Seq(Jobs) /\ pollTimer' \in BOOLEAN
      BY <3>2, EndOfJob DEF HeadWorks, TakenIsFresh, NoJob, Doing
    <3>7. Silence'
      <4>1. watchClosing' # "closed" /\ watchClosing' = watchClosing /\ debounceTimer' = debounceTimer
        BY <2>2, <3>2, EndOfJob
      <4>2. watchClosing \in {"draining", "closed"} => ~pollTimer'
        BY <3>2, EndOfJob
      <4> QED BY <1>0, <4>1, <4>2 DEF Silence
    <3> QED BY <1>0, <2>1, <2>2, <2>3, <2>4, <3>3, <3>4, <3>5, <3>6, <3>7 DEF WatchInv, TypeInv
  <2> QED BY <2>5, <2>6
<1>14. CASE SynchronizationFails
  <2>0. refreshes # <<>> /\ fetched' = NotLoaded /\ refreshes' = Tail(refreshes) /\ retained' = TRUE
    BY <1>14 DEF SynchronizationFails
  <2>1. fetched' \in Fetched /\ retained' \in BOOLEAN
    BY <2>0 DEF Fetched
  <2>2. UNCHANGED <<granted, known, watchedIds, changes, last, debounceTimer, watchClosing, marked,
                    resources, grantsSeen>>
    BY <1>14 DEF SynchronizationFails, remoteVars
  <2>3. /\ refreshes' \in Seq({"watch", "tool"}) /\ Len(refreshes') = Len(refreshes) - 1
        /\ \A i \in 1 .. Len(refreshes') : refreshes'[i] = refreshes[i + 1]
        /\ Len(refreshes) \in Nat
    BY <1>0, <2>0, ChainAdvances DEF TypeInv
  <2>4. MarksRespected'
    BY <2>0 DEF MarksRespected
  <2>5. CASE Head(refreshes) = "tool"
    <3>1. UNCHANGED <<jobs, doing, pollTimer>>
      BY <1>14, <2>5 DEF SynchronizationFails
    <3>2. OneRefresh'
      BY <1>0, <2>3, <3>1 DEF OneRefresh
    <3> QED BY <1>0, <2>1, <2>2, <2>3, <2>4, <3>1, <3>2 DEF WatchInv, TypeInv, HeadWorks, TakenIsFresh, Silence
  <2>6. CASE Head(refreshes) # "tool"
    <3>1. doing # NoJob /\ \A i \in 1 .. Len(refreshes') : refreshes'[i] # "watch"
      BY <2>0, <2>6, ChainAdvances
    <3>2. jobs # <<>> /\ EndJob
      BY <1>0, <1>14, <2>6, <3>1 DEF SynchronizationFails, HeadWorks
    <3>5. OneRefresh'
      BY <3>1 DEF OneRefresh
    <3>6. /\ HeadWorks' /\ TakenIsFresh' /\ doing' \in Doing
          /\ jobs' \in Seq(Jobs) /\ pollTimer' \in BOOLEAN
      BY <3>2, EndOfJob DEF HeadWorks, TakenIsFresh, NoJob, Doing
    <3>7. Silence'
      <4>1. watchClosing' # "closed" /\ watchClosing' = watchClosing /\ debounceTimer' = debounceTimer
        BY <2>2, <3>2, EndOfJob
      <4>2. watchClosing \in {"draining", "closed"} => ~pollTimer'
        BY <3>2, EndOfJob
      <4> QED BY <1>0, <4>1, <4>2 DEF Silence
    <3> QED BY <1>0, <2>1, <2>2, <2>3, <2>4, <3>5, <3>6, <3>7 DEF WatchInv, TypeInv
  <2> QED BY <2>5, <2>6
<1>15. CASE CloseWatch
  <2>1. /\ watchClosing = "open" /\ watchClosing' = "draining" /\ pollTimer' = FALSE
        /\ debounceTimer' = FALSE /\ changes' = <<>>
    BY <1>15 DEF CloseWatch
  <2>2. UNCHANGED <<granted, known, watchedIds, last, jobs, doing, marked, refreshVars>>
    BY <1>15 DEF CloseWatch, remoteVars
  <2>3. Silence' /\ pollTimer' \in BOOLEAN /\ debounceTimer' \in BOOLEAN
    BY <2>1 DEF Silence
  <2> QED BY <1>0, <2>1, <2>2, <2>3 DEF WatchInv, TypeInv, HeadWorks, OneRefresh, TakenIsFresh,
         MarksRespected, refreshVars
<1>16. CASE Closed
  <2>1. watchClosing = "draining" /\ watchClosing' = "closed" /\ jobs = <<>>
    BY <1>16 DEF Closed, WatchIsIdle
  <2>2. UNCHANGED <<granted, known, watchedIds, changes, last, jobs, doing, pollTimer, debounceTimer,
                    marked, refreshVars>>
    BY <1>16 DEF Closed, remoteVars
  <2> QED BY <1>0, <2>1, <2>2 DEF WatchInv, TypeInv, HeadWorks, OneRefresh, TakenIsFresh,
         MarksRespected, Silence, refreshVars
<1>17. CASE UNCHANGED watchVars
  BY <1>0, <1>17 DEF WatchInv, TypeInv, HeadWorks, OneRefresh, TakenIsFresh,
         MarksRespected, Silence, watchVars, refreshVars, remoteVars
<1> QED BY <1>1, <1>2, <1>3, <1>4, <1>5, <1>6, <1>7, <1>8, <1>9, <1>10, <1>11, <1>12, <1>13,
       <1>14, <1>15, <1>16, <1>17 DEF WatchNext

LEMMA WatchInvariant == WatchSpec => []WatchInv
BY InitHolds, StepHolds, PTL DEF WatchSpec

-----------------------------------------------------------------------------
\* Every variable of the watch has its type, and what is under way is what the
\* first job of its queue does (enqueue).
THEOREM WatchTypes == WatchSpec => []WatchTypeOK
<1>1. WatchInv => WatchTypeOK
  BY DoingKinds DEF WatchInv, TypeInv, HeadWorks, WatchTypeOK, Jobs
<1> QED BY <1>1, WatchInvariant, PTL

\* Once close() has returned the watch is silent (close, schedulePoll).
THEOREM WatchQuiet == WatchSpec => []QuietAfterClose
<1>1. WatchInv => QuietAfterClose
  BY DEF WatchInv, HeadWorks, Silence, QuietAfterClose
<1> QED BY <1>1, WatchInvariant, PTL

\* A resource whose deletion was delivered is not on offer once the chain of
\* synchronizations has come to rest (onResourceChange, synchronize).
THEOREM WatchHidesDeleted == WatchSpec => []DeletedIsHidden
<1>1. WatchInv => DeletedIsHidden
  BY DEF WatchInv, MarksRespected, DeletedIsHidden
<1> QED BY <1>1, WatchInvariant, PTL

\* In whatever order events arrive, the last one processed of a resource is never
\* followed by an older one (isStaleByClawResourceChange, flushResourceChangesNow).
THEOREM WatchNewestWins == WatchSpec => NewestWins
<1>1. ASSUME WatchInv, [WatchNext]_watchVars, NEW r \in Resource PROVE last'[r] >= last[r]
  <2>0. last[r] \in Nat
    BY <1>1, WatchAssumption DEF WatchInv, TypeInv
  <2>1. CASE Synchronized /\ Head(refreshes) # "tool"
    BY <1>1, <2>1, LastMoves
  <2>2. CASE UNCHANGED last
    BY <2>0, <2>2
  <2>3. UNCHANGED last \/ (Synchronized /\ Head(refreshes) # "tool")
    BY <1>1 DEF WatchNext, watchVars, GrantChanges, Start, ReceiveChange, ReceiveNotice, PollFires,
       DebounceFires, CheckFindsNothing, CheckFindsChange, FlushFindsNothing, FlushDelivers,
       ListResources, Loads, Synchronized, SynchronizationFails, CloseWatch, Closed
  <2> QED BY <2>1, <2>2, <2>3
<1>2. WatchInv /\ [WatchNext]_watchVars => [\A r \in Resource : last'[r] >= last[r]]_watchVars
  BY <1>1
<1> QED BY <1>2, WatchInvariant, PTL DEF WatchSpec, NewestWins

---------------------------------------------------------------------------
(* The broker                                                              *)

\* q stands in the queue of session s.
Queued(s, q) == Contains(pending[s], q)

\* ask() of q still waits for its user to be shown the question or to answer.
Asking(q) == asked[q] \in {"emitting", "awaiting"}

BrokerTyped ==
  /\ asked \in [Question -> AskState]
  /\ promise \in [Question -> {"none", "open", "resolved", "rejected"}]
  /\ pending \in [AskSession -> Seq(Question)]
  /\ resumed \in [Question -> Nat] /\ aborted \in SUBSET Question

\* A question is pending, in its own session, exactly while its call waits and
\* its promise is open; the first Resume that finds it settles the promise.
Agreeing ==
  /\ \A s \in AskSession : Distinct(pending[s])
  /\ \A s \in AskSession, q \in Question :
       Queued(s, q) <=> s = askSessionOf[q] /\ Asking(q) /\ promise[q] = "open"
  /\ \A q \in Question :
       /\ asked[q] = "new" <=> promise[q] = "none"
       /\ resumed[q] \in {0, 1} /\ (resumed[q] = 1 => promise[q] = "resolved")
       /\ q \in aborted => promise[q] \in {"resolved", "rejected"}

BrokerInv == BrokerTyped /\ Agreeing

\* Taking an entry out of a queue without repetitions leaves the others.
LEMMA Removed ==
  ASSUME NEW S, NEW w \in Seq(S), NEW e, Distinct(w)
  PROVE  /\ RemoveFirst(w, e) \in Seq(S) /\ Distinct(RemoveFirst(w, e))
         /\ \A x : Contains(RemoveFirst(w, e), x) <=> x # e /\ Contains(w, x)
<1>1. CASE ~\E i \in 1..Len(w) : w[i] = e
  <2>1. RemoveFirst(w, e) = w
    BY <1>1 DEF RemoveFirst
  <2> QED BY <1>1, <2>1 DEF Contains
<1>2. CASE \E i \in 1..Len(w) : w[i] = e
  <2>1. PICK k \in 1..Len(w) : w[k] = e
    BY <1>2
  <2> DEFINE I == {i \in 1..Len(w) : w[i] = e}
             a == SubSeq(w, 1, k - 1)
             b == SubSeq(w, k + 1, Len(w))
  <2>2. I = {k}
    BY <2>1 DEF Distinct
  <2>3. Min({k}) = k
    BY DEF Min
  <2>4. SelectInSeq(w, LAMBDA v : v = e) = k
    <3>1. SelectInSeq(w, LAMBDA v : v = e) = IF I # {} THEN Min(I) ELSE 0
      BY DEF SelectInSeq
    <3> QED BY <2>2, <2>3, <3>1
  <2>5. RemoveFirst(w, e) = a \o b
    BY <1>2, <2>4 DEF RemoveFirst, RemoveAt
  <2>6. /\ a \in Seq(S) /\ Len(a) = k - 1 /\ \A i \in 1..(k - 1) : a[i] = w[i]
        /\ b \in Seq(S) /\ Len(b) = Len(w) - k /\ \A i \in 1..(Len(w) - k) : b[i] = w[k + i]
    BY <2>1
  <2> DEFINE r == a \o b
  <2>7. /\ r \in Seq(S) /\ Len(r) = Len(w) - 1
        /\ \A i \in 1..(Len(w) - 1) : i < k => r[i] = w[i]
        /\ \A i \in 1..(Len(w) - 1) : i >= k => r[i] = w[i + 1]
    <3> HIDE DEF a, b
    <3>1. /\ a \o b \in Seq(S) /\ Len(a \o b) = Len(a) + Len(b)
          /\ \A i \in 1..(Len(a) + Len(b)) :
               (a \o b)[i] = IF i <= Len(a) THEN a[i] ELSE b[i - Len(a)]
      BY <2>6, ConcatProperties
    <3>2. Len(a) + Len(b) = Len(w) - 1
      BY <2>1, <2>6
    <3>3. ASSUME NEW i \in 1..(Len(w) - 1), i < k PROVE (a \o b)[i] = w[i]
      BY <2>1, <2>6, <3>1, <3>2, <3>3
    <3>4. ASSUME NEW i \in 1..(Len(w) - 1), i >= k PROVE (a \o b)[i] = w[i + 1]
      <4> DEFINE j == i - (k - 1)
      <4>1. j \in 1..(Len(w) - k) /\ k + j = i + 1
        BY <2>1, <3>4
      <4>2. (a \o b)[i] = b[j]
        BY <2>1, <2>6, <3>1, <3>2, <3>4
      <4> HIDE DEF j
      <4>3. b[j] = w[k + j]
        BY <2>6, <4>1
      <4> QED BY <4>1, <4>2, <4>3
    <3> QED BY <3>1, <3>2, <3>3, <3>4
  <2> HIDE DEF r
  <2>8. Distinct(r)
    <3> SUFFICES ASSUME NEW i \in 1..Len(r), NEW j \in 1..Len(r), r[i] = r[j] PROVE i = j
      BY DEF Distinct
    <3> DEFINE at(n) == IF n < k THEN n ELSE n + 1
    <3>1. \A n \in 1..Len(r) : at(n) \in 1..Len(w) /\ r[n] = w[at(n)]
      BY <2>1, <2>7
    <3>2. at(i) = at(j)
      <4> HIDE DEF at
      <4> QED BY <3>1 DEF Distinct
    <3> QED BY <2>1, <2>7, <3>2
  <2>9. ASSUME NEW x
        PROVE  Contains(r, x) <=> x # e /\ Contains(w, x)
    <3>1. ASSUME NEW i \in 1..Len(r), r[i] = x
          PROVE  x # e /\ \E j \in 1..Len(w) : w[j] = x
      <4> DEFINE j == IF i < k THEN i ELSE i + 1
      <4>1. j \in 1..Len(w) /\ j # k /\ w[j] = x
        BY <2>1, <2>7, <3>1
      <4> QED BY <2>1, <4>1 DEF Distinct
    <3>2. ASSUME x # e, NEW j \in 1..Len(w), w[j] = x
          PROVE  \E i \in 1..Len(r) : r[i] = x
      <4> DEFINE i == IF j < k THEN j ELSE j - 1
      <4>1. i \in 1..Len(r) /\ r[i] = x
        BY <2>1, <2>7, <3>2
      <4> QED BY <4>1
    <3> QED BY <3>1, <3>2 DEF Contains
  <2>10. RemoveFirst(w, e) = r
    BY <2>5 DEF r
  <2> QED BY <2>7, <2>8, <2>9, <2>10
<1> QED BY <1>1, <1>2

LEMMA Appended ==
  ASSUME NEW S, NEW w \in Seq(S), Distinct(w), NEW e \in S, ~Contains(w, e)
  PROVE  /\ Append(w, e) \in Seq(S) /\ Distinct(Append(w, e))
         /\ \A x : Contains(Append(w, e), x) <=> x = e \/ Contains(w, x)
<1> DEFINE r == Append(w, e)
<1>1. /\ r \in Seq(S) /\ Len(r) = Len(w) + 1 /\ r[Len(w) + 1] = e
      /\ \A i \in 1..Len(w) : r[i] = w[i]
  OBVIOUS
<1> HIDE DEF r
<1>2. \A i \in 1..Len(r) : i \in 1..Len(w) \/ i = Len(w) + 1
  BY <1>1
<1>3. Distinct(r)
  BY <1>1, <1>2 DEF Distinct, Contains
<1>4. ASSUME NEW x
      PROVE  Contains(r, x) <=> x = e \/ Contains(w, x)
  <2>1. Len(w) + 1 \in 1..Len(r) /\ \A i \in 1..Len(w) : i \in 1..Len(r)
    BY <1>1
  <2> QED BY <1>1, <1>2, <2>1 DEF Contains
<1> QED BY <1>1, <1>3, <1>4 DEF r

\* The queue of session s without q, every other queue as it was.
LEMMA Withdrawn ==
  ASSUME BrokerInv, NEW s \in AskSession, NEW q \in Question,
         pending' = [pending EXCEPT ![s] = RemoveFirst(@, q)]
  PROVE  /\ pending' \in [AskSession -> Seq(Question)]
         /\ \A t \in AskSession : Distinct(pending'[t])
         /\ \A t \in AskSession, x \in Question :
              Queued(t, x)' <=> Queued(t, x) /\ ~(t = s /\ x = q)
<1>1. pending \in [AskSession -> Seq(Question)] /\ \A t \in AskSession : Distinct(pending[t])
  BY DEF BrokerInv, BrokerTyped, Agreeing
<1>2. /\ RemoveFirst(pending[s], q) \in Seq(Question)
      /\ Distinct(RemoveFirst(pending[s], q))
      /\ \A x : Contains(RemoveFirst(pending[s], q), x) <=> x # q /\ Contains(pending[s], x)
  BY <1>1, Removed
<1>3. /\ pending'[s] = RemoveFirst(pending[s], q)
      /\ \A t \in AskSession \ {s} : pending'[t] = pending[t]
      /\ pending' \in [AskSession -> Seq(Question)]
  BY <1>1, <1>2
<1>4. ASSUME NEW t \in AskSession, NEW x \in Question
      PROVE  /\ Distinct(pending'[t])
             /\ Queued(t, x)' <=> Queued(t, x) /\ ~(t = s /\ x = q)
  <2>1. CASE t = s
    BY <1>2, <1>3, <2>1 DEF Queued
  <2>2. CASE t # s
    BY <1>1, <1>3, <2>2 DEF Queued
  <2> QED BY <2>1, <2>2
<1>5. ASSUME NEW t \in AskSession PROVE Distinct(pending'[t])
  BY <1>1, <1>2, <1>3
<1> QED BY <1>3, <1>4, <1>5

LEMMA BrokerStart == BrokerInit => BrokerInv
<1> SUFFICES ASSUME BrokerInit PROVE BrokerTyped /\ Agreeing
  BY DEF BrokerInv
<1>1. BrokerTyped
  BY DEF BrokerInit, BrokerTyped, AskState
<1>2. \A s \in AskSession : pending[s] = <<>>
  BY DEF BrokerInit
<1>3. \A q \in Question : asked[q] = "new" /\ promise[q] = "none" /\ resumed[q] = 0 /\ q \notin aborted
  BY DEF BrokerInit
<1>4. \A s \in AskSession : Distinct(pending[s]) /\ \A q \in Question : ~Queued(s, q)
  BY <1>2 DEF Distinct, Queued, Contains
<1> QED BY <1>1, <1>3, <1>4 DEF Agreeing, Asking

\* A Resume that finds q, which is pending.
LEMMA ResolvesStep ==
  ASSUME BrokerInv, NEW s \in AskSession, NEW q \in Question, Queued(s, q), Resolves(s, q)
  PROVE  BrokerInv'
<1>1. /\ pending' = [pending EXCEPT ![s] = RemoveFirst(@, q)]
      /\ promise' = [promise EXCEPT ![q] = IF @ = "open" THEN "resolved" ELSE @]
      /\ resumed' = [resumed EXCEPT ![q] = @ + 1]
      /\ UNCHANGED <<asked, aborted>>
  BY DEF Resolves, Take
<1>2. s = askSessionOf[q] /\ Asking(q) /\ promise[q] = "open"
  BY DEF BrokerInv, Agreeing
<1>3. /\ promise' = [promise EXCEPT ![q] = "resolved"]
      /\ resumed[q] = 0 /\ resumed' = [resumed EXCEPT ![q] = 1]
  <2>1. resumed[q] = 0
    BY <1>2 DEF BrokerInv, Agreeing
  <2> QED BY <1>1, <1>2, <2>1
<1>4. /\ pending' \in [AskSession -> Seq(Question)]
      /\ \A t \in AskSession : Distinct(pending'[t])
      /\ \A t \in AskSession, x \in Question :
           Queued(t, x)' <=> Queued(t, x) /\ ~(t = s /\ x = q)
  BY <1>1, Withdrawn
<1>5. BrokerTyped'
  BY <1>1, <1>3, <1>4 DEF BrokerInv, BrokerTyped
<1>6. ASSUME NEW t \in AskSession, NEW x \in Question
      PROVE  Queued(t, x)' <=> t = askSessionOf[x] /\ Asking(x)' /\ promise'[x] = "open"
  <2>1. Queued(t, x) <=> t = askSessionOf[x] /\ Asking(x) /\ promise[x] = "open"
    BY DEF BrokerInv, Agreeing
  <2> QED BY <1>1, <1>2, <1>3, <1>4, <2>1 DEF Asking, BrokerInv, BrokerTyped
<1>7. ASSUME NEW x \in Question
      PROVE  /\ asked'[x] = "new" <=> promise'[x] = "none"
             /\ resumed'[x] \in {0, 1} /\ (resumed'[x] = 1 => promise'[x] = "resolved")
             /\ x \in aborted' => promise'[x] \in {"resolved", "rejected"}
  BY <1>1, <1>2, <1>3 DEF Asking, BrokerInv, BrokerTyped, Agreeing
<1> QED BY <1>4, <1>5, <1>6, <1>7 DEF BrokerInv, Agreeing

\* A call that ends or is aborted: q is withdrawn and no longer waits with an
\* open promise.
LEMMA WithdrawStep ==
  ASSUME BrokerInv, NEW q \in Question, pending' = Withdraw(askSessionOf[q], q),
         UNCHANGED resumed, aborted' \in {aborted, aborted \cup {q}},
         asked[q] # "new",
         asked' \in [Question -> AskState], \A x \in Question \ {q} : asked'[x] = asked[x],
         promise' \in [Question -> {"none", "open", "resolved", "rejected"}],
         \A x \in Question \ {q} : promise'[x] = promise[x],
         asked'[q] # "new", promise'[q] # "none",
         ~(Asking(q)' /\ promise'[q] = "open"),
         promise[q] = "resolved" => promise'[q] = "resolved",
         q \in aborted' => promise'[q] # "open"
  PROVE  BrokerInv'
<1>1. askSessionOf[q] \in AskSession
  BY BrokerAssumption
<1>2. /\ pending' \in [AskSession -> Seq(Question)]
      /\ \A t \in AskSession : Distinct(pending'[t])
      /\ \A t \in AskSession, x \in Question :
           Queued(t, x)' <=> Queued(t, x) /\ ~(t = askSessionOf[q] /\ x = q)
  BY <1>1, Withdrawn DEF Withdraw
<1>3. BrokerTyped'
  BY <1>2 DEF BrokerInv, BrokerTyped
<1>4. ASSUME NEW t \in AskSession, NEW x \in Question
      PROVE  Queued(t, x)' <=> t = askSessionOf[x] /\ Asking(x)' /\ promise'[x] = "open"
  <2>1. Queued(t, x) <=> t = askSessionOf[x] /\ Asking(x) /\ promise[x] = "open"
    BY DEF BrokerInv, Agreeing
  <2>2. CASE x = q
    BY <1>2, <2>1, <2>2
  <2>3. CASE x # q
    <3>1. (Asking(x)' <=> Asking(x)) /\ promise'[x] = promise[x]
      BY <2>3 DEF Asking
    <3> QED BY <1>2, <2>1, <2>3, <3>1
  <2> QED BY <2>2, <2>3
<1>5. ASSUME NEW x \in Question
      PROVE  /\ asked'[x] = "new" <=> promise'[x] = "none"
             /\ resumed'[x] \in {0, 1} /\ (resumed'[x] = 1 => promise'[x] = "resolved")
             /\ x \in aborted' => promise'[x] \in {"resolved", "rejected"}
  BY DEF BrokerInv, BrokerTyped, Agreeing
<1> QED BY <1>2, <1>3, <1>4, <1>5 DEF BrokerInv, Agreeing

LEMMA BrokerStep == BrokerInv /\ [BrokerNext]_brokerVars => BrokerInv'
<1> SUFFICES ASSUME BrokerInv, [BrokerNext]_brokerVars PROVE BrokerInv'
  OBVIOUS
<1> USE DEF AskState
<1>1. ASSUME NEW q \in Question, AskUser(q) PROVE BrokerInv'
  <2> DEFINE s == askSessionOf[q]
  <2>1. s \in AskSession
    BY BrokerAssumption
  <2>2. ~Queued(s, q) /\ asked[q] = "new" /\ promise[q] = "none" /\ q \notin aborted
        /\ resumed[q] = 0
    BY <1>1, <2>1 DEF AskUser, BrokerInv, Agreeing, Asking
  <2>3. /\ pending' = [pending EXCEPT ![s] = Append(@, q)]
        /\ asked' = [asked EXCEPT ![q] = "emitting"] /\ promise' = [promise EXCEPT ![q] = "open"]
        /\ UNCHANGED <<resumed, aborted>>
    BY <1>1 DEF AskUser
  <2>4. pending[s] \in Seq(Question) /\ Distinct(pending[s])
    BY <2>1 DEF BrokerInv, BrokerTyped, Agreeing
  <2>5. /\ Append(pending[s], q) \in Seq(Question) /\ Distinct(Append(pending[s], q))
        /\ \A x : Contains(Append(pending[s], q), x) <=> x = q \/ Contains(pending[s], x)
    BY <2>2, <2>4, Appended DEF Queued
  <2>6. /\ pending'[s] = Append(pending[s], q)
        /\ \A t \in AskSession \ {s} : pending'[t] = pending[t]
        /\ pending' \in [AskSession -> Seq(Question)]
    BY <2>1, <2>3, <2>5 DEF BrokerInv, BrokerTyped
  <2>7. ASSUME NEW t \in AskSession PROVE Distinct(pending'[t])
    BY <2>5, <2>6 DEF BrokerInv, Agreeing
  <2>8. ASSUME NEW t \in AskSession, NEW x \in Question
        PROVE  Queued(t, x)' <=> Queued(t, x) \/ (t = s /\ x = q)
    <3>1. CASE t = s
      BY <2>5, <2>6, <3>1 DEF Queued
    <3>2. CASE t # s
      BY <2>6, <3>2 DEF Queued
    <3> QED BY <3>1, <3>2
  <2>9. ASSUME NEW t \in AskSession, NEW x \in Question
        PROVE  Queued(t, x)' <=> t = askSessionOf[x] /\ Asking(x)' /\ promise'[x] = "open"
    <3>1. Queued(t, x) <=> t = askSessionOf[x] /\ Asking(x) /\ promise[x] = "open"
      BY DEF BrokerInv, Agreeing
    <3>2. CASE x = q
      BY <2>1, <2>3, <2>8, <3>1, <3>2 DEF Asking, BrokerInv, BrokerTyped
    <3>3. CASE x # q
      BY <2>3, <2>8, <3>1, <3>3 DEF Asking, BrokerInv, BrokerTyped
    <3> QED BY <3>2, <3>3
  <2>10. BrokerTyped'
    BY <2>3, <2>6 DEF BrokerInv, BrokerTyped
  <2>11. ASSUME NEW x \in Question
         PROVE  /\ asked'[x] = "new" <=> promise'[x] = "none"
                /\ resumed'[x] \in {0, 1} /\ (resumed'[x] = 1 => promise'[x] = "resolved")
                /\ x \in aborted' => promise'[x] \in {"resolved", "rejected"}
    BY <2>2, <2>3 DEF BrokerInv, BrokerTyped, Agreeing
  <2> QED BY <2>7, <2>9, <2>10, <2>11 DEF BrokerInv, Agreeing
<1>2. ASSUME NEW q \in Question, Emitted(q) PROVE BrokerInv'
  <2>1. /\ asked[q] = "emitting" /\ asked' = [asked EXCEPT ![q] = "awaiting"]
        /\ UNCHANGED <<promise, pending, resumed, aborted>>
    BY <1>2 DEF Emitted
  <2>2. \A x \in Question : /\ Asking(x)' <=> Asking(x)
                            /\ asked'[x] = "new" <=> asked[x] = "new"
    BY <2>1 DEF Asking, BrokerInv, BrokerTyped
  <2>3. BrokerTyped'
    BY <2>1 DEF BrokerInv, BrokerTyped
  <2> QED BY <2>1, <2>2, <2>3 DEF BrokerInv, Agreeing, Queued
<1>3. ASSUME NEW q \in Question, EmitFails(q) PROVE BrokerInv'
  <2>1. /\ asked[q] = "emitting" /\ asked' = [asked EXCEPT ![q] = "failed"]
        /\ pending' = Withdraw(askSessionOf[q], q) /\ UNCHANGED <<promise, resumed, aborted>>
    BY <1>3 DEF EmitFails
  <2>2. /\ asked' \in [Question -> AskState] /\ asked'[q] = "failed"
        /\ \A x \in Question \ {q} : asked'[x] = asked[x]
        /\ promise' \in [Question -> {"none", "open", "resolved", "rejected"}]
    BY <2>1 DEF BrokerInv, BrokerTyped
  <2>3. promise[q] # "none" /\ (q \in aborted => promise[q] # "open")
    BY <2>1 DEF BrokerInv, Agreeing
  <2> QED BY <2>1, <2>2, <2>3, WithdrawStep DEF Asking
<1>4. ASSUME NEW q \in Question, Returns(q) PROVE BrokerInv'
  <2>1. /\ asked[q] = "awaiting" /\ promise[q] # "open"
        /\ asked' = [asked EXCEPT ![q] = IF promise[q] = "resolved" THEN "answered" ELSE "failed"]
        /\ pending' = IF promise[q] = "resolved" THEN pending ELSE Withdraw(askSessionOf[q], q)
        /\ UNCHANGED <<promise, resumed, aborted>>
    BY <1>4 DEF Returns
  <2>2. /\ asked' \in [Question -> AskState] /\ asked'[q] \in {"answered", "failed"}
        /\ \A x \in Question \ {q} : asked'[x] = asked[x]
        /\ ~Asking(q)'
    BY <2>1 DEF BrokerInv, BrokerTyped, Asking
  <2>3. CASE promise[q] = "resolved"
    <3>1. UNCHANGED <<promise, pending, resumed, aborted>>
      BY <2>1, <2>3
    <3>2. \A x \in Question : /\ Asking(x)' /\ promise'[x] = "open"
                                   <=> Asking(x) /\ promise[x] = "open"
                              /\ asked'[x] = "new" <=> asked[x] = "new"
      BY <2>1, <2>2, <3>1 DEF Asking
    <3> QED BY <2>2, <3>1, <3>2 DEF BrokerInv, BrokerTyped, Agreeing, Queued
  <2>4. CASE promise[q] # "resolved"
    BY <2>1, <2>2, <2>4, WithdrawStep DEF BrokerInv, BrokerTyped, Agreeing
  <2> QED BY <2>3, <2>4
<1>5. ASSUME NEW q \in Question, Abort(q) PROVE BrokerInv'
  <2>1. /\ Asking(q) /\ aborted' = aborted \cup {q}
        /\ pending' = Withdraw(askSessionOf[q], q)
        /\ promise' = [promise EXCEPT ![q] = IF @ = "open" THEN "rejected" ELSE @]
        /\ UNCHANGED <<asked, resumed>>
    BY <1>5 DEF Abort, Rejected, Asking
  <2>2. /\ promise' \in [Question -> {"none", "open", "resolved", "rejected"}]
        /\ \A x \in Question \ {q} : promise'[x] = promise[x]
        /\ promise'[q] \in {"resolved", "rejected"} /\ asked[q] # "new"
        /\ promise[q] = "resolved" => promise'[q] = "resolved"
    BY <2>1 DEF BrokerInv, BrokerTyped, Agreeing, Asking
  <2> QED BY <2>1, <2>2, WithdrawStep DEF BrokerInv, BrokerTyped
<1>6. ASSUME NEW q \in Question, ResumeNamed(q) PROVE BrokerInv'
  <2>1. askSessionOf[q] \in AskSession /\ Queued(askSessionOf[q], q) /\ Resolves(askSessionOf[q], q)
    BY <1>6, BrokerAssumption DEF ResumeNamed, Queued
  <2> QED BY <2>1, ResolvesStep
<1>7. ASSUME NEW s \in AskSession, ResumePlain(s) PROVE BrokerInv'
  <2>1. pending[s] \in Seq(Question) /\ pending[s] # <<>> /\ Resolves(s, Head(pending[s]))
    BY <1>7 DEF ResumePlain, BrokerInv, BrokerTyped
  <2>2. Head(pending[s]) \in Question /\ Queued(s, Head(pending[s]))
    BY <2>1 DEF Queued, Contains
  <2> QED BY <2>1, <2>2, ResolvesStep
<1>8. ASSUME NEW s \in AskSession, CancelSession(s) PROVE BrokerInv'
  <2>1. /\ promise' = [q \in Question |-> IF Contains(pending[s], q) THEN "rejected" ELSE promise[q]]
        /\ pending' = [pending EXCEPT ![s] = <<>>] /\ UNCHANGED <<asked, resumed, aborted>>
    BY <1>8 DEF CancelSession
  <2>2. \A q \in Question : promise'[q] = IF Queued(s, q) THEN "rejected" ELSE promise[q]
    BY <2>1 DEF Queued
  <2>3. /\ BrokerTyped'
        /\ pending'[s] = <<>> /\ \A t \in AskSession \ {s} : pending'[t] = pending[t]
    BY <2>1 DEF BrokerInv, BrokerTyped
  <2>4. ASSUME NEW t \in AskSession PROVE Distinct(pending'[t])
    BY <2>3 DEF BrokerInv, Agreeing, Distinct
  <2>5. ASSUME NEW t \in AskSession, NEW x \in Question
        PROVE  Queued(t, x)' <=> t = askSessionOf[x] /\ Asking(x)' /\ promise'[x] = "open"
    <3>1. /\ Queued(t, x) <=> t = askSessionOf[x] /\ Asking(x) /\ promise[x] = "open"
          /\ Queued(s, x) <=> s = askSessionOf[x] /\ Asking(x) /\ promise[x] = "open"
          /\ Asking(x)' <=> Asking(x)
      BY <2>1 DEF BrokerInv, Agreeing, Asking
    <3>2. CASE t = s
      <4>1. ~Queued(t, x)'
        BY <2>3, <3>2 DEF Queued, Contains
      <4> QED BY <2>2, <3>1, <3>2, <4>1
    <3>3. CASE t # s
      <4>1. Queued(t, x)' <=> Queued(t, x)
        BY <2>3, <3>3 DEF Queued
      <4> QED BY <2>2, <3>1, <3>3, <4>1
    <3> QED BY <3>2, <3>3
  <2>6. ASSUME NEW x \in Question
        PROVE  /\ asked'[x] = "new" <=> promise'[x] = "none"
               /\ resumed'[x] \in {0, 1} /\ (resumed'[x] = 1 => promise'[x] = "resolved")
               /\ x \in aborted' => promise'[x] \in {"resolved", "rejected"}
    <3>1. Queued(s, x) => promise[x] = "open"
      BY DEF BrokerInv, Agreeing
    <3> QED BY <2>1, <2>2, <3>1 DEF BrokerInv, Agreeing
  <2> QED BY <2>3, <2>4, <2>5, <2>6 DEF BrokerInv, Agreeing
<1>9. CASE UNCHANGED brokerVars
  <2>1. UNCHANGED <<asked, promise, pending, resumed, aborted>>
    BY <1>9 DEF brokerVars
  <2>2. BrokerTyped'
    BY <2>1 DEF BrokerInv, BrokerTyped
  <2>3. \A s \in AskSession, q \in Question : /\ Queued(s, q)' <=> Queued(s, q)
                                             /\ Asking(q)' <=> Asking(q)
    BY <2>1 DEF Queued, Asking
  <2>4. \A s \in AskSession : Distinct(pending'[s])
    BY <2>1 DEF BrokerInv, Agreeing
  <2>5. ASSUME NEW s \in AskSession, NEW q \in Question
        PROVE  Queued(s, q)' <=> s = askSessionOf[q] /\ Asking(q)' /\ promise'[q] = "open"
    <3>1. Queued(s, q) <=> s = askSessionOf[q] /\ Asking(q) /\ promise[q] = "open"
      BY DEF BrokerInv, Agreeing
    <3>2. /\ Queued(s, q)' <=> Queued(s, q)
          /\ Asking(q)' <=> Asking(q)
          /\ promise'[q] = promise[q]
      BY <2>1 DEF Queued, Asking
    <3> QED BY <3>1, <3>2
  <2>6. \A q \in Question :
          /\ asked'[q] = "new" <=> promise'[q] = "none"
          /\ resumed'[q] \in {0, 1} /\ (resumed'[q] = 1 => promise'[q] = "resolved")
          /\ q \in aborted' => promise'[q] \in {"resolved", "rejected"}
    BY <2>1 DEF BrokerInv, Agreeing
  <2> QED BY <2>2, <2>4, <2>5, <2>6 DEF BrokerInv, Agreeing
<1> QED BY <1>1, <1>2, <1>3, <1>4, <1>5, <1>6, <1>7, <1>8, <1>9 DEF BrokerNext

LEMMA BrokerInvariant == BrokerSpec => []BrokerInv
BY BrokerStart, BrokerStep, PTL DEF BrokerSpec

\* Whoever still waits for an answer can be answered: its question is pending in
\* its own session, whatever was aborted, cancelled, answered or failed (ask, remove).
THEOREM WaitersArePending == BrokerSpec => [](BrokerTypeOK /\ WaiterIsPending)
<1>1. BrokerInv => BrokerTypeOK
  BY DEF BrokerInv, BrokerTyped, Agreeing, BrokerTypeOK
<1>2. ASSUME BrokerInv, NEW q \in Question, asked[q] = "awaiting", promise[q] = "open"
      PROVE  \E i \in DOMAIN pending[askSessionOf[q]] : pending[askSessionOf[q]][i] = q
  <2>1. askSessionOf[q] \in AskSession /\ pending[askSessionOf[q]] \in Seq(Question)
    BY <1>2, BrokerAssumption DEF BrokerInv, BrokerTyped
  <2>2. Queued(askSessionOf[q], q)
    BY <1>2, <2>1 DEF BrokerInv, Agreeing, Asking
  <2> QED BY <2>1, <2>2 DEF Queued, Contains
<1>3. BrokerInv => WaiterIsPending
  BY <1>2 DEF WaiterIsPending
<1> QED BY <1>1, <1>3, BrokerInvariant, PTL

\* A Resume never spends itself on a question that is over or answered, and finds
\* each question once at most (resume, resumeStructured).
THEOREM ResumesFindOpen == BrokerSpec => []ResumeFindsOpen
<1>1. ASSUME BrokerInv, NEW s \in AskSession, NEW i \in DOMAIN pending[s]
      PROVE  LET q == pending[s][i] IN promise[q] = "open" /\ ~Over(q) /\ askSessionOf[q] = s
  <2>1. pending[s] \in Seq(Question)
    BY <1>1 DEF BrokerInv, BrokerTyped
  <2>2. pending[s][i] \in Question /\ Queued(s, pending[s][i])
    BY <1>1, <2>1 DEF Queued, Contains
  <2> QED BY <1>1, <2>2 DEF BrokerInv, Agreeing, Asking, Over
<1>2. ASSUME BrokerInv, NEW q \in Question PROVE resumed[q] <= 1
  BY <1>2 DEF BrokerInv, Agreeing
<1>3. BrokerInv => ResumeFindsOpen
  BY <1>1, <1>2 DEF ResumeFindsOpen
<1> QED BY <1>3, BrokerInvariant, PTL

---------------------------------------------------------------------------
(* The parts side by side                                                  *)

\* Each part takes its own steps or none.
LEMMA PartsAlone == ByClawSpec => SessionSpec /\ BrokerSpec /\ WatchSpec
<1>1. ByClawInit => SessionInit /\ BrokerInit /\ WatchInit
  BY DEF ByClawInit
<1>2. [ByClawNext]_byClawVars => /\ [SessionNext]_sessionVars
                                /\ [BrokerNext]_brokerVars
                                /\ [WatchNext]_watchVars
  BY DEF ByClawNext, byClawVars
<1> QED BY <1>1, <1>2, PTL DEF ByClawSpec, SessionSpec, BrokerSpec, WatchSpec

\* The books of every part agree with each other, whatever part is at work:
\* commands one at a time, waiting questions pending, Resumes that find open ones,
\* a watch that is silent once closed.
THEOREM RuntimeAgrees == ByClawSpec => []RuntimeConsistent
<1>1. /\ SessionTypeOK /\ OneAtATime
      /\ BrokerTypeOK /\ WaiterIsPending /\ ResumeFindsOpen
      /\ WatchTypeOK /\ QuietAfterClose
      => RuntimeConsistent
  BY DEF RuntimeConsistent
<1> QED BY <1>1, PartsAlone, SessionInLine, WaitersArePending, ResumesFindOpen,
           WatchTypes, WatchQuiet, PTL
=================================================================================
