----------------------------- MODULE GitPanelProofs -----------------------------
(***************************************************************************)
(* Theorems about GitPanel: the panel never shows data of two checkouts,   *)
(* its flags wait only for requests in flight, but for that of a page a    *)
(* change of the filters or a write has overtaken, and a status on screen  *)
(* is never replaced by an older one, for any repositories, filters and    *)
(* any number of requests in flight.                                       *)
(***************************************************************************)
EXTENDS GitPanel, SequenceTheorems, TLAPS

ShownView == [scope : Scope, repo : Repo \cup {Nothing}, version : 0..MaxVersion]
Part == [scope : Scope, repo : Repo \cup {Nothing}, query : Query, from : Nat]
Slots == [Request -> Call \cup {Nothing}]

Panel == [scope : Scope, target : Repo \cup {Nothing}, inventory : SUBSET Repo,
          status : ShownView \cup {Nothing}, log : Seq(Part), more : BOOLEAN,
          loading : BOOLEAN, historyLoading : BOOLEAN, pageLoading : BOOLEAN,
          busy : BOOLEAN, pending : BOOLEAN, filters : Query,
          tried : Repo \cup {Nothing}, requests : Slots]

\* Request n of panel p is in flight and belongs to generation g.
Owns(p, n, g) == p.requests[n] # Nothing /\ g \in p.requests[n].owns

OfKind(p, n, kinds) == p.requests[n].kind \in kinds

---------------------------------------------------------------------------
(* Requests                                                                *)

\* A request after generations G have been raised.
Less(c, G) == IF c = Nothing THEN Nothing ELSE [c EXCEPT !.owns = @ \ G]

\* Two requests ask for the same and have got the same answers.
Twins(c, d) == /\ c.kind = d.kind /\ c.scope = d.scope /\ c.repo = d.repo /\ c.query = d.query
               /\ c.from = d.from /\ c.whole = d.whole /\ c.replies = d.replies

LEMMA CallIsSomething == Nothing \notin Call
BY NothingAssumption

LEMMA LessOwns ==
  ASSUME NEW c \in Call, NEW G
  PROVE  /\ Less(c, G) \in Call /\ Twins(Less(c, G), c)
         /\ Less(c, G).owns = c.owns \ G
<1>1. Less(c, G) = [c EXCEPT !.owns = @ \ G]
  BY CallIsSomething DEF Less
<1>2. [c EXCEPT !.owns = @ \ G] \in Call
  BY DEF Call
<1>3. /\ [c EXCEPT !.owns = @ \ G].owns = c.owns \ G
      /\ Twins([c EXCEPT !.owns = @ \ G], c)
  BY DEF Call, Twins
<1> QED BY <1>1, <1>2, <1>3

LEMMA LessTwice ==
  ASSUME NEW c \in Call \cup {Nothing}, NEW G, NEW H
  PROVE  Less(Less(c, G), H) = Less(c, G \cup H)
<1>1. CASE c = Nothing
  BY <1>1 DEF Less
<1>2. CASE c # Nothing
  <2>1. c \in Call
    BY <1>2
  <2>2. Less(c, G) \in Call /\ Less(c, G).owns = c.owns \ G
    BY <2>1, LessOwns
  <2>3. /\ Less(c, G) = [c EXCEPT !.owns = c.owns \ G]
        /\ Less(c, G \cup H) = [c EXCEPT !.owns = c.owns \ (G \cup H)]
        /\ Less(Less(c, G), H) = [Less(c, G) EXCEPT !.owns = (c.owns \ G) \ H]
    BY <2>1, <2>2, CallIsSomething DEF Less
  <2>4. (c.owns \ G) \ H = c.owns \ (G \cup H)
    OBVIOUS
  <2>5. [[c EXCEPT !.owns = c.owns \ G] EXCEPT !.owns = c.owns \ (G \cup H)]
          = [c EXCEPT !.owns = c.owns \ (G \cup H)]
    BY <2>1 DEF Call
  <2> QED BY <2>3, <2>4, <2>5
<1> QED BY <1>1, <1>2

\* Raising generations takes them from every request and changes nothing else.
LEMMA RaisedFields ==
  ASSUME NEW p \in Panel, NEW G
  PROVE  /\ Raise(p, G) = [p EXCEPT !.requests = [n \in Request |-> Less(p.requests[n], G)]]
         /\ Raise(p, G) \in Panel
<1>1. Raise(p, G) = [p EXCEPT !.requests = [n \in Request |-> Less(p.requests[n], G)]]
  BY DEF Raise, Less
<1>2. p.requests \in Slots
  BY DEF Panel
<1>3. [n \in Request |-> Less(p.requests[n], G)] \in Slots
  BY <1>2, LessOwns DEF Slots, Less
<1>4. [p EXCEPT !.requests = [n \in Request |-> Less(p.requests[n], G)]] \in Panel
  BY <1>3 DEF Panel
<1> QED BY <1>1, <1>4

LEMMA EmptyReplies ==
  /\ <<>> \in UNION {[R -> Answer] : R \in SUBSET Reading}
  /\ DOMAIN <<>> = {}
<1>1. <<>> \in [{} -> Answer] /\ DOMAIN <<>> = {}
  OBVIOUS
<1>2. {} \in SUBSET Reading
  OBVIOUS
<1> QED BY <1>1, <1>2

\* The request a panel makes.
CallOf(p, kind, owns, from, whole) ==
  [kind |-> kind, scope |-> p.scope, repo |-> p.target, query |-> p.filters,
   from |-> from, whole |-> whole, owns |-> owns, replies |-> <<>>]

Kinds == {"inventory", "load", "poll", "filter", "page", "write"}

LEMMA CallOfType ==
  ASSUME NEW p \in Panel, NEW kind \in Kinds, NEW owns \in SUBSET Generation,
         NEW from \in Nat, NEW whole \in BOOLEAN
  PROVE  CallOf(p, kind, owns, from, whole) \in Call
BY EmptyReplies DEF CallOf, Call, Panel, Kinds

LEMMA Asked ==
  ASSUME NEW p \in Panel, NEW n \in Request, NEW kind \in Kinds,
         NEW owns \in SUBSET Generation, NEW from \in Nat, NEW whole \in BOOLEAN
  PROVE  /\ Ask(p, n, kind, owns, from, whole)
              = [p EXCEPT !.requests[n] = CallOf(p, kind, owns, from, whole)]
         /\ Ask(p, n, kind, owns, from, whole) \in Panel
<1>1. Ask(p, n, kind, owns, from, whole)
              = [p EXCEPT !.requests[n] = CallOf(p, kind, owns, from, whole)]
  BY DEF Ask, CallOf
<1>2. p.requests \in Slots
  BY DEF Panel
<1>3. [p.requests EXCEPT ![n] = CallOf(p, kind, owns, from, whole)] \in Slots
  BY <1>2, CallOfType DEF Slots
<1>4. [p EXCEPT !.requests[n] = CallOf(p, kind, owns, from, whole)] \in Panel
  BY <1>3 DEF Panel
<1> QED BY <1>1, <1>4

---------------------------------------------------------------------------
(* What the operators on the panel do to each of its fields                *)

\* The panel looks at the same data, and the user may press the same buttons.
SameView(p, r) == /\ r.scope = p.scope /\ r.target = p.target /\ r.filters = p.filters
                  /\ r.inventory = p.inventory /\ r.tried = p.tried
SameData(p, r) == r.status = p.status /\ r.log = p.log /\ r.more = p.more
SameFlags(p, r) == /\ r.loading = p.loading /\ r.pending = p.pending /\ r.busy = p.busy
                   /\ r.historyLoading = p.historyLoading /\ r.pageLoading = p.pageLoading

NoData(r) == /\ r.status = Nothing /\ r.log = <<>> /\ r.more = FALSE
             /\ r.historyLoading = FALSE /\ r.pageLoading = FALSE

LEMMA RaiseFields ==
  ASSUME NEW p \in Panel, NEW G
  PROVE  /\ Raise(p, G) \in Panel
         /\ SameView(p, Raise(p, G)) /\ SameData(p, Raise(p, G)) /\ SameFlags(p, Raise(p, G))
         /\ \A n \in Request : Raise(p, G).requests[n] = Less(p.requests[n], G)
<1>1. Raise(p, G) = [p EXCEPT !.requests = [n \in Request |-> Less(p.requests[n], G)]]
  BY RaisedFields
<1>2. [p EXCEPT !.requests = [n \in Request |-> Less(p.requests[n], G)]].requests
        = [n \in Request |-> Less(p.requests[n], G)]
  BY DEF Panel
<1>3. /\ SameView(p, Raise(p, G)) /\ SameData(p, Raise(p, G)) /\ SameFlags(p, Raise(p, G))
  BY <1>1 DEF Panel, SameView, SameData, SameFlags
<1> QED BY <1>1, <1>2, <1>3, RaisedFields

LEMMA ClearedFields ==
  ASSUME NEW p \in Panel
  PROVE  /\ Cleared(p) \in Panel /\ SameView(p, Cleared(p)) /\ NoData(Cleared(p))
         /\ Cleared(p).loading = p.loading /\ Cleared(p).pending = p.pending
         /\ Cleared(p).busy = p.busy
         /\ \A n \in Request : Cleared(p).requests[n] = Less(p.requests[n], {"history"})
<1> DEFINE q == Raise(p, {"history"})
<1>1. /\ q \in Panel /\ SameView(p, q) /\ SameFlags(p, q)
      /\ \A n \in Request : q.requests[n] = Less(p.requests[n], {"history"})
  BY RaiseFields
<1>2. Cleared(p) = [q EXCEPT !.status = Nothing, !.log = <<>>, !.more = FALSE,
                             !.historyLoading = FALSE, !.pageLoading = FALSE]
  BY DEF Cleared
<1> HIDE DEF q
<1>3. Cleared(p) \in Panel
  BY <1>1, <1>2, EmptySeq DEF Panel
<1>4. /\ SameView(q, Cleared(p)) /\ NoData(Cleared(p))
      /\ Cleared(p).loading = q.loading /\ Cleared(p).pending = q.pending
      /\ Cleared(p).busy = q.busy /\ Cleared(p).requests = q.requests
  BY <1>1, <1>2 DEF Panel, SameView, NoData
<1> QED BY <1>1, <1>3, <1>4 DEF SameView, SameFlags

LEMMA AskFields ==
  ASSUME NEW p \in Panel, NEW n \in Request, NEW kind \in Kinds,
         NEW owns \in SUBSET Generation, NEW from \in Nat, NEW whole \in BOOLEAN
  PROVE  LET r == Ask(p, n, kind, owns, from, whole) IN
         /\ r \in Panel /\ SameView(p, r) /\ SameData(p, r) /\ SameFlags(p, r)
         /\ r.requests[n] = CallOf(p, kind, owns, from, whole) /\ r.requests[n] \in Call
         /\ \A m \in Request \ {n} : r.requests[m] = p.requests[m]
<1> DEFINE r == Ask(p, n, kind, owns, from, whole)
           c == CallOf(p, kind, owns, from, whole)
<1>1. r = [p EXCEPT !.requests[n] = c] /\ r \in Panel
  BY Asked
<1>2. c \in Call
  BY CallOfType
<1> HIDE DEF r, c
<1>3. p.requests \in Slots
  BY DEF Panel
<1>4. r.requests = [p.requests EXCEPT ![n] = c]
  BY <1>1 DEF Panel
<1>5. SameView(p, r) /\ SameData(p, r) /\ SameFlags(p, r)
  BY <1>1 DEF Panel, SameView, SameData, SameFlags
<1>6. r.requests[n] = c /\ \A m \in Request \ {n} : r.requests[m] = p.requests[m]
  BY <1>3, <1>4 DEF Slots
<1> QED BY <1>1, <1>2, <1>5, <1>6 DEF r, c

LEMMA OverFields ==
  ASSUME NEW p \in Panel, NEW n \in Request
  PROVE  LET r == Over(p, n) IN
         /\ r \in Panel /\ SameView(p, r) /\ SameData(p, r)
         /\ r.loading = p.loading /\ r.pending = p.pending
         /\ r.historyLoading = p.historyLoading /\ r.pageLoading = p.pageLoading
         /\ r.busy = (p.busy /\ "mutation" \notin p.requests[n].owns)
         /\ r.requests[n] = Nothing
         /\ \A m \in Request \ {n} : r.requests[m] = p.requests[m]
<1> DEFINE r == Over(p, n)
           b == p.busy /\ "mutation" \notin p.requests[n].owns
<1>1. r = [p EXCEPT !.requests[n] = Nothing, !.busy = b]
  BY DEF Over
<1>2. b \in BOOLEAN
  OBVIOUS
<1> HIDE DEF r, b
<1>3. p.requests \in Slots
  BY DEF Panel
<1>4. [p.requests EXCEPT ![n] = Nothing] \in Slots
  BY <1>3 DEF Slots
<1>5. r \in Panel /\ r.requests = [p.requests EXCEPT ![n] = Nothing] /\ r.busy = b
  BY <1>1, <1>2, <1>4 DEF Panel
<1>6. /\ SameView(p, r) /\ SameData(p, r)
      /\ r.loading = p.loading /\ r.pending = p.pending
      /\ r.historyLoading = p.historyLoading /\ r.pageLoading = p.pageLoading
  BY <1>1 DEF Panel, SameView, SameData
<1>7. r.requests[n] = Nothing /\ \A m \in Request \ {n} : r.requests[m] = p.requests[m]
  BY <1>3, <1>5 DEF Slots
<1> QED BY <1>5, <1>6, <1>7 DEF r, b

\* r is p when its discovery has been asked for as request n.
Discovers(p, r, n, force, owner) ==
  /\ r \in Panel /\ SameView(p, r) /\ NoData(r) /\ r.busy = p.busy
  /\ r.loading = TRUE /\ r.pending = TRUE
  /\ r.requests[n] = CallOf(p, "inventory", {"refresh"} \cup owner, 0, force)
  /\ r.requests[n] \in Call
  /\ \A m \in Request \ {n} :
       r.requests[m] = Less(p.requests[m], {"refresh", "poll", "history"})

LEMMA RefreshInventoryFields ==
  ASSUME NEW p \in Panel, NEW n \in Request, NEW force \in BOOLEAN, NEW owner \in SUBSET Generation
  PROVE  Discovers(p, RefreshInventory(p, n, force, owner), n, force, owner)
<1> DEFINE c == Cleared(p)
           u == Raise(c, {"refresh", "poll"})
           v == [u EXCEPT !.pending = TRUE, !.loading = TRUE]
           r == RefreshInventory(p, n, force, owner)
<1>1. /\ c \in Panel /\ SameView(p, c) /\ NoData(c) /\ c.busy = p.busy
      /\ \A m \in Request : c.requests[m] = Less(p.requests[m], {"history"})
  BY ClearedFields
<1>2. r = Ask(v, n, "inventory", {"refresh"} \cup owner, 0, force)
  BY DEF RefreshInventory
<1> HIDE DEF c, r
<1>3. /\ u \in Panel /\ SameView(c, u) /\ SameData(c, u) /\ SameFlags(c, u)
      /\ \A m \in Request : u.requests[m] = Less(c.requests[m], {"refresh", "poll"})
  BY <1>1, RaiseFields
<1> HIDE DEF u
<1>4. /\ v \in Panel /\ SameView(u, v) /\ SameData(u, v) /\ v.requests = u.requests
      /\ v.busy = u.busy /\ v.historyLoading = u.historyLoading /\ v.pageLoading = u.pageLoading
      /\ v.pending = TRUE /\ v.loading = TRUE
  BY <1>3 DEF Panel, SameView, SameData
<1> HIDE DEF v
<1>5. {"refresh"} \cup owner \in SUBSET Generation /\ "inventory" \in Kinds /\ 0 \in Nat
  BY DEF Generation, Kinds
<1> DEFINE o == {"refresh"} \cup owner
<1>6. v \in Panel /\ o \in SUBSET Generation /\ r = Ask(v, n, "inventory", o, 0, force)
  BY <1>2, <1>4, <1>5
<1> HIDE DEF o
<1>7. /\ r \in Panel /\ SameView(v, r) /\ SameData(v, r) /\ SameFlags(v, r)
      /\ r.requests[n] = CallOf(v, "inventory", o, 0, force)
      /\ r.requests[n] \in Call
      /\ \A m \in Request \ {n} : r.requests[m] = v.requests[m]
  BY <1>5, <1>6, AskFields
<1>8. /\ r \in Panel /\ SameView(v, r) /\ SameData(v, r) /\ SameFlags(v, r)
      /\ r.requests[n] = CallOf(v, "inventory", {"refresh"} \cup owner, 0, force)
      /\ r.requests[n] \in Call
      /\ \A m \in Request \ {n} : r.requests[m] = v.requests[m]
  BY <1>7 DEF o
<1>9. SameView(p, v) /\ NoData(v) /\ v.busy = p.busy
  BY <1>1, <1>3, <1>4 DEF SameView, SameData, SameFlags, NoData
<1>10. CallOf(v, "inventory", {"refresh"} \cup owner, 0, force)
        = CallOf(p, "inventory", {"refresh"} \cup owner, 0, force)
  BY <1>9 DEF SameView, CallOf
<1>11. SameView(p, r) /\ NoData(r) /\ r.busy = p.busy /\ r.loading = TRUE /\ r.pending = TRUE
  BY <1>4, <1>8, <1>9 DEF SameView, SameData, SameFlags, NoData
<1>12. p.requests \in Slots
  BY DEF Panel
<1>13. ASSUME NEW m \in Request \ {n}
       PROVE  r.requests[m] = Less(p.requests[m], {"refresh", "poll", "history"})
  <2>1. r.requests[m] = Less(Less(p.requests[m], {"history"}), {"refresh", "poll"})
    BY <1>1, <1>3, <1>4, <1>8
  <2>2. p.requests[m] \in Call \cup {Nothing}
    BY <1>12 DEF Slots
  <2>3. {"history"} \cup {"refresh", "poll"} = {"refresh", "poll", "history"}
    OBVIOUS
  <2> QED BY <2>1, <2>2, <2>3, LessTwice
<1> QED BY <1>8, <1>10, <1>11, <1>13 DEF r, Discovers

\* r is p when a load of its target has been asked for as request n.
LoadsTarget(p, r, n, whole, owner) ==
  /\ r \in Panel /\ SameView(p, r) /\ SameData(p, r) /\ r.busy = p.busy
  /\ r.loading = (p.loading \/ whole) /\ r.pending = TRUE
  /\ r.historyLoading = TRUE /\ r.pageLoading = p.pageLoading
  /\ r.requests[n] = CallOf(p, "load", {"refresh", "history"} \cup owner, 0, whole)
  /\ r.requests[n] \in Call
  /\ \A m \in Request \ {n} : r.requests[m] = Less(p.requests[m], {"history"})

LEMMA RefreshTargetFields ==
  ASSUME NEW p \in Panel, NEW n \in Request, NEW whole \in BOOLEAN, NEW owner \in SUBSET Generation
  PROVE  LoadsTarget(p, RefreshTarget(p, n, whole, owner), n, whole, owner)
<1> DEFINE u == Raise(p, {"history"})
           v == [u EXCEPT !.pending = TRUE, !.loading = p.loading \/ whole, !.historyLoading = TRUE]
           r == RefreshTarget(p, n, whole, owner)
<1>1. /\ u \in Panel /\ SameView(p, u) /\ SameData(p, u) /\ SameFlags(p, u)
      /\ \A m \in Request : u.requests[m] = Less(p.requests[m], {"history"})
  BY RaiseFields
<1>2. r = Ask(v, n, "load", {"refresh", "history"} \cup owner, 0, whole)
  <2>1. u.loading = p.loading
    BY <1>1 DEF SameFlags
  <2>2. [u EXCEPT !.pending = TRUE, !.loading = @ \/ whole, !.historyLoading = TRUE] = v
    BY <2>1
  <2> QED BY <2>2 DEF RefreshTarget
<1> HIDE DEF u, r
<1>3. (p.loading \/ whole) \in BOOLEAN
  OBVIOUS
<1>4. /\ v \in Panel /\ SameView(u, v) /\ SameData(u, v) /\ v.requests = u.requests
      /\ v.busy = u.busy /\ v.pageLoading = u.pageLoading
      /\ v.historyLoading = TRUE /\ v.pending = TRUE /\ v.loading = (p.loading \/ whole)
  BY <1>1, <1>3 DEF Panel, SameView, SameData
<1> HIDE DEF v
<1>5. /\ {"refresh", "history"} \cup owner \in SUBSET Generation
      /\ "load" \in Kinds /\ 0 \in Nat
  BY DEF Generation, Kinds
<1> DEFINE o == {"refresh", "history"} \cup owner
<1>6. v \in Panel /\ o \in SUBSET Generation /\ r = Ask(v, n, "load", o, 0, whole)
  BY <1>2, <1>4, <1>5
<1> HIDE DEF o
<1>7. /\ r \in Panel /\ SameView(v, r) /\ SameData(v, r) /\ SameFlags(v, r)
      /\ r.requests[n] = CallOf(v, "load", o, 0, whole)
      /\ r.requests[n] \in Call
      /\ \A m \in Request \ {n} : r.requests[m] = v.requests[m]
  BY <1>5, <1>6, AskFields
<1>8. /\ r \in Panel /\ SameView(v, r) /\ SameData(v, r) /\ SameFlags(v, r)
      /\ r.requests[n] = CallOf(v, "load", {"refresh", "history"} \cup owner, 0, whole)
      /\ r.requests[n] \in Call
      /\ \A m \in Request \ {n} : r.requests[m] = v.requests[m]
  BY <1>7 DEF o
<1>9. SameView(p, v)
  BY <1>1, <1>4 DEF SameView
<1>10. CallOf(v, "load", {"refresh", "history"} \cup owner, 0, whole)
        = CallOf(p, "load", {"refresh", "history"} \cup owner, 0, whole)
  BY <1>9 DEF SameView, CallOf
<1>11. /\ SameView(p, r) /\ SameData(p, r) /\ r.busy = p.busy
      /\ r.loading = (p.loading \/ whole) /\ r.pending = TRUE
      /\ r.historyLoading = TRUE /\ r.pageLoading = p.pageLoading
  BY <1>1, <1>4, <1>8 DEF SameView, SameData, SameFlags
<1> QED BY <1>1, <1>4, <1>8, <1>10, <1>11 DEF r, LoadsTarget

---------------------------------------------------------------------------
(* The invariant                                                           *)

\* A discovery or a load rebuilds what the panel shows.
Reloading == {"inventory", "load"}

\* What a request in flight was asked for is still what the panel shows: a
\* change of the target or of the filters takes the generations it concerns.
Aimed(p) == \A n \in Request :
  /\ Owns(p, n, "refresh") => p.requests[n].scope = p.scope /\ p.requests[n].repo = p.target
  /\ Owns(p, n, "history") => /\ p.requests[n].scope = p.scope /\ p.requests[n].repo = p.target
                              /\ p.requests[n].query = p.filters

\* One write at a time, one history, one reload.
OneWrite(p) == \A m, n \in Request : Owns(p, m, "mutation") /\ Owns(p, n, "mutation") => m = n
OneHistory(p) == \A m, n \in Request : Owns(p, m, "history") /\ Owns(p, n, "history") => m = n
OneReload(p) == \A m, n \in Request :
  (/\ Owns(p, m, "refresh") /\ OfKind(p, m, Reloading)
   /\ Owns(p, n, "refresh") /\ OfKind(p, n, Reloading)) => m = n

\* A reload suspends the polls and either blanks the panel or is that of a write,
\* so no other write begins; a write that is current began without a reload.
Loads(p) ==
  /\ p.loading => p.pending
  /\ \A n \in Request : Owns(p, n, "refresh") =>
       /\ OfKind(p, n, Reloading) => p.pending /\ (p.status = Nothing \/ Owns(p, n, "mutation"))
       /\ OfKind(p, n, {"load"}) /\ ~p.requests[n].whole => ~p.loading
       /\ OfKind(p, n, {"write"}) => ~p.pending /\ Owns(p, n, "mutation")

\* A page in flight continues the history on screen; while a new history is
\* fetched no page is asked for.  A write takes what was current of a page, so
\* none is current in its course.
Pages(p) == \A n \in Request : Owns(p, n, "history") =>
  /\ OfKind(p, n, {"load", "filter", "page"})
  /\ OfKind(p, n, {"page"}) => /\ p.pageLoading /\ p.requests[n].from = Len(p.log)
                               /\ Owns(p, n, "refresh") => ~p.busy
  /\ ~OfKind(p, n, {"page"}) => p.requests[n].from = 0 /\ (~p.more \/ Owns(p, n, "mutation"))

Writes(p) == \A n \in Request : Owns(p, n, "mutation") => p.busy

\* FlagsAwaited, flag by flag.
BusyHeld(p) == p.busy => \E n \in Request : Owns(p, n, "mutation")
                                            /\ OfKind(p, n, {"write", "load", "inventory"})
HistoryHeld(p) == p.historyLoading => \E n \in Request : Owns(p, n, "history")
                                                         /\ OfKind(p, n, {"load", "filter"})
ReloadHeld(p) == p.loading \/ p.pending => \E n \in Request : Owns(p, n, "refresh")
                                                              /\ OfKind(p, n, Reloading)

\* The answers are to the questions asked.
RightAnswer(read, a) == a.code = "ok" =>
  /\ read = "inventory" => a.value \in SUBSET Repo
  /\ read = "status" => a.value \in 0..MaxVersion
  /\ read = "log" => a.value \in BOOLEAN
Answered(c) == /\ DOMAIN c.replies \subseteq Reads(c.kind)
               /\ \A read \in DOMAIN c.replies : RightAnswer(read, c.replies[read])
Answers(p) == \A n \in Request : p.requests[n] # Nothing => Answered(p.requests[n])

\* ViewIsOneCheckout of panel p.
View(p) ==
  /\ p.status # Nothing => p.status.scope = p.scope /\ p.status.repo = p.target
  /\ \A i \in DOMAIN p.log :
       p.log[i] = [scope |-> p.scope, repo |-> p.target, query |-> p.filters, from |-> i - 1]

\* What every step of the panel starts from, and what it leaves.
Base(p) == p \in Panel /\ OneWrite(p) /\ Writes(p) /\ BusyHeld(p) /\ Answers(p)
SoundPanel(p) == /\ Base(p) /\ Aimed(p) /\ OneHistory(p) /\ OneReload(p) /\ Loads(p) /\ Pages(p)
           /\ View(p)
Held(p) == HistoryHeld(p) /\ ReloadHeld(p)

\* Request n is a page that will be appended if nothing takes its generations.
PageAt(p, n) == Owns(p, n, "refresh") /\ Owns(p, n, "history") /\ OfKind(p, n, {"page"})
PageHeld(p) == p.pageLoading => \E n \in Request : PageAt(p, n)

\* The panel does not begin to wait for a page that is not coming.
Paged(p, r) == PageHeld(p) => PageHeld(r)

\* Request n will put a status on screen if nothing takes its generations.
Reader(p, n) == \/ Owns(p, n, "refresh") /\ OfKind(p, n, {"load"})
                \/ Owns(p, n, "refresh") /\ Owns(p, n, "poll") /\ OfKind(p, n, {"poll"})

\* One status is being read at most, and nothing of it has arrived.
Unanswered(p) == \A m \in Request : Reader(p, m) =>
  DOMAIN p.requests[m].replies = {} /\ \A l \in Request : Reader(p, l) => l = m

\* Request n is over and the reads of the others go on.
ReadEnds(p, r, n) == \A m \in Request :
  Reader(r, m) => m # n /\ Reader(p, m) /\ r.requests[m] = p.requests[m]

\* The write in whose course request n is.
OwnerAt(p, n) == IF p.requests[n] = Nothing THEN {} ELSE p.requests[n].owns \cap {"mutation"}

---------------------------------------------------------------------------
(* Generations that are raised, requests that are made and end             *)

LEMMA SlotType ==
  ASSUME NEW p \in Panel, NEW n \in Request
  PROVE  /\ p.requests[n] \in Call \cup {Nothing}
         /\ p.requests[n] # Nothing => p.requests[n] \in Call
         /\ p.requests[n] \in Call => p.requests[n] # Nothing
BY CallIsSomething DEF Panel, Slots

LEMMA LessSlot ==
  ASSUME NEW p \in Panel, NEW r \in Panel, NEW m \in Request, NEW G,
         r.requests[m] = Less(p.requests[m], G)
  PROVE  /\ r.requests[m] # Nothing <=> p.requests[m] # Nothing
         /\ p.requests[m] # Nothing => Twins(r.requests[m], p.requests[m])
         /\ \A g : Owns(r, m, g) <=> Owns(p, m, g) /\ g \notin G
<1>1. CASE p.requests[m] = Nothing
  BY <1>1 DEF Less, Owns
<1>2. CASE p.requests[m] # Nothing
  <2>1. p.requests[m] \in Call
    BY <1>2, SlotType
  <2>2. /\ r.requests[m] \in Call /\ Twins(r.requests[m], p.requests[m])
        /\ r.requests[m].owns = p.requests[m].owns \ G
    BY <2>1, LessOwns
  <2> QED BY <1>2, <2>2, CallIsSomething DEF Owns
<1> QED BY <1>1, <1>2

LEMMA CallOfFields ==
  ASSUME NEW p, NEW kind, NEW owns, NEW from, NEW whole
  PROVE  LET c == CallOf(p, kind, owns, from, whole) IN
         /\ c.kind = kind /\ c.scope = p.scope /\ c.repo = p.target /\ c.query = p.filters
         /\ c.from = from /\ c.whole = whole /\ c.owns = owns
         /\ c.replies = <<>> /\ Answered(c)
BY EmptyReplies DEF CallOf, Answered

LEMMA AlikeAnswered ==
  ASSUME NEW c, NEW d, Twins(c, d), Answered(d)
  PROVE  Answered(c)
BY DEF Twins, Answered

\* A new reload takes the place of request n and goes on with its write, if any.
LEMMA ReloadKeepsBase ==
  ASSUME NEW p, Base(p), NEW r \in Panel, NEW n \in Request, NEW G, "mutation" \notin G,
         NEW kind \in Reloading, NEW owns, NEW from, NEW whole,
         r.busy = p.busy, r.requests[n] \in Call,
         r.requests[n] = CallOf(p, kind, owns, from, whole),
         owns \cap {"mutation"} = OwnerAt(p, n),
         \A m \in Request \ {n} : r.requests[m] = Less(p.requests[m], G)
  PROVE  /\ Base(r)
         /\ \A g : Owns(r, n, g) <=> g \in owns
         /\ \A m \in Request \ {n} : /\ \A g : Owns(r, m, g) <=> Owns(p, m, g) /\ g \notin G
                                     /\ r.requests[m] # Nothing <=> p.requests[m] # Nothing
                                     /\ p.requests[m] # Nothing => Twins(r.requests[m], p.requests[m])
<1>1. p \in Panel /\ OneWrite(p) /\ Writes(p) /\ BusyHeld(p) /\ Answers(p)
  BY DEF Base
<1>2. \A m \in Request \ {n} : /\ \A g : Owns(r, m, g) <=> Owns(p, m, g) /\ g \notin G
                               /\ r.requests[m] # Nothing <=> p.requests[m] # Nothing
                               /\ p.requests[m] # Nothing => Twins(r.requests[m], p.requests[m])
  BY <1>1, LessSlot
<1>3. r.requests[n] # Nothing /\ r.requests[n].owns = owns /\ r.requests[n].kind = kind
      /\ Answered(r.requests[n])
  BY CallIsSomething, CallOfFields
<1>4. \A g : Owns(r, n, g) <=> g \in owns
  BY <1>3 DEF Owns
<1>5. Owns(r, n, "mutation") <=> Owns(p, n, "mutation")
  BY <1>4 DEF OwnerAt, Owns
<1>6. \A m \in Request : Owns(r, m, "mutation") <=> Owns(p, m, "mutation")
  BY <1>2, <1>5
<1>7. OneWrite(r) /\ Writes(r)
  BY <1>1, <1>6 DEF OneWrite, Writes
<1>8. BusyHeld(r)
  <2> SUFFICES ASSUME r.busy
               PROVE  \E m \in Request : Owns(r, m, "mutation")
                                         /\ OfKind(r, m, {"write", "load", "inventory"})
    BY DEF BusyHeld
  <2>1. PICK m \in Request : Owns(p, m, "mutation") /\ OfKind(p, m, {"write", "load", "inventory"})
    BY <1>1 DEF BusyHeld
  <2>2. Owns(r, m, "mutation")
    BY <1>6, <2>1
  <2>3. OfKind(r, m, {"write", "load", "inventory"})
    <3>1. CASE m = n
      BY <1>3, <3>1 DEF OfKind, Reloading
    <3>2. CASE m # n
      <4>1. Twins(r.requests[m], p.requests[m])
        BY <1>2, <2>1, <3>2 DEF Owns
      <4> QED BY <2>1, <4>1 DEF OfKind, Twins
    <3> QED BY <3>1, <3>2
  <2> QED BY <2>2, <2>3
<1>9. Answers(r)
  <2> SUFFICES ASSUME NEW m \in Request, r.requests[m] # Nothing PROVE Answered(r.requests[m])
    BY DEF Answers
  <2>1. CASE m = n
    BY <1>3, <2>1
  <2>2. CASE m # n
    BY <1>1, <1>2, <2>2, AlikeAnswered DEF Answers
  <2> QED BY <2>1, <2>2
<1> QED BY <1>2, <1>4, <1>7, <1>8, <1>9 DEF Base

\* A discovery blanks the panel, so whatever it was showing.
LEMMA DiscoveryIsGood ==
  ASSUME NEW p, Base(p), NEW n \in Request, NEW force \in BOOLEAN, NEW owner,
         owner = OwnerAt(p, n)
  PROVE  LET r == RefreshInventory(p, n, force, owner) IN
         SoundPanel(r) /\ Held(r) /\ r.status = Nothing /\ Unanswered(r) /\ ~r.pageLoading
<1> DEFINE r == RefreshInventory(p, n, force, owner)
           owns == {"refresh"} \cup owner
           G == {"refresh", "poll", "history"}
<1>1. p \in Panel
  BY DEF Base
<1>2. owner \in SUBSET Generation
  BY DEF OwnerAt, Generation
<1>3. owner \subseteq {"mutation"}
  BY DEF OwnerAt
<1>4. /\ r \in Panel /\ SameView(p, r) /\ NoData(r) /\ r.busy = p.busy
      /\ r.loading = TRUE /\ r.pending = TRUE
      /\ r.requests[n] = CallOf(p, "inventory", owns, 0, force)
      /\ r.requests[n] \in Call
      /\ \A m \in Request \ {n} : r.requests[m] = Less(p.requests[m], G)
  <2>1. Discovers(p, r, n, force, owner)
    BY <1>1, <1>2, RefreshInventoryFields
  <2> HIDE DEF r
  <2> QED BY <2>1 DEF Discovers
<1> HIDE DEF r
<1>5. "inventory" \in Reloading /\ "mutation" \notin G /\ owns \cap {"mutation"} = OwnerAt(p, n)
  BY <1>3 DEF Reloading
<1> HIDE DEF owns, G
<1>6. /\ Base(r)
      /\ \A g : Owns(r, n, g) <=> g \in owns
      /\ \A m \in Request \ {n} : \A g : Owns(r, m, g) <=> Owns(p, m, g) /\ g \notin G
  BY <1>4, <1>5, ReloadKeepsBase
<1>7. /\ r.requests[n].kind = "inventory" /\ r.requests[n].scope = p.scope
      /\ r.requests[n].repo = p.target
  BY <1>4, CallOfFields
<1>8. /\ \A m \in Request : ~Owns(r, m, "history")
      /\ \A m \in Request : Owns(r, m, "refresh") <=> m = n
  BY <1>3, <1>6 DEF owns, G
<1>9. Aimed(r)
  BY <1>4, <1>7, <1>8 DEF Aimed, SameView
<1>10. OneHistory(r) /\ OneReload(r) /\ Pages(r)
  BY <1>8 DEF OneHistory, OneReload, Pages
<1>11. Loads(r)
  BY <1>4, <1>7, <1>8 DEF Loads, NoData, OfKind
<1>12. View(r)
  BY <1>4 DEF View, NoData
<1>13. Held(r)
  BY <1>4, <1>7, <1>8 DEF Held, HistoryHeld, ReloadHeld, NoData, OfKind, Reloading
<1>14. r.status = Nothing /\ Unanswered(r) /\ ~r.pageLoading
  BY <1>4, <1>7, <1>8 DEF NoData, Unanswered, Reader, OfKind
<1> QED BY <1>6, <1>9, <1>10, <1>11, <1>12, <1>13, <1>14 DEF SoundPanel, r

\* A load of the panel's target follows when nothing else is current.
LEMMA LoadIsGood ==
  ASSUME NEW p, Base(p), NEW n \in Request, NEW whole \in BOOLEAN, NEW owner,
         owner = OwnerAt(p, n), View(p),
         \A m \in Request \ {n} : ~Owns(p, m, "refresh"),
         p.more => "mutation" \in owner, p.status # Nothing => "mutation" \in owner,
         p.loading => whole
  PROVE  LET r == RefreshTarget(p, n, whole, owner) IN
         /\ SoundPanel(r) /\ Held(r) /\ r.status = p.status /\ Unanswered(r)
         /\ r.pageLoading = p.pageLoading
<1> DEFINE r == RefreshTarget(p, n, whole, owner)
           owns == {"refresh", "history"} \cup owner
           G == {"history"}
<1>1. p \in Panel
  BY DEF Base
<1>2. owner \in SUBSET Generation
  BY DEF OwnerAt, Generation
<1>3. owner \subseteq {"mutation"}
  BY DEF OwnerAt
<1>4. /\ r \in Panel /\ SameView(p, r) /\ SameData(p, r) /\ r.busy = p.busy
      /\ r.loading = (p.loading \/ whole) /\ r.pending = TRUE
      /\ r.historyLoading = TRUE /\ r.pageLoading = p.pageLoading
      /\ r.requests[n] = CallOf(p, "load", owns, 0, whole)
      /\ r.requests[n] \in Call
      /\ \A m \in Request \ {n} : r.requests[m] = Less(p.requests[m], G)
  <2>1. LoadsTarget(p, r, n, whole, owner)
    BY <1>1, <1>2, RefreshTargetFields
  <2> HIDE DEF r
  <2> QED BY <2>1 DEF LoadsTarget
<1> HIDE DEF r
<1>5. "load" \in Reloading /\ "mutation" \notin G /\ owns \cap {"mutation"} = OwnerAt(p, n)
  BY <1>3 DEF Reloading
<1> HIDE DEF owns, G
<1>6. /\ Base(r)
      /\ \A g : Owns(r, n, g) <=> g \in owns
      /\ \A m \in Request \ {n} : \A g : Owns(r, m, g) <=> Owns(p, m, g) /\ g \notin G
  BY <1>4, <1>5, ReloadKeepsBase
<1>7. /\ r.requests[n].kind = "load" /\ r.requests[n].scope = p.scope
      /\ r.requests[n].repo = p.target /\ r.requests[n].query = p.filters
      /\ r.requests[n].from = 0 /\ r.requests[n].whole = whole
      /\ DOMAIN r.requests[n].replies = {}
  BY <1>4, CallOfFields, EmptyReplies
<1>8. /\ \A m \in Request : Owns(r, m, "history") <=> m = n
      /\ \A m \in Request : Owns(r, m, "refresh") <=> m = n
      /\ "mutation" \in owner => Owns(r, n, "mutation")
  BY <1>3, <1>6 DEF owns, G
<1>9. Aimed(r)
  BY <1>4, <1>7, <1>8 DEF Aimed, SameView
<1>10. OneHistory(r) /\ OneReload(r)
  BY <1>8 DEF OneHistory, OneReload
<1>11. Pages(r)
  BY <1>4, <1>7, <1>8 DEF Pages, OfKind, SameData
<1>12. Loads(r)
  <2>1. r.status = Nothing \/ Owns(r, n, "mutation")
    BY <1>4, <1>8 DEF SameData
  <2>2. ~whole => ~r.loading
    BY <1>4
  <2> QED BY <1>4, <1>7, <1>8, <2>1, <2>2 DEF Loads, OfKind
<1>13. View(r)
  BY <1>4 DEF View, SameView, SameData
<1>14. Held(r)
  BY <1>4, <1>7, <1>8 DEF Held, HistoryHeld, ReloadHeld, OfKind, Reloading
<1>15. r.status = p.status /\ Unanswered(r)
  BY <1>4, <1>7, <1>8 DEF SameData, Unanswered, Reader
<1> QED BY <1>4, <1>6, <1>9, <1>10, <1>11, <1>12, <1>13, <1>14, <1>15 DEF SoundPanel, r

\* Raising generations other than that of the writes keeps what concerns these.
LEMMA RaiseKeepsBase ==
  ASSUME NEW p, Base(p), NEW r \in Panel, NEW G, "mutation" \notin G, r.busy = p.busy,
         \A m \in Request : r.requests[m] = Less(p.requests[m], G)
  PROVE  /\ Base(r)
         /\ \A m \in Request : /\ OwnerAt(r, m) = OwnerAt(p, m)
                               /\ \A g : Owns(r, m, g) <=> Owns(p, m, g) /\ g \notin G
                               /\ r.requests[m] # Nothing <=> p.requests[m] # Nothing
                               /\ p.requests[m] # Nothing => Twins(r.requests[m], p.requests[m])
<1>1. p \in Panel /\ OneWrite(p) /\ Writes(p) /\ BusyHeld(p) /\ Answers(p)
  BY DEF Base
<1>2. \A m \in Request : /\ \A g : Owns(r, m, g) <=> Owns(p, m, g) /\ g \notin G
                         /\ r.requests[m] # Nothing <=> p.requests[m] # Nothing
                         /\ p.requests[m] # Nothing => Twins(r.requests[m], p.requests[m])
  BY <1>1, LessSlot
<1>3. \A m \in Request : Owns(r, m, "mutation") <=> Owns(p, m, "mutation")
  BY <1>2
<1>4. OneWrite(r) /\ Writes(r)
  BY <1>1, <1>3 DEF OneWrite, Writes
<1>5. BusyHeld(r)
  <2> SUFFICES ASSUME r.busy
               PROVE  \E m \in Request : Owns(r, m, "mutation")
                                         /\ OfKind(r, m, {"write", "load", "inventory"})
    BY DEF BusyHeld
  <2>1. PICK m \in Request : Owns(p, m, "mutation") /\ OfKind(p, m, {"write", "load", "inventory"})
    BY <1>1 DEF BusyHeld
  <2>2. Twins(r.requests[m], p.requests[m])
    BY <1>2, <2>1 DEF Owns
  <2> QED BY <1>3, <2>1, <2>2 DEF OfKind, Twins
<1>6. Answers(r)
  BY <1>1, <1>2, AlikeAnswered DEF Answers
<1>7. ASSUME NEW m \in Request PROVE OwnerAt(r, m) = OwnerAt(p, m)
  BY <1>2, <1>3 DEF OwnerAt, Owns
<1> QED BY <1>2, <1>4, <1>5, <1>6, <1>7 DEF Base

LEMMA SameRequests ==
  ASSUME NEW p, Base(p), NEW r \in Panel, r.busy = p.busy,
         \A m \in Request : r.requests[m] = p.requests[m]
  PROVE  /\ Base(r)
         /\ \A m \in Request : OwnerAt(r, m) = OwnerAt(p, m) /\ \A g : Owns(r, m, g) <=> Owns(p, m, g)
<1>1. \A m \in Request : \A g : Owns(r, m, g) <=> Owns(p, m, g)
  BY DEF Owns
<1>2. \A m \in Request : \A K : OfKind(r, m, K) <=> OfKind(p, m, K)
  BY DEF OfKind
<1>3. OneWrite(r) /\ Writes(r) /\ BusyHeld(r) /\ Answers(r)
  BY <1>1, <1>2 DEF Base, OneWrite, Writes, BusyHeld, Answers
<1>4. \A m \in Request : OwnerAt(r, m) = OwnerAt(p, m)
  BY DEF OwnerAt
<1> QED BY <1>1, <1>3, <1>4 DEF Base

\* A request that is over leaves the write it was in the course of.
LEMMA EndKeepsBase ==
  ASSUME NEW p, Base(p), NEW r \in Panel, NEW n \in Request, p.requests[n] # Nothing,
         r.busy = (p.busy /\ "mutation" \notin p.requests[n].owns),
         r.requests[n] = Nothing,
         \A m \in Request \ {n} : r.requests[m] = p.requests[m]
  PROVE  /\ Base(r)
         /\ \A g : ~Owns(r, n, g)
         /\ \A m \in Request \ {n} : \A g : Owns(r, m, g) <=> Owns(p, m, g)
<1>1. \A m \in Request \ {n} : \A g : Owns(r, m, g) <=> Owns(p, m, g)
  BY DEF Owns
<1>2. \A g : ~Owns(r, n, g)
  BY DEF Owns
<1>3. \A m \in Request \ {n} : \A K : OfKind(r, m, K) <=> OfKind(p, m, K)
  BY DEF OfKind
<1>4. r.busy = (p.busy /\ ~Owns(p, n, "mutation"))
  BY DEF Owns
<1>5. OneWrite(r) /\ Answers(r)
  BY <1>1, <1>2 DEF Base, OneWrite, Answers
<1>6. Writes(r)
  BY <1>1, <1>2, <1>4 DEF Base, OneWrite, Writes
<1>7. BusyHeld(r)
  BY <1>1, <1>3, <1>4 DEF Base, BusyHeld
<1> QED BY <1>1, <1>2, <1>5, <1>6, <1>7 DEF Base

SameTarget(p, r) == r.scope = p.scope /\ r.target = p.target /\ r.filters = p.filters

\* A request arrives and is over: it takes down the flags it was to take down,
\* and changes of the data what it was asked for.
LEMMA EndIsGood ==
  ASSUME NEW p, SoundPanel(p), Held(p), NEW r \in Panel, NEW n \in Request, p.requests[n] # Nothing,
         r.busy = (p.busy /\ "mutation" \notin p.requests[n].owns),
         r.requests[n] = Nothing,
         \A m \in Request \ {n} : r.requests[m] = p.requests[m],
         SameTarget(p, r), View(r),
         \/ Owns(p, n, "refresh") /\ OfKind(p, n, Reloading) /\ ~r.loading /\ ~r.pending
         \/ /\ ~(Owns(p, n, "refresh") /\ OfKind(p, n, Reloading))
            /\ r.loading = p.loading /\ r.pending = p.pending
            /\ r.status = p.status \/ ~p.pending,
         r.pageLoading => p.pageLoading /\ ~PageAt(p, n),
         \/ /\ Owns(p, n, "history")
            /\ r.historyLoading => p.historyLoading /\ OfKind(p, n, {"page"})
         \/ /\ ~Owns(p, n, "history")
            /\ r.log = p.log /\ r.more = p.more /\ r.historyLoading = p.historyLoading
            /\ r.pageLoading = p.pageLoading
  PROVE  SoundPanel(r) /\ Held(r) /\ ReadEnds(p, r, n) /\ Paged(p, r)
<1>1. /\ Base(r) /\ \A g : ~Owns(r, n, g)
      /\ \A m \in Request \ {n} : \A g : Owns(r, m, g) <=> Owns(p, m, g)
  BY EndKeepsBase DEF SoundPanel
<1>2. \A m \in Request \ {n} : \A K : OfKind(r, m, K) <=> OfKind(p, m, K)
  BY DEF OfKind
<1>3. Aimed(r)
  BY <1>1 DEF SoundPanel, Aimed, SameTarget
<1>4. OneHistory(r)
  BY <1>1 DEF SoundPanel, OneHistory
<1>5. OneReload(r)
  BY <1>1, <1>2 DEF SoundPanel, OneReload
<1>6. Loads(r) /\ ReloadHeld(r)
  <2>1. CASE Owns(p, n, "refresh") /\ OfKind(p, n, Reloading) /\ ~r.loading /\ ~r.pending
    <3>1. \A m \in Request \ {n} : ~(Owns(p, m, "refresh") /\ OfKind(p, m, Reloading))
      BY <2>1 DEF SoundPanel, OneReload
    <3>2. ASSUME NEW m \in Request, Owns(r, m, "refresh")
          PROVE  /\ ~OfKind(r, m, Reloading) /\ ~OfKind(r, m, {"load"})
                 /\ OfKind(r, m, {"write"}) => Owns(r, m, "mutation")
      <4>1. m # n
        BY <1>1, <3>2
      <4>2. Owns(p, m, "refresh") /\ ~OfKind(p, m, Reloading)
        BY <1>1, <3>1, <3>2, <4>1
      <4>3. ~OfKind(r, m, Reloading) /\ ~OfKind(r, m, {"load"})
        BY <1>2, <4>1, <4>2 DEF OfKind, Reloading
      <4>4. OfKind(r, m, {"write"}) => Owns(r, m, "mutation")
        BY <1>1, <1>2, <4>1, <4>2 DEF SoundPanel, Loads
      <4> QED BY <4>3, <4>4
    <3> QED BY <2>1, <3>2 DEF Loads, ReloadHeld
  <2>2. CASE /\ ~(Owns(p, n, "refresh") /\ OfKind(p, n, Reloading))
             /\ r.loading = p.loading /\ r.pending = p.pending
             /\ r.status = p.status \/ ~p.pending
    <3>1. ReloadHeld(r)
      BY <1>1, <1>2, <2>2 DEF Held, ReloadHeld
    <3>2. ASSUME NEW m \in Request, Owns(r, m, "refresh")
          PROVE  /\ OfKind(r, m, Reloading) => r.pending /\ (r.status = Nothing \/ Owns(r, m, "mutation"))
                 /\ OfKind(r, m, {"load"}) /\ ~r.requests[m].whole => ~r.loading
                 /\ OfKind(r, m, {"write"}) => ~r.pending /\ Owns(r, m, "mutation")
      <4>1. m # n
        BY <1>1, <3>2
      <4>2. Owns(p, m, "refresh")
        BY <1>1, <3>2, <4>1
      <4> QED BY <1>1, <1>2, <2>2, <4>1, <4>2 DEF SoundPanel, Loads
    <3> QED BY <2>2, <3>1, <3>2 DEF SoundPanel, Loads
  <2> QED BY <2>1, <2>2
<1>7. Pages(r) /\ HistoryHeld(r)
  <2>1. CASE /\ Owns(p, n, "history")
             /\ r.historyLoading => p.historyLoading /\ OfKind(p, n, {"page"})
    <3>1. \A m \in Request : ~Owns(r, m, "history")
      BY <1>1, <2>1 DEF SoundPanel, OneHistory
    <3>2. ~r.historyLoading
      <4> SUFFICES ASSUME r.historyLoading PROVE FALSE
        OBVIOUS
      <4>1. PICK m \in Request : Owns(p, m, "history") /\ OfKind(p, m, {"load", "filter"})
        BY <2>1 DEF Held, HistoryHeld
      <4>2. m = n
        BY <2>1, <4>1 DEF SoundPanel, OneHistory
      <4> QED BY <2>1, <4>1, <4>2 DEF OfKind
    <3> QED BY <3>1, <3>2 DEF Pages, HistoryHeld
  <2>2. CASE /\ ~Owns(p, n, "history")
             /\ r.log = p.log /\ r.more = p.more /\ r.historyLoading = p.historyLoading
             /\ r.pageLoading = p.pageLoading
    <3>1. HistoryHeld(r)
      BY <1>1, <1>2, <2>2 DEF Held, HistoryHeld
    <3>2. ASSUME NEW m \in Request, Owns(r, m, "history")
          PROVE  /\ OfKind(r, m, {"load", "filter", "page"})
                 /\ OfKind(r, m, {"page"}) => /\ r.pageLoading /\ r.requests[m].from = Len(r.log)
                                              /\ Owns(r, m, "refresh") => ~r.busy
                 /\ ~OfKind(r, m, {"page"})
                      => r.requests[m].from = 0 /\ (~r.more \/ Owns(r, m, "mutation"))
      <4>1. m # n
        BY <1>1, <3>2
      <4>2. Owns(p, m, "history")
        BY <1>1, <3>2, <4>1
      <4> QED BY <1>1, <1>2, <2>2, <4>1, <4>2 DEF SoundPanel, Pages
    <3> QED BY <3>1, <3>2 DEF Pages
  <2> QED BY <2>1, <2>2
<1>8. ReadEnds(p, r, n)
  BY <1>1, <1>2 DEF ReadEnds, Reader
<1>9. Paged(p, r)
  BY <1>1, <1>2 DEF Paged, PageHeld, PageAt
<1> QED BY <1>1, <1>9, <1>3, <1>4, <1>5, <1>6, <1>7, <1>8 DEF SoundPanel, Held

\* r is p when a request has been made in slot n and generations G raised.
Starts(p, r, n, kind, owns, from, G) ==
  /\ r.requests[n].kind = kind /\ r.requests[n].scope = r.scope
  /\ r.requests[n].repo = r.target /\ r.requests[n].query = r.filters
  /\ r.requests[n].from = from /\ DOMAIN r.requests[n].replies = {}
  /\ \A g : Owns(r, n, g) <=> g \in owns
  /\ \A m \in Request \ {n} : \A g : Owns(r, m, g) <=> Owns(p, m, g) /\ g \notin G
  /\ \A m \in Request : \A g : Owns(p, m, g) => m # n /\ Twins(r.requests[m], p.requests[m])

LEMMA RequestStarts ==
  ASSUME NEW p, SoundPanel(p), NEW u \in Panel, NEW G, NEW n \in Request, p.requests[n] = Nothing,
         \A m \in Request : u.requests[m] = Less(p.requests[m], G),
         NEW kind \in Kinds, NEW owns \in SUBSET Generation, NEW from \in Nat,
         NEW whole \in BOOLEAN
  PROVE  LET r == Ask(u, n, kind, owns, from, whole) IN
         /\ r \in Panel /\ SameView(u, r) /\ SameData(u, r) /\ SameFlags(u, r)
         /\ Starts(p, r, n, kind, owns, from, G) /\ Answers(r)
<1> DEFINE r == Ask(u, n, kind, owns, from, whole)
<1>1. /\ r \in Panel /\ SameView(u, r) /\ SameData(u, r) /\ SameFlags(u, r)
      /\ r.requests[n] = CallOf(u, kind, owns, from, whole) /\ r.requests[n] \in Call
      /\ \A m \in Request \ {n} : r.requests[m] = u.requests[m]
  BY AskFields
<1> HIDE DEF r
<1>2. p \in Panel /\ Answers(p)
  BY DEF SoundPanel, Base
<1>3. \A m \in Request \ {n} : r.requests[m] = Less(p.requests[m], G)
  BY <1>1
<1>4. \A m \in Request \ {n} : /\ \A g : Owns(r, m, g) <=> Owns(p, m, g) /\ g \notin G
                               /\ r.requests[m] # Nothing <=> p.requests[m] # Nothing
                               /\ p.requests[m] # Nothing => Twins(r.requests[m], p.requests[m])
  BY <1>1, <1>2, <1>3, LessSlot
<1>5. /\ r.requests[n].kind = kind /\ r.requests[n].scope = u.scope
      /\ r.requests[n].repo = u.target /\ r.requests[n].query = u.filters
      /\ r.requests[n].from = from /\ r.requests[n].owns = owns /\ Answered(r.requests[n])
      /\ DOMAIN r.requests[n].replies = {}
  BY <1>1, CallOfFields, EmptyReplies
<1>6. r.scope = u.scope /\ r.target = u.target /\ r.filters = u.filters
  BY <1>1 DEF SameView
<1>7. r.requests[n] # Nothing
  BY <1>1, CallIsSomething
<1>8. \A g : Owns(r, n, g) <=> g \in owns
  BY <1>5, <1>7 DEF Owns
<1>9. \A m \in Request : \A g : Owns(p, m, g) => m # n /\ Twins(r.requests[m], p.requests[m])
  BY <1>4 DEF Owns
<1>10. Starts(p, r, n, kind, owns, from, G)
  BY <1>4, <1>5, <1>6, <1>8, <1>9 DEF Starts
<1>11. Answers(r)
  BY <1>2, <1>4, <1>5, AlikeAnswered DEF Answers
<1> QED BY <1>1, <1>10, <1>11 DEF r

\* The status is still read by whoever read it.
Continued(p, r) == \A m \in Request :
  Reader(r, m) => Reader(p, m) /\ r.requests[m].replies = p.requests[m].replies

LEMMA PollIsGood ==
  ASSUME NEW p, SoundPanel(p), Held(p), NEW r \in Panel, NEW n \in Request,
         SameView(p, r), SameData(p, r), SameFlags(p, r), Answers(r), ~p.pending,
         Starts(p, r, n, "poll", {"refresh", "poll"}, 0, {"poll"})
  PROVE  SoundPanel(r) /\ Held(r) /\ Unanswered(r) /\ Paged(p, r)
<1>1. /\ \A m \in Request \ {n} : \A g : Owns(r, m, g) <=> Owns(p, m, g) /\ g # "poll"
      /\ \A g : Owns(r, n, g) <=> g \in {"refresh", "poll"}
      /\ OfKind(r, n, {"poll"})
  BY DEF Starts, OfKind
<1>2. \A m \in Request : \A g, K : Owns(p, m, g) => m # n /\ (OfKind(r, m, K) <=> OfKind(p, m, K))
  BY DEF Starts, OfKind, Twins
<1>3. ~OfKind(r, n, {"load"}) /\ ~OfKind(r, n, {"write"}) /\ ~OfKind(r, n, Reloading)
  BY <1>1 DEF OfKind, Reloading
<1>4. Base(r)
  BY <1>1, <1>2 DEF SoundPanel, Base, OneWrite, Writes, BusyHeld, SameFlags
<1>5. Aimed(r)
  BY <1>1 DEF SoundPanel, Aimed, Starts, SameView, Twins
<1>6. OneHistory(r) /\ OneReload(r)
  BY <1>1, <1>2, <1>3 DEF SoundPanel, OneHistory, OneReload
<1>7. Loads(r)
  BY <1>1, <1>2, <1>3 DEF SoundPanel, Loads, SameFlags, SameData, Starts, Twins
<1>8. Pages(r)
  BY <1>1, <1>2 DEF SoundPanel, Pages, SameFlags, SameData, Starts, Twins
<1>9. View(r)
  BY DEF SoundPanel, View, SameView, SameData
<1>10. Held(r)
  BY <1>1, <1>2 DEF Held, HistoryHeld, ReloadHeld, SameFlags
<1>11. \A m \in Request : Reader(r, m) => m = n
  <2> SUFFICES ASSUME NEW m \in Request, Reader(r, m), m # n PROVE FALSE
    OBVIOUS
  <2>1. Owns(p, m, "refresh") /\ OfKind(p, m, {"load"})
    BY <1>1, <1>2 DEF Reader
  <2>2. p.pending
    BY <2>1 DEF SoundPanel, Loads, OfKind, Reloading
  <2> QED BY <2>2
<1>12. Unanswered(r)
  BY <1>11 DEF Unanswered, Starts
<1>13. Paged(p, r)
  BY <1>1, <1>2 DEF Paged, PageHeld, PageAt, SameFlags
<1> QED BY <1>13, <1>4, <1>5, <1>6, <1>7, <1>8, <1>9, <1>10, <1>12 DEF SoundPanel

LEMMA PageIsGood ==
  ASSUME NEW p, SoundPanel(p), Held(p), NEW r \in Panel, NEW n \in Request,
         SameView(p, r), SameData(p, r), Answers(r), r.busy = p.busy, r.loading = p.loading,
         r.pending = p.pending, r.historyLoading = p.historyLoading, r.pageLoading,
         p.more, ~p.busy, ~p.pageLoading,
         Starts(p, r, n, "page", {"refresh", "history"}, Len(p.log), {})
  PROVE  SoundPanel(r) /\ Held(r) /\ Continued(p, r) /\ Paged(p, r)
<1>1. /\ \A m \in Request \ {n} : \A g : Owns(r, m, g) <=> Owns(p, m, g)
      /\ \A g : Owns(r, n, g) <=> g \in {"refresh", "history"}
      /\ OfKind(r, n, {"page"})
  BY DEF Starts, OfKind
<1>2. \A m \in Request : \A g, K : Owns(p, m, g) => m # n /\ (OfKind(r, m, K) <=> OfKind(p, m, K))
  BY DEF Starts, OfKind, Twins
<1>3. /\ ~OfKind(r, n, {"load"}) /\ ~OfKind(r, n, {"write"}) /\ ~OfKind(r, n, Reloading)
      /\ OfKind(r, n, {"load", "filter", "page"})
  BY <1>1 DEF OfKind, Reloading
<1>4. \A m \in Request : ~Owns(p, m, "history")
  BY DEF SoundPanel, Base, Pages, Writes, OfKind
<1>5. \A m \in Request : Owns(r, m, "history") => m = n
  BY <1>1, <1>4
<1>6. Base(r)
  BY <1>1, <1>2 DEF SoundPanel, Base, OneWrite, Writes, BusyHeld
<1>7. Aimed(r)
  BY <1>1, <1>5 DEF SoundPanel, Aimed, Starts, SameView, Twins
<1>8. OneHistory(r) /\ OneReload(r)
  BY <1>1, <1>2, <1>3, <1>5 DEF SoundPanel, OneHistory, OneReload
<1>9. Loads(r)
  BY <1>1, <1>2, <1>3 DEF SoundPanel, Loads, SameData, Starts, Twins
<1>10. Pages(r)
  BY <1>1, <1>3, <1>5 DEF Pages, SameData, Starts
<1>11. View(r)
  BY DEF SoundPanel, View, SameView, SameData
<1>12. Held(r)
  BY <1>1, <1>2, <1>4 DEF Held, HistoryHeld, ReloadHeld
<1>13. Continued(p, r)
  <2>1. ~Reader(r, n)
    BY <1>1, <1>3 DEF Reader
  <2> QED BY <1>1, <1>2, <2>1 DEF Continued, Reader, Starts, Twins
<1>14. Paged(p, r)
  BY <1>1 DEF Paged, PageHeld, PageAt
<1> QED BY <1>14, <1>6, <1>7, <1>8, <1>9, <1>10, <1>11, <1>12, <1>13 DEF SoundPanel

LEMMA FilterIsGood ==
  ASSUME NEW p, SoundPanel(p), Held(p), NEW r \in Panel, NEW n \in Request,
         r.scope = p.scope, r.target = p.target, r.status = p.status, r.log = <<>>, ~r.more,
         Answers(r), r.busy = p.busy, r.loading = p.loading, r.pending = p.pending,
         Starts(p, r, n, "filter", {"history"}, 0, {"history"})
  PROVE  SoundPanel(r) /\ Held(r) /\ Continued(p, r)
<1>1. /\ \A m \in Request \ {n} : \A g : Owns(r, m, g) <=> Owns(p, m, g) /\ g # "history"
      /\ \A g : Owns(r, n, g) <=> g = "history"
      /\ OfKind(r, n, {"filter"})
  BY DEF Starts, OfKind
<1>2. \A m \in Request : \A g, K : Owns(p, m, g) => m # n /\ (OfKind(r, m, K) <=> OfKind(p, m, K))
  BY DEF Starts, OfKind, Twins
<1>3. /\ OfKind(r, n, {"load", "filter", "page"}) /\ ~OfKind(r, n, {"page"})
      /\ OfKind(r, n, {"load", "filter"})
  BY <1>1 DEF OfKind
<1>4. Base(r)
  BY <1>1, <1>2 DEF SoundPanel, Base, OneWrite, Writes, BusyHeld
<1>5. Aimed(r)
  BY <1>1 DEF SoundPanel, Aimed, Starts, Twins
<1>6. OneHistory(r) /\ OneReload(r)
  BY <1>1, <1>2 DEF SoundPanel, OneHistory, OneReload
<1>7. Loads(r)
  BY <1>1, <1>2 DEF SoundPanel, Loads, Starts, Twins
<1>8. Pages(r)
  BY <1>1, <1>3 DEF Pages, Starts
<1>9. View(r)
  BY DEF SoundPanel, View
<1>10. Held(r)
  BY <1>1, <1>2, <1>3 DEF Held, HistoryHeld, ReloadHeld
<1>11. Continued(p, r)
  <2>1. ~Reader(r, n)
    BY <1>1 DEF Reader
  <2> QED BY <1>1, <1>2, <2>1 DEF Continued, Reader, Starts, Twins
<1> QED BY <1>4, <1>5, <1>6, <1>7, <1>8, <1>9, <1>10, <1>11 DEF SoundPanel

LEMMA WriteIsGood ==
  ASSUME NEW p, SoundPanel(p), Held(p), NEW r \in Panel, NEW n \in Request,
         SameView(p, r), SameData(p, r), Answers(r), r.busy, r.loading = p.loading,
         r.pending = p.pending, r.historyLoading = p.historyLoading,
         r.pageLoading = p.pageLoading, p.status # Nothing, ~p.busy,
         Starts(p, r, n, "write", {"refresh", "mutation"}, 0, {"mutation", "refresh"})
  PROVE  SoundPanel(r) /\ Held(r) /\ Continued(p, r)
<1>1. /\ \A m \in Request \ {n} : \A g : Owns(r, m, g) <=> /\ Owns(p, m, g)
                                                           /\ g \notin {"mutation", "refresh"}
      /\ \A g : Owns(r, n, g) <=> g \in {"refresh", "mutation"}
      /\ OfKind(r, n, {"write"})
  BY DEF Starts, OfKind
<1>2. \A m \in Request : \A g, K : Owns(p, m, g) => m # n /\ (OfKind(r, m, K) <=> OfKind(p, m, K))
  BY DEF Starts, OfKind, Twins
<1>3. /\ ~OfKind(r, n, {"load"}) /\ ~OfKind(r, n, Reloading)
      /\ OfKind(r, n, {"write", "load", "inventory"})
  BY <1>1 DEF OfKind, Reloading
<1>4. \A m \in Request : ~Owns(p, m, "mutation")
  BY DEF SoundPanel, Base, Writes
<1>5. ~p.pending /\ ~p.loading
  BY <1>4 DEF SoundPanel, Held, ReloadHeld, Loads
<1>6. Base(r)
  BY <1>1, <1>3 DEF Base, OneWrite, Writes, BusyHeld
<1>7. Aimed(r)
  BY <1>1 DEF SoundPanel, Aimed, Starts, SameView, Twins
<1>8. OneHistory(r) /\ OneReload(r)
  BY <1>1, <1>3 DEF SoundPanel, OneHistory, OneReload
<1>9. Loads(r)
  BY <1>1, <1>3, <1>5 DEF Loads
<1>10. Pages(r)
  BY <1>1, <1>2, <1>4 DEF SoundPanel, Pages, SameData, Starts, Twins
<1>11. View(r)
  BY DEF SoundPanel, View, SameView, SameData
<1>12. Held(r)
  BY <1>1, <1>2, <1>5 DEF Held, HistoryHeld, ReloadHeld
<1>13. Continued(p, r)
  <2>1. ~Reader(r, n)
    BY <1>1, <1>3 DEF Reader
  <2> QED BY <1>1, <1>2, <2>1 DEF Continued, Reader, Starts, Twins
<1> QED BY <1>6, <1>7, <1>8, <1>9, <1>10, <1>11, <1>12, <1>13 DEF SoundPanel

Hosted == /\ kept \in [Scope -> Repo \cup {Nothing}] /\ ready \in SUBSET Repo
          /\ known \in (SUBSET Repo) \cup {Nothing} /\ work \in [Repo -> 0..MaxVersion]
          /\ inputs \in 0..MaxInputs

\* How the status on screen and those that read it move together: a new reading
\* begins, the reading goes on, there is no repository, or a reading ends.
Moves(p, r) ==
  \/ r.status \in {p.status, Nothing} /\ Unanswered(r)
  \/ r.status \in {p.status, Nothing} /\ r.target = p.target /\ Continued(p, r)
  \/ /\ \A m \in Request : ~Reader(r, m)
     /\ r.status.repo = Nothing /\ r.status.version = 0
  \/ \E n \in Request :
       /\ Reader(p, n) /\ "status" \in DOMAIN p.requests[n].replies
       /\ p.requests[n].replies["status"].code = "ok"
       /\ r.status = Row(p.requests[n]) /\ r.target = p.target /\ ReadEnds(p, r, n)

GitInv == SoundPanel(panel) /\ Held(panel) /\ Hosted

LEMMA PollTimerStep ==
  ASSUME GitInv, NEW n \in Request, PollTimer(n)
  PROVE  SoundPanel(panel') /\ Held(panel') /\ Moves(panel, panel') /\ Paged(panel, panel')
<1> DEFINE u == Raise(panel, {"poll"})
           owns == {"refresh", "poll"}
<1>1. /\ SoundPanel(panel) /\ Held(panel) /\ panel \in Panel /\ panel.requests[n] = Nothing
      /\ ~panel.pending
  BY DEF GitInv, SoundPanel, Base, PollTimer, FreeSlot
<1>2. /\ u \in Panel /\ SameView(panel, u) /\ SameData(panel, u) /\ SameFlags(panel, u)
      /\ \A m \in Request : u.requests[m] = Less(panel.requests[m], {"poll"})
  BY <1>1, RaiseFields
<1>3. panel' = Ask(u, n, "poll", owns, 0, FALSE)
  BY DEF PollTimer
<1>4. owns \in SUBSET Generation /\ "poll" \in Kinds /\ 0 \in Nat /\ FALSE \in BOOLEAN
  BY DEF Generation, Kinds
<1> HIDE DEF u, owns
<1>5. /\ panel' \in Panel /\ SameView(u, panel') /\ SameData(u, panel') /\ SameFlags(u, panel')
      /\ Starts(panel, panel', n, "poll", owns, 0, {"poll"}) /\ Answers(panel')
  BY <1>1, <1>2, <1>3, <1>4, RequestStarts
<1>6. SameView(panel, panel') /\ SameData(panel, panel') /\ SameFlags(panel, panel')
  BY <1>2, <1>5 DEF SameView, SameData, SameFlags
<1>7. SoundPanel(panel') /\ Held(panel') /\ Unanswered(panel') /\ Paged(panel, panel')
  BY <1>1, <1>5, <1>6, PollIsGood DEF owns
<1>8. Moves(panel, panel')
  BY <1>7, <1>6 DEF Moves, SameData
<1> QED BY <1>7, <1>8

LEMMA LoadMoreStep ==
  ASSUME GitInv, NEW n \in Request, LoadMore(n)
  PROVE  SoundPanel(panel') /\ Held(panel') /\ Moves(panel, panel') /\ Paged(panel, panel')
<1> DEFINE u == [panel EXCEPT !.pageLoading = TRUE]
           owns == {"refresh", "history"}
           from == Len(panel.log)
<1>1. SoundPanel(panel) /\ Held(panel) /\ panel \in Panel /\ panel.requests[n] = Nothing
  BY DEF GitInv, SoundPanel, Base, LoadMore, FreeSlot
<1>2. panel.more /\ ~panel.busy /\ ~panel.pageLoading
  BY DEF LoadMore
<1>3. /\ u \in Panel /\ SameView(panel, u) /\ SameData(panel, u)
      /\ u.busy = panel.busy /\ u.loading = panel.loading /\ u.pending = panel.pending
      /\ u.historyLoading = panel.historyLoading /\ u.pageLoading = TRUE
      /\ u.requests = panel.requests
  BY <1>1 DEF Panel, SameView, SameData
<1>4. \A m \in Request : u.requests[m] = Less(panel.requests[m], {})
  <2> SUFFICES ASSUME NEW m \in Request PROVE panel.requests[m] = Less(panel.requests[m], {})
    BY <1>3
  <2>1. CASE panel.requests[m] = Nothing
    BY <2>1 DEF Less
  <2>2. CASE panel.requests[m] # Nothing
    <3>1. panel.requests[m] \in Call
      BY <1>1, <2>2, SlotType
    <3>2. [panel.requests[m] EXCEPT !.owns = panel.requests[m].owns \ {}] = panel.requests[m]
      BY <3>1 DEF Call
    <3> QED BY <2>2, <3>2 DEF Less
  <2> QED BY <2>1, <2>2
<1>5. panel' = Ask(u, n, "page", owns, from, FALSE)
  BY DEF LoadMore
<1>6. owns \in SUBSET Generation /\ "page" \in Kinds /\ from \in Nat /\ FALSE \in BOOLEAN
  <2>1. panel.log \in Seq(Part)
    BY <1>1 DEF Panel
  <2>2. from \in Nat
    BY <2>1
  <2> QED BY <2>2 DEF Generation, Kinds
<1> HIDE DEF u, owns, from
<1>7. /\ panel' \in Panel /\ SameView(u, panel') /\ SameData(u, panel') /\ SameFlags(u, panel')
      /\ Starts(panel, panel', n, "page", owns, from, {}) /\ Answers(panel')
  BY <1>1, <1>3, <1>4, <1>5, <1>6, RequestStarts
<1>8. /\ SameView(panel, panel') /\ SameData(panel, panel')
      /\ panel'.busy = panel.busy /\ panel'.loading = panel.loading
      /\ panel'.pending = panel.pending /\ panel'.historyLoading = panel.historyLoading
      /\ panel'.pageLoading
  BY <1>3, <1>7 DEF SameView, SameData, SameFlags
<1>9. SoundPanel(panel') /\ Held(panel') /\ Continued(panel, panel') /\ Paged(panel, panel')
  BY <1>1, <1>2, <1>7, <1>8, PageIsGood DEF owns, from
<1>10. Moves(panel, panel')
  BY <1>9, <1>8 DEF Moves, SameData, SameView
<1> QED BY <1>9, <1>10

LEMMA ChangeFiltersStep ==
  ASSUME GitInv, NEW n \in Request, NEW f \in Query, ChangeFilters(f, n)
  PROVE  SoundPanel(panel') /\ Held(panel') /\ Moves(panel, panel')
<1> DEFINE t == Raise(panel, {"history"})
           u == [t EXCEPT !.filters = f, !.log = <<>>, !.more = FALSE, !.historyLoading = TRUE]
           owns == {"history"}
<1>1. SoundPanel(panel) /\ Held(panel) /\ panel \in Panel /\ panel.requests[n] = Nothing
  BY DEF GitInv, SoundPanel, Base, ChangeFilters, FreeSlot
<1>2. /\ t \in Panel /\ SameView(panel, t) /\ SameData(panel, t) /\ SameFlags(panel, t)
      /\ \A m \in Request : t.requests[m] = Less(panel.requests[m], {"history"})
  BY <1>1, RaiseFields
<1>3. panel' = Ask(u, n, "filter", owns, 0, FALSE)
  BY DEF ChangeFilters
<1>4. owns \in SUBSET Generation /\ "filter" \in Kinds /\ 0 \in Nat /\ FALSE \in BOOLEAN
  BY DEF Generation, Kinds
<1> HIDE DEF t, owns
<1>5. /\ u \in Panel /\ u.scope = t.scope /\ u.target = t.target /\ u.status = t.status
      /\ u.log = <<>> /\ u.more = FALSE /\ u.busy = t.busy /\ u.loading = t.loading
      /\ u.pending = t.pending /\ u.requests = t.requests
  BY <1>2, EmptySeq DEF Panel
<1> HIDE DEF u
<1>6. \A m \in Request : u.requests[m] = Less(panel.requests[m], {"history"})
  BY <1>2, <1>5
<1>7. /\ panel' \in Panel /\ SameView(u, panel') /\ SameData(u, panel') /\ SameFlags(u, panel')
      /\ Starts(panel, panel', n, "filter", owns, 0, {"history"}) /\ Answers(panel')
  BY <1>1, <1>5, <1>6, <1>3, <1>4, RequestStarts, ZenonT(30)
<1>8. /\ panel'.scope = panel.scope /\ panel'.target = panel.target
      /\ panel'.status = panel.status /\ panel'.log = <<>> /\ ~panel'.more
      /\ panel'.busy = panel.busy /\ panel'.loading = panel.loading
      /\ panel'.pending = panel.pending
  BY <1>2, <1>5, <1>7 DEF SameView, SameData, SameFlags
<1>9. SoundPanel(panel') /\ Held(panel') /\ Continued(panel, panel')
  BY <1>1, <1>7, <1>8, FilterIsGood DEF owns
<1>10. Moves(panel, panel')
  BY <1>9, <1>8 DEF Moves
<1> QED BY <1>9, <1>10

LEMMA RunActionStep ==
  ASSUME GitInv, NEW n \in Request, RunAction(n)
  PROVE  SoundPanel(panel') /\ Held(panel') /\ Moves(panel, panel')
<1> DEFINE t == Raise(panel, {"mutation", "refresh"})
           u == [t EXCEPT !.busy = TRUE]
           owns == {"refresh", "mutation"}
<1>1. SoundPanel(panel) /\ Held(panel) /\ panel \in Panel /\ panel.requests[n] = Nothing
  BY DEF GitInv, SoundPanel, Base, RunAction, FreeSlot
<1>2. panel.status # Nothing /\ ~panel.busy
  BY DEF RunAction, StatusShown
<1>3. /\ t \in Panel /\ SameView(panel, t) /\ SameData(panel, t) /\ SameFlags(panel, t)
      /\ \A m \in Request : t.requests[m] = Less(panel.requests[m], {"mutation", "refresh"})
  BY <1>1, RaiseFields
<1>4. panel' = Ask(u, n, "write", owns, 0, FALSE)
  BY DEF RunAction
<1>5. owns \in SUBSET Generation /\ "write" \in Kinds /\ 0 \in Nat /\ FALSE \in BOOLEAN
  BY DEF Generation, Kinds
<1> HIDE DEF t, owns
<1>6. /\ u \in Panel /\ SameView(t, u) /\ SameData(t, u) /\ u.busy = TRUE
      /\ u.loading = t.loading /\ u.pending = t.pending
      /\ u.historyLoading = t.historyLoading /\ u.pageLoading = t.pageLoading
      /\ u.requests = t.requests
  BY <1>3 DEF Panel, SameView, SameData
<1> HIDE DEF u
<1>7. \A m \in Request : u.requests[m] = Less(panel.requests[m], {"mutation", "refresh"})
  BY <1>3, <1>6
<1>8. /\ panel' \in Panel /\ SameView(u, panel') /\ SameData(u, panel') /\ SameFlags(u, panel')
      /\ Starts(panel, panel', n, "write", owns, 0, {"mutation", "refresh"}) /\ Answers(panel')
  BY <1>1, <1>4, <1>5, <1>6, <1>7, RequestStarts, ZenonT(30)
<1>9. /\ SameView(panel, panel') /\ SameData(panel, panel') /\ panel'.busy
      /\ panel'.loading = panel.loading /\ panel'.pending = panel.pending
      /\ panel'.historyLoading = panel.historyLoading /\ panel'.pageLoading = panel.pageLoading
  BY <1>3, <1>6, <1>8 DEF SameView, SameData, SameFlags
<1>10. SoundPanel(panel') /\ Held(panel') /\ Continued(panel, panel')
  BY <1>1, <1>2, <1>8, <1>9, WriteIsGood DEF owns
<1>11. Moves(panel, panel')
  BY <1>10, <1>9 DEF Moves, SameData, SameView
<1> QED BY <1>10, <1>11

LEMMA ManualRefreshStep ==
  ASSUME GitInv, NEW n \in Request, ManualRefresh(n)
  PROVE  SoundPanel(panel') /\ Held(panel') /\ Moves(panel, panel') /\ Paged(panel, panel')
<1> DEFINE u == [panel EXCEPT !.tried = Nothing]
           owner == OwnerAt(u, n)
<1>1. Base(panel) /\ panel \in Panel /\ panel.requests[n] = Nothing
  BY DEF GitInv, SoundPanel, Base, ManualRefresh, FreeSlot
<1>2. u \in Panel /\ u.busy = panel.busy /\ u.requests = panel.requests
  BY <1>1 DEF Panel
<1>3. panel' = RefreshInventory(u, n, TRUE, {})
  BY DEF ManualRefresh
<1> HIDE DEF u
<1>4. Base(u)
  BY <1>1, <1>2, SameRequests
<1>5. owner = {} /\ TRUE \in BOOLEAN
  BY <1>1, <1>2 DEF OwnerAt
<1> HIDE DEF owner
<1>6. /\ SoundPanel(panel') /\ Held(panel') /\ panel'.status = Nothing /\ Unanswered(panel')
      /\ ~panel'.pageLoading
  BY <1>3, <1>4, <1>5, DiscoveryIsGood DEF owner
<1> QED BY <1>6 DEF Moves, Paged, PageHeld

LEMMA RescopeStep ==
  ASSUME GitInv, NEW n \in Request, NEW s \in Scope, Rescope(s, n)
  PROVE  SoundPanel(panel') /\ Held(panel') /\ Moves(panel, panel') /\ Paged(panel, panel')
<1> DEFINE G == {"refresh", "poll", "mutation"}
           t == Raise(panel, G)
           u == [t EXCEPT !.scope = s, !.target = kept[s], !.tried = Nothing, !.busy = FALSE,
                          !.pending = FALSE, !.inventory = {}, !.filters = AllHistory]
           owner == OwnerAt(u, n)
<1>1. Base(panel) /\ panel \in Panel /\ panel.requests[n] = Nothing
  BY DEF GitInv, SoundPanel, Base, Rescope, FreeSlot
<1>2. /\ t \in Panel
      /\ \A m \in Request : t.requests[m] = Less(panel.requests[m], G)
  BY <1>1, RaiseFields
<1>3. panel' = RefreshInventory(u, n, FALSE, {})
  BY DEF Rescope
<1>4. "mutation" \in G
  OBVIOUS
<1> HIDE DEF t, G
<1>5. kept[s] \in Repo \cup {Nothing} /\ AllHistory \in Query
  BY GitAssumption DEF GitInv, Hosted
<1>6. u \in Panel /\ u.busy = FALSE /\ u.requests = t.requests
  BY <1>2, <1>5 DEF Panel
<1> HIDE DEF u
<1>7. \A m \in Request : u.requests[m] = Less(panel.requests[m], G)
  BY <1>2, <1>6
<1>8. \A m \in Request : /\ u.requests[m] # Nothing <=> panel.requests[m] # Nothing
                         /\ panel.requests[m] # Nothing => Twins(u.requests[m], panel.requests[m])
                         /\ \A g : Owns(u, m, g) <=> Owns(panel, m, g) /\ g \notin G
  BY <1>1, <1>6, <1>7, LessSlot
<1>9. Answers(u)
  BY <1>1, <1>8, AlikeAnswered DEF Base, Answers
<1>10. OneWrite(u) /\ Writes(u) /\ BusyHeld(u)
  BY <1>4, <1>6, <1>8 DEF OneWrite, Writes, BusyHeld
<1>11. Base(u)
  BY <1>6, <1>9, <1>10 DEF Base
<1>12. owner = {} /\ FALSE \in BOOLEAN
  BY <1>1, <1>8 DEF OwnerAt
<1> HIDE DEF owner
<1>13. /\ SoundPanel(panel') /\ Held(panel') /\ panel'.status = Nothing /\ Unanswered(panel')
       /\ ~panel'.pageLoading
  BY <1>3, <1>11, <1>12, DiscoveryIsGood DEF owner
<1> QED BY <1>13 DEF Moves, Paged, PageHeld

\* A panel that looks at repository r, and shows nothing of it yet, may load it.
LEMMA BlankLoadIsGood ==
  ASSUME NEW p, Base(p), NEW c \in Panel, NEW G, "mutation" \notin G, "refresh" \in G,
         c.busy = p.busy, NoData(c),
         \A m \in Request : c.requests[m] = Less(p.requests[m], G),
         NEW n \in Request, NEW owner, owner = OwnerAt(p, n)
  PROVE  LET r == RefreshTarget(c, n, TRUE, owner) IN
         SoundPanel(r) /\ Held(r) /\ r.status = Nothing /\ Unanswered(r) /\ ~r.pageLoading
<1>1. /\ Base(c) /\ OwnerAt(c, n) = owner
      /\ \A m \in Request : ~Owns(c, m, "refresh")
  BY RaiseKeepsBase
<1>2. View(c) /\ ~c.more /\ c.status = Nothing /\ ~c.pageLoading /\ TRUE \in BOOLEAN
  BY DEF View, NoData
<1> DEFINE r == RefreshTarget(c, n, TRUE, owner)
<1>3. /\ SoundPanel(r) /\ Held(r) /\ r.status = c.status /\ Unanswered(r)
      /\ r.pageLoading = c.pageLoading
  BY <1>1, <1>2, LoadIsGood
<1> HIDE DEF r
<1>4. SoundPanel(r) /\ Held(r) /\ r.status = Nothing /\ Unanswered(r) /\ ~r.pageLoading
  BY <1>2, <1>3
<1> QED BY <1>4 DEF r

LEMMA SelectRepositoryStep ==
  ASSUME GitInv, NEW n \in Request, NEW r \in Repo, SelectRepository(r, n)
  PROVE  SoundPanel(panel') /\ Held(panel') /\ Moves(panel, panel') /\ Paged(panel, panel')
<1> DEFINE t == Raise(panel, {"refresh"})
           u == [t EXCEPT !.target = r, !.tried = Nothing, !.filters = AllHistory]
           c == Cleared(u)
           owner == OwnerAt(panel, n)
           G == {"refresh", "history"}
<1>1. Base(panel) /\ panel \in Panel /\ panel.requests[n] = Nothing
  BY DEF GitInv, SoundPanel, Base, SelectRepository, FreeSlot
<1>2. /\ t \in Panel /\ t.busy = panel.busy
      /\ \A m \in Request : t.requests[m] = Less(panel.requests[m], {"refresh"})
  BY <1>1, RaiseFields DEF SameFlags
<1>3. panel' = RefreshTarget(c, n, TRUE, {})
  BY DEF SelectRepository
<1> HIDE DEF t
<1>4. u \in Panel /\ u.busy = t.busy /\ u.requests = t.requests
  BY <1>2, GitAssumption DEF Panel
<1> HIDE DEF u
<1>5. /\ c \in Panel /\ NoData(c) /\ c.busy = u.busy
      /\ \A m \in Request : c.requests[m] = Less(u.requests[m], {"history"})
  BY <1>4, ClearedFields
<1> HIDE DEF c
<1>6. \A m \in Request : c.requests[m] = Less(panel.requests[m], G)
  <2> SUFFICES ASSUME NEW m \in Request PROVE c.requests[m] = Less(panel.requests[m], G)
    OBVIOUS
  <2>1. c.requests[m] = Less(Less(panel.requests[m], {"refresh"}), {"history"})
    BY <1>2, <1>4, <1>5
  <2>2. panel.requests[m] \in Call \cup {Nothing}
    BY <1>1, SlotType
  <2>3. {"refresh"} \cup {"history"} = G
    OBVIOUS
  <2> QED BY <2>1, <2>2, <2>3, LessTwice
<1>7. "mutation" \notin G /\ "refresh" \in G
  OBVIOUS
<1>8. owner = {} /\ c.busy = panel.busy
  BY <1>1, <1>2, <1>4, <1>5 DEF OwnerAt
<1> HIDE DEF owner, G
<1>9. /\ SoundPanel(panel') /\ Held(panel') /\ panel'.status = Nothing /\ Unanswered(panel')
      /\ ~panel'.pageLoading
  BY <1>1, <1>3, <1>5, <1>6, <1>7, <1>8, BlankLoadIsGood DEF owner
<1> QED BY <1>9 DEF Moves, Paged, PageHeld

LEMMA InitGood ==
  ASSUME GitInit
  PROVE  GitInv /\ panel.status = Nothing /\ Unanswered(panel)
<1>1. PICK s \in Scope : panel = RefreshInventory(Blank(s), 1, FALSE, {})
  BY DEF GitInit
<1> DEFINE b == Blank(s)
           owner == OwnerAt(b, 1)
<1>2. Hosted
  BY GitAssumption DEF GitInit, Hosted
<1>3. 1 \in Request /\ FALSE \in BOOLEAN
  BY GitAssumption DEF Request
<1>4. b \in Panel /\ b.busy = FALSE /\ b.requests = [n \in Request |-> Nothing]
  <2>1. kept[s] \in Repo \cup {Nothing} /\ AllHistory \in Query /\ <<>> \in Seq(Part)
    BY <1>2, GitAssumption, EmptySeq DEF Hosted
  <2>2. [n \in Request |-> Nothing] \in Slots
    BY DEF Slots
  <2> QED BY <2>1, <2>2 DEF Blank, Panel
<1>5. \A n \in Request : b.requests[n] = Nothing
  BY <1>4
<1> HIDE DEF b
<1>6. Base(b)
  BY <1>4, <1>5 DEF Base, OneWrite, Writes, BusyHeld, Answers, Owns
<1>7. owner = {}
  BY <1>3, <1>5 DEF OwnerAt
<1>8. panel = RefreshInventory(b, 1, FALSE, owner)
  BY <1>1, <1>7 DEF b
<1> HIDE DEF owner
<1>9. SoundPanel(panel) /\ Held(panel) /\ panel.status = Nothing /\ Unanswered(panel)
  BY <1>3, <1>6, <1>8, DiscoveryIsGood DEF owner
<1> QED BY <1>2, <1>9 DEF GitInv

---------------------------------------------------------------------------
(* The host answers                                                        *)

\* The answers of request n after `read` has been answered.
Extended(c, read, a) ==
  [x \in DOMAIN c.replies \cup {read} |-> IF x = read THEN a ELSE c.replies[x]]

LEMMA ExtendedType ==
  ASSUME NEW c \in Call, Answered(c), NEW read \in Reads(c.kind), NEW a \in Answer,
         RightAnswer(read, a), NEW d, d = [c EXCEPT !.replies = Extended(c, read, a)]
  PROVE  /\ d \in Call /\ d.owns = c.owns /\ d.kind = c.kind /\ d.scope = c.scope
         /\ d.repo = c.repo /\ d.query = c.query /\ d.from = c.from /\ d.whole = c.whole
         /\ d.replies = Extended(c, read, a) /\ Answered(d)
<1>1. read \in Reading
  <2>1. c.kind \in Kinds
    BY DEF Call, Kinds
  <2> QED BY <2>1 DEF Kinds, Reads, Reading
<1>2. PICK R \in SUBSET Reading : c.replies \in [R -> Answer]
  BY DEF Call
<1> DEFINE e == Extended(c, read, a)
<1>3. e \in [R \cup {read} -> Answer] /\ DOMAIN e = DOMAIN c.replies \cup {read}
  BY <1>2 DEF Extended
<1>4. R \cup {read} \in SUBSET Reading
  BY <1>1
<1>5. e \in UNION {[S -> Answer] : S \in SUBSET Reading}
  BY <1>3, <1>4
<1>6. \A x \in DOMAIN e : e[x] = IF x = read THEN a ELSE c.replies[x]
  BY <1>3 DEF Extended
<1> HIDE DEF e
<1>7. /\ d \in Call /\ d.owns = c.owns /\ d.kind = c.kind /\ d.scope = c.scope
      /\ d.repo = c.repo /\ d.query = c.query /\ d.from = c.from /\ d.whole = c.whole
      /\ d.replies = e
  <2>1. d = [c EXCEPT !.replies = e]
    BY DEF e
  <2> QED BY <1>5, <2>1 DEF Call
<1>8. Answered(d)
  BY <1>3, <1>6, <1>7 DEF Answered
<1> QED BY <1>7, <1>8 DEF e

\* The answer of the host changes nothing but the replies of the request.
Replies(p, r, n, read, a) ==
  /\ r \in Panel /\ SameView(p, r) /\ SameData(p, r) /\ SameFlags(p, r)
  /\ r.requests[n] # Nothing /\ Answered(r.requests[n])
  /\ r.requests[n].replies = Extended(p.requests[n], read, a)
  /\ r.requests[n].owns = p.requests[n].owns /\ r.requests[n].kind = p.requests[n].kind
  /\ r.requests[n].scope = p.requests[n].scope /\ r.requests[n].repo = p.requests[n].repo
  /\ r.requests[n].query = p.requests[n].query /\ r.requests[n].from = p.requests[n].from
  /\ r.requests[n].whole = p.requests[n].whole
  /\ \A m \in Request \ {n} : r.requests[m] = p.requests[m]

LEMMA ReplyFields ==
  ASSUME NEW p \in Panel, Answers(p), NEW n \in Request, p.requests[n] # Nothing,
         NEW read \in Reads(p.requests[n].kind), NEW a \in Answer, RightAnswer(read, a),
         NEW r, r = [p EXCEPT !.requests[n].replies = Extended(p.requests[n], read, a)]
  PROVE  Replies(p, r, n, read, a)
<1> DEFINE c == p.requests[n]
           d == [c EXCEPT !.replies = Extended(c, read, a)]
<1>1. c \in Call /\ Answered(c) /\ read \in Reads(c.kind)
  BY SlotType DEF Answers
<1>2. r = [p EXCEPT !.requests[n] = d]
  <2>1. p.requests \in Slots
    BY DEF Panel
  <2> QED BY <2>1 DEF Panel, Slots
<1> HIDE DEF c
<1>3. /\ d \in Call /\ d.owns = c.owns /\ d.kind = c.kind /\ d.scope = c.scope
      /\ d.repo = c.repo /\ d.query = c.query /\ d.from = c.from /\ d.whole = c.whole
      /\ d.replies = Extended(c, read, a) /\ Answered(d)
  BY <1>1, ExtendedType
<1> HIDE DEF d
<1>4. p.requests \in Slots
  BY DEF Panel
<1>5. [p.requests EXCEPT ![n] = d] \in Slots
  BY <1>3, <1>4 DEF Slots
<1>6. r \in Panel /\ r.requests = [p.requests EXCEPT ![n] = d]
  BY <1>2, <1>5 DEF Panel
<1>7. r.requests[n] = d /\ \A m \in Request \ {n} : r.requests[m] = p.requests[m]
  BY <1>4, <1>6 DEF Slots
<1>8. d # Nothing
  BY <1>3, CallIsSomething
<1>9. SameView(p, r) /\ SameData(p, r) /\ SameFlags(p, r)
  BY <1>2 DEF Panel, SameView, SameData, SameFlags
<1> QED BY <1>3, <1>6, <1>7, <1>8, <1>9 DEF Replies, c

LEMMA ReplyIsGood ==
  ASSUME NEW p, SoundPanel(p), Held(p), NEW n \in Request, p.requests[n] # Nothing, NEW read, NEW a,
         NEW r, Replies(p, r, n, read, a)
  PROVE  SoundPanel(r) /\ Held(r) /\ Paged(p, r)
<1>1. \A m \in Request : /\ \A g : Owns(r, m, g) <=> Owns(p, m, g)
                         /\ \A K : OfKind(r, m, K) <=> OfKind(p, m, K)
                         /\ r.requests[m].scope = p.requests[m].scope
                         /\ r.requests[m].repo = p.requests[m].repo
                         /\ r.requests[m].query = p.requests[m].query
                         /\ r.requests[m].from = p.requests[m].from
                         /\ r.requests[m].whole = p.requests[m].whole
  BY DEF Replies, Owns, OfKind
<1>2. r \in Panel /\ SameView(p, r) /\ SameData(p, r) /\ SameFlags(p, r)
  BY DEF Replies
<1>3. Answers(r)
  <2> SUFFICES ASSUME NEW m \in Request, r.requests[m] # Nothing PROVE Answered(r.requests[m])
    BY DEF Answers
  <2>1. CASE m = n
    BY <2>1 DEF Replies
  <2>2. CASE m # n
    BY <2>2 DEF Replies, SoundPanel, Base, Answers
  <2> QED BY <2>1, <2>2
<1>4. Base(r)
  BY <1>1, <1>2, <1>3 DEF SoundPanel, Base, OneWrite, Writes, BusyHeld, SameFlags
<1>5. Aimed(r)
  BY <1>1, <1>2 DEF SoundPanel, Aimed, SameView
<1>6. OneHistory(r) /\ OneReload(r)
  BY <1>1 DEF SoundPanel, OneHistory, OneReload
<1>7. Loads(r)
  BY <1>1, <1>2 DEF SoundPanel, Loads, SameFlags, SameData
<1>8. Pages(r)
  BY <1>1, <1>2 DEF SoundPanel, Pages, SameFlags, SameData
<1>9. View(r)
  BY <1>2 DEF SoundPanel, View, SameView, SameData
<1>10. Held(r)
  BY <1>1, <1>2 DEF Held, HistoryHeld, ReloadHeld, SameFlags
<1>11. Paged(p, r)
  BY <1>1, <1>2 DEF Paged, PageHeld, PageAt, SameFlags
<1> QED BY <1>11, <1>4, <1>5, <1>6, <1>7, <1>8, <1>9, <1>10 DEF SoundPanel

LEMMA HostReplies ==
  ASSUME GitInv, NEW n \in Request, NEW read, Waits(n, read), NEW a \in Answer,
         RightAnswer(read, a), Reply(n, read, a)
  PROVE  Replies(panel, panel', n, read, a)
<1>1. panel \in Panel /\ Answers(panel)
  BY DEF GitInv, SoundPanel, Base
<1>2. panel.requests[n] # Nothing /\ read \in Reads(panel.requests[n].kind)
  BY DEF Waits
<1>3. panel' = [panel EXCEPT !.requests[n].replies = Extended(panel.requests[n], read, a)]
  BY DEF Reply, Extended
<1> QED BY <1>1, <1>2, <1>3, ReplyFields

LEMMA InventoryKnown ==
  ASSUME Hosted, NEW force \in BOOLEAN
  PROVE  Inventory(force) \in SUBSET Repo
BY GitAssumption DEF Hosted, Inventory

LEMMA TroubleIsAnswer ==
  ASSUME NEW a \in Trouble
  PROVE  a \in Answer /\ a.code = "git-error"
BY DEF Trouble, Denied, Answer

LEMMA HostDiscoversStep ==
  ASSUME GitInv, NEW n \in Request, HostDiscovers(n)
  PROVE  \E a \in Answer : Replies(panel, panel', n, "inventory", a)
<1> DEFINE q == panel.requests[n]
           found == Inventory(q.whole)
<1>1. Waits(n, "inventory") /\ q \in Call
  BY SlotType DEF HostDiscovers, Waits, GitInv, SoundPanel, Base
<1>2. found \in SUBSET Repo
  BY <1>1, InventoryKnown DEF GitInv, Call
<1> HIDE DEF found
<1>3. CASE Reply(n, "inventory", Got(found))
  <2>1. Got(found) \in Answer /\ RightAnswer("inventory", Got(found))
    BY <1>2 DEF Got, Answer, RightAnswer
  <2> QED BY <1>1, <1>3, <2>1, HostReplies
<1>4. CASE \E a \in Trouble : Reply(n, "inventory", a)
  <2>1. PICK a \in Trouble : Reply(n, "inventory", a)
    BY <1>4
  <2>2. a \in Answer /\ RightAnswer("inventory", a)
    BY TroubleIsAnswer DEF RightAnswer
  <2> QED BY <1>1, <2>1, <2>2, HostReplies
<1> QED BY <1>3, <1>4 DEF HostDiscovers, found

LEMMA AnswersAreRight ==
  ASSUME Hosted, NEW q \in Call, NEW read \in {"status", "log", "write"},
         NEW a \in GitAnswers(q, read)
  PROVE  /\ a \in Answer /\ RightAnswer(read, a)
         /\ a.code = "ok" /\ read = "status" => q.repo \in Repo /\ a.value = work[q.repo]
<1>1. CASE a \in {Denied("git-target"), Denied("git-error")} \cup Trouble
  BY <1>1, TroubleIsAnswer DEF Denied, Answer, RightAnswer
<1>2. CASE q.repo \in Repo /\ read = "status" /\ a = Got(work[q.repo])
  BY <1>2 DEF Hosted, Got, Answer, RightAnswer
<1>3. CASE read = "log" /\ \E more \in BOOLEAN : a = Got(more)
  BY <1>3 DEF Got, Answer, RightAnswer
<1>4. ready \in SUBSET Repo
  BY DEF Hosted
<1>5. CASE a \notin {Denied("git-target"), Denied("git-error")} \cup Trouble
  <2>1. /\ q.repo \in ready
        /\ a \in (CASE read = "status" -> {Got(work[q.repo])}
                  [] read = "log" -> {Got(more) : more \in {FALSE, q.from + 1 < MaxPages}}
                  [] read = "write" -> {})
    BY <1>5 DEF GitAnswers
  <2>2. CASE read = "status"
    BY <1>2, <1>4, <2>1, <2>2
  <2>3. CASE read = "log"
    <3> DEFINE last == q.from + 1 < MaxPages
    <3>1. a \in {Got(more) : more \in {FALSE, last}}
      BY <2>1, <2>3
    <3>2. last \in BOOLEAN
      OBVIOUS
    <3> HIDE DEF last
    <3>3. PICK more \in {FALSE, last} : a = Got(more)
      BY <3>1
    <3>4. more \in BOOLEAN
      BY <3>2
    <3> QED BY <1>3, <2>3, <3>3, <3>4
  <2>4. CASE read = "write"
    BY <2>1, <2>4
  <2> QED BY <2>2, <2>3, <2>4
<1> QED BY <1>1, <1>5

LEMMA HostReadsStep ==
  ASSUME GitInv, NEW n \in Request, NEW read \in {"status", "log", "write"}, HostReads(n, read)
  PROVE  \E a \in GitAnswers(panel.requests[n], read) : Replies(panel, panel', n, read, a)
<1>1. Waits(n, read) /\ panel.requests[n] \in Call
  BY SlotType DEF HostReads, Waits, GitInv, SoundPanel, Base
<1>2. PICK a \in GitAnswers(panel.requests[n], read) : Reply(n, read, a)
  BY DEF HostReads
<1>3. a \in Answer /\ RightAnswer(read, a)
  BY <1>1, AnswersAreRight DEF GitInv
<1> QED BY <1>1, <1>2, <1>3, HostReplies

LEMMA HostWritesStep ==
  ASSUME GitInv, NEW n \in Request, HostWrites(n)
  PROVE  \E a \in Answer : Replies(panel, panel', n, "write", a)
<1>1. Waits(n, "write")
  BY DEF HostWrites
<1>2. PICK a \in {Got(TRUE)} \cup Trouble : Reply(n, "write", a)
  BY DEF HostWrites
<1>3. Got(TRUE) \in Answer
  BY DEF Got, Answer
<1>4. a \in Answer /\ RightAnswer("write", a)
  BY <1>3, TroubleIsAnswer DEF RightAnswer
<1> QED BY <1>1, <1>2, <1>4, HostReplies

---------------------------------------------------------------------------
(* What has arrived                                                        *)

LEMMA InFlight ==
  ASSUME GitInv, NEW n \in Request, panel.requests[n] # Nothing
  PROVE  LET q == panel.requests[n] IN
         /\ q \in Call /\ Answered(q) /\ Owner(q) = OwnerAt(panel, n)
         /\ Current(q) <=> Owns(panel, n, "refresh")
         /\ \A g : g \in q.owns <=> Owns(panel, n, g)
         /\ \A K : q.kind \in K <=> OfKind(panel, n, K)
         /\ Current(q) => q.scope = panel.scope /\ q.repo = panel.target
         /\ "history" \in q.owns => /\ q.scope = panel.scope /\ q.repo = panel.target
                                    /\ q.query = panel.filters
<1> DEFINE q == panel.requests[n]
<1>1. q \in Call /\ Answered(q)
  BY SlotType DEF GitInv, SoundPanel, Base, Answers
<1>2. Owner(q) = OwnerAt(panel, n)
  BY DEF Owner, OwnerAt
<1>3. (\A g : g \in q.owns <=> Owns(panel, n, g)) /\ (\A K : q.kind \in K <=> OfKind(panel, n, K))
  BY DEF Owns, OfKind
<1>4. /\ Owns(panel, n, "refresh") => q.scope = panel.scope /\ q.repo = panel.target
      /\ Owns(panel, n, "history") => /\ q.scope = panel.scope /\ q.repo = panel.target
                                      /\ q.query = panel.filters
  BY DEF GitInv, SoundPanel, Aimed
<1>5. Current(q) <=> Owns(panel, n, "refresh")
  BY <1>3, <1>4 DEF Current
<1> QED BY <1>1, <1>2, <1>3, <1>4, <1>5

\* The wire tells an answer from an error.
LEMMA CodeOfReply ==
  ASSUME NEW q, NEW read
  PROVE  Code(q, read) = "ok" <=> q.replies[read].code = "ok"
BY DEF Code, WireCode

LEMMA RecoveryIsGood ==
  ASSUME GitInv, NEW n \in Request, panel.requests[n] # Nothing,
         panel' = Recovered(panel.requests[n], n)
  PROVE  SoundPanel(panel') /\ Held(panel') /\ Moves(panel, panel') /\ Paged(panel, panel')
<1> DEFINE q == panel.requests[n]
           u == [panel EXCEPT !.tried = q.repo]
           owner == Owner(q)
<1>1. q \in Call /\ owner = OwnerAt(panel, n)
  BY InFlight
<1>2. Base(panel) /\ panel \in Panel
  BY DEF GitInv, SoundPanel, Base
<1>3. u \in Panel /\ u.busy = panel.busy /\ u.requests = panel.requests
  BY <1>1, <1>2 DEF Panel, Call
<1>4. panel' = RefreshInventory(u, n, TRUE, owner)
  BY DEF Recovered
<1> HIDE DEF q, u, owner
<1>5. Base(u) /\ owner = OwnerAt(u, n) /\ TRUE \in BOOLEAN
  BY <1>1, <1>2, <1>3, SameRequests
<1>6. /\ SoundPanel(panel') /\ Held(panel') /\ panel'.status = Nothing /\ Unanswered(panel')
      /\ ~panel'.pageLoading
  BY <1>4, <1>5, DiscoveryIsGood
<1> QED BY <1>6 DEF Moves, Paged, PageHeld

\* What a discovery rebuilds the panel from.
Wiped(v) == [Raise(Cleared(panel), {"refresh", "poll"}) EXCEPT !.inventory = v]

LEMMA FreshFields ==
  ASSUME GitInv, NEW v \in SUBSET Repo
  PROVE  LET c == Wiped(v) IN
         /\ c \in Panel /\ NoData(c) /\ c.busy = panel.busy
         /\ c.scope = panel.scope /\ c.target = panel.target /\ c.filters = panel.filters
         /\ \A m \in Request : c.requests[m] = Less(panel.requests[m], {"refresh", "poll", "history"})
<1> DEFINE b == Cleared(panel)
           u == Raise(b, {"refresh", "poll"})
           c == Wiped(v)
<1>1. panel \in Panel
  BY DEF GitInv, SoundPanel, Base
<1>2. /\ b \in Panel /\ SameView(panel, b) /\ NoData(b) /\ b.busy = panel.busy
      /\ \A m \in Request : b.requests[m] = Less(panel.requests[m], {"history"})
  BY <1>1, ClearedFields
<1> HIDE DEF b
<1>3. /\ u \in Panel /\ SameView(b, u) /\ SameData(b, u) /\ SameFlags(b, u)
      /\ \A m \in Request : u.requests[m] = Less(b.requests[m], {"refresh", "poll"})
  BY <1>2, RaiseFields
<1>4. c = [u EXCEPT !.inventory = v]
  BY DEF Wiped, b
<1> HIDE DEF u, c
<1>5. /\ c \in Panel /\ c.scope = u.scope /\ c.target = u.target /\ c.filters = u.filters
      /\ SameData(u, c) /\ SameFlags(u, c) /\ c.requests = u.requests
  BY <1>3, <1>4 DEF Panel, SameData, SameFlags
<1>6. NoData(c) /\ c.busy = panel.busy
  BY <1>2, <1>3, <1>5 DEF NoData, SameData, SameFlags
<1>7. c.scope = panel.scope /\ c.target = panel.target /\ c.filters = panel.filters
  BY <1>2, <1>3, <1>5 DEF SameView
<1>8. ASSUME NEW m \in Request
      PROVE  c.requests[m] = Less(panel.requests[m], {"refresh", "poll", "history"})
  <2>1. c.requests[m] = Less(Less(panel.requests[m], {"history"}), {"refresh", "poll"})
    BY <1>2, <1>3, <1>5
  <2>2. panel.requests[m] \in Call \cup {Nothing}
    BY <1>1, SlotType
  <2>3. {"history"} \cup {"refresh", "poll"} = {"refresh", "poll", "history"}
    OBVIOUS
  <2> QED BY <2>1, <2>2, <2>3, LessTwice
<1> QED BY <1>5, <1>6, <1>7, <1>8 DEF c

LEMMA SelectionType ==
  ASSUME NEW inventory \in SUBSET Repo, NEW wanted
  PROVE  Selection(inventory, wanted) \in inventory \cup {Nothing}
BY DEF Selection

\* A panel whose requests in flight are all stale may show what it likes.
LEMMA StaleIsGood ==
  ASSUME NEW p, Base(p), NEW c \in Panel, c.busy = p.busy,
         \A m \in Request : c.requests[m] = Less(p.requests[m], {"refresh", "poll", "history"}),
         NEW n \in Request, p.requests[n] # Nothing, NEW r \in Panel, View(r),
         r.busy = (c.busy /\ "mutation" \notin c.requests[n].owns), r.requests[n] = Nothing,
         \A m \in Request \ {n} : r.requests[m] = c.requests[m],
         ~r.loading, ~r.pending, ~r.historyLoading
  PROVE  SoundPanel(r) /\ Held(r) /\ \A m \in Request : ~Reader(r, m)
<1> DEFINE G == {"refresh", "poll", "history"}
<1>1. "mutation" \notin G
  OBVIOUS
<1>2. /\ Base(c)
      /\ \A m \in Request : /\ \A g : Owns(c, m, g) <=> Owns(p, m, g) /\ g \notin G
                            /\ c.requests[m] # Nothing <=> p.requests[m] # Nothing
  BY <1>1, RaiseKeepsBase
<1>3. /\ Base(r) /\ \A g : ~Owns(r, n, g)
      /\ \A m \in Request \ {n} : \A g : Owns(r, m, g) <=> Owns(c, m, g)
  BY <1>2, EndKeepsBase
<1>4. \A m \in Request : ~Owns(r, m, "refresh") /\ ~Owns(r, m, "history")
  BY <1>2, <1>3
<1>5. Aimed(r) /\ OneHistory(r) /\ OneReload(r) /\ Pages(r)
  BY <1>4 DEF Aimed, OneHistory, OneReload, Pages
<1>6. Loads(r) /\ Held(r)
  BY <1>4 DEF Loads, Held, HistoryHeld, ReloadHeld
<1> QED BY <1>3, <1>4, <1>5, <1>6 DEF SoundPanel, Reader

\* No repository is left: the panel says so.
LEMMA NoRepositoryIsGood ==
  ASSUME GitInv, NEW n \in Request, panel.requests[n] # Nothing, NEW v \in SUBSET Repo,
         panel' = [Over(Wiped(v), n) EXCEPT !.target = Nothing, !.status = NotARepository,
                                            !.loading = FALSE, !.pending = FALSE]
  PROVE  SoundPanel(panel') /\ Held(panel') /\ Moves(panel, panel') /\ Paged(panel, panel')
<1> DEFINE c == Wiped(v)
           o == Over(c, n)
           r == panel'
<1>1. Base(panel) /\ panel \in Panel
  BY DEF GitInv, SoundPanel, Base
<1>2. /\ c \in Panel /\ NoData(c) /\ c.busy = panel.busy /\ c.scope = panel.scope
      /\ \A m \in Request : c.requests[m] = Less(panel.requests[m], {"refresh", "poll", "history"})
  BY FreshFields
<1> HIDE DEF c
<1>3. /\ o \in Panel /\ SameView(c, o) /\ SameData(c, o)
      /\ o.historyLoading = c.historyLoading /\ o.pageLoading = c.pageLoading
      /\ o.busy = (c.busy /\ "mutation" \notin c.requests[n].owns)
      /\ o.requests[n] = Nothing
      /\ \A m \in Request \ {n} : o.requests[m] = c.requests[m]
  BY <1>2, OverFields
<1>4. NotARepository \in ShownView /\ NotARepository.scope = panel.scope /\ NotARepository.repo = Nothing
      /\ NotARepository.version = 0
  BY <1>1, GitAssumption DEF NotARepository, ShownView, Panel
<1>5. r = [o EXCEPT !.target = Nothing, !.status = NotARepository,
                    !.loading = FALSE, !.pending = FALSE]
  BY DEF c
<1> HIDE DEF o
<1>6. /\ r \in Panel /\ r.scope = o.scope /\ r.target = Nothing
      /\ r.status = NotARepository /\ r.log = o.log /\ r.busy = o.busy
      /\ r.historyLoading = o.historyLoading /\ r.pageLoading = o.pageLoading
      /\ r.loading = FALSE /\ r.pending = FALSE /\ r.requests = o.requests
  BY <1>3, <1>4, <1>5 DEF Panel
<1> HIDE DEF r
<1>7. r.log = <<>> /\ r.historyLoading = FALSE /\ r.pageLoading = FALSE /\ r.scope = panel.scope
  BY <1>2, <1>3, <1>6 DEF NoData, SameData, SameView
<1>8. View(r)
  BY <1>4, <1>6, <1>7 DEF View
<1>9. /\ r \in Panel /\ r.requests[n] = Nothing /\ ~r.loading /\ ~r.pending /\ ~r.historyLoading
      /\ r.busy = (c.busy /\ "mutation" \notin c.requests[n].owns)
      /\ \A m \in Request \ {n} : r.requests[m] = c.requests[m]
  BY <1>3, <1>6, <1>7
<1>10. SoundPanel(r) /\ Held(r) /\ \A m \in Request : ~Reader(r, m)
  BY <1>1, <1>2, <1>8, <1>9, StaleIsGood
<1>11. Moves(panel, r)
  BY <1>4, <1>6, <1>10 DEF Moves
<1>12. Paged(panel, r)
  BY <1>7 DEF Paged, PageHeld
<1> QED BY <1>10, <1>11, <1>12 DEF r

LEMMA DiscoveryReply ==
  ASSUME GitInv, NEW n \in Request, panel.requests[n] # Nothing,
         panel.requests[n].kind = "inventory", DOMAIN panel.requests[n].replies # {},
         panel.requests[n].replies["inventory"].code = "ok"
  PROVE  panel.requests[n].replies["inventory"].value \in SUBSET Repo
<1>1. Answered(panel.requests[n])
  BY InFlight
<1>2. "inventory" \in DOMAIN panel.requests[n].replies
  BY <1>1 DEF Answered, Reads
<1> QED BY <1>1, <1>2 DEF Answered, RightAnswer

LEMMA DroppedMoves ==
  ASSUME NEW p, NEW r, NEW n, ReadEnds(p, r, n), r.status = p.status, SameTarget(p, r)
  PROVE  Moves(p, r)
BY DEF ReadEnds, Moves, Continued, SameTarget

LEMMA InventoryArrivesStep ==
  ASSUME GitInv, NEW n \in Request, InventoryArrives(n)
  PROVE  SoundPanel(panel') /\ Held(panel') /\ Moves(panel, panel') /\ Paged(panel, panel')
<1> DEFINE q == panel.requests[n]
           reply == q.replies["inventory"]
           v == reply.value
           fresh == Wiped(v)
           target == Selection(v, IF panel.target # Nothing THEN panel.target ELSE kept[panel.scope])
           filters == IF target = panel.target THEN panel.filters ELSE AllHistory
           o == Over(panel, n)
<1>1. /\ q # Nothing /\ q.kind = "inventory" /\ DOMAIN q.replies # {}
      /\ \/ "refresh" \notin q.owns /\ panel' = o
         \/ /\ "refresh" \in q.owns /\ panel' = [o EXCEPT !.loading = FALSE, !.pending = FALSE]
         \/ /\ "refresh" \in q.owns /\ reply.code = "ok"
            /\ panel' = [Over(fresh, n) EXCEPT !.target = Nothing, !.status = NotARepository,
                                               !.loading = FALSE, !.pending = FALSE]
         \/ /\ "refresh" \in q.owns /\ reply.code = "ok" /\ target # Nothing
            /\ panel' = RefreshTarget([fresh EXCEPT !.target = target, !.filters = filters],
                                      n, TRUE, Owner(q))
  BY DEF InventoryArrives, Wiped
<1>2. SoundPanel(panel) /\ Held(panel) /\ Base(panel) /\ panel \in Panel
  BY DEF GitInv, SoundPanel, Base
<1>3. /\ Owner(q) = OwnerAt(panel, n) /\ \A g : g \in q.owns <=> Owns(panel, n, g)
      /\ OfKind(panel, n, Reloading)
  BY <1>1, InFlight DEF Reloading
<1>4. /\ o \in Panel /\ SameView(panel, o) /\ SameData(panel, o)
      /\ o.loading = panel.loading /\ o.pending = panel.pending
      /\ o.historyLoading = panel.historyLoading /\ o.pageLoading = panel.pageLoading
      /\ o.busy = (panel.busy /\ "mutation" \notin q.owns)
      /\ o.requests[n] = Nothing
      /\ \A m \in Request \ {n} : o.requests[m] = panel.requests[m]
  BY <1>2, OverFields
<1>5. View(o) /\ SameTarget(panel, o)
  BY <1>2, <1>4 DEF SoundPanel, View, SameView, SameData, SameTarget
<1>6. ~Owns(panel, n, "history") /\ ~PageAt(panel, n)
  BY <1>1, <1>2 DEF SoundPanel, Pages, OfKind, PageAt
<1>7. "refresh" \in q.owns /\ reply.code = "ok" => v \in SUBSET Repo
  BY <1>1, DiscoveryReply
<1>8. CASE "refresh" \notin q.owns /\ panel' = o
  <2>1. ~Owns(panel, n, "refresh")
    BY <1>3, <1>8
  <2> HIDE DEF o
  <2>2. panel'.status = panel.status /\ panel'.log = panel.log /\ panel'.more = panel.more
    BY <1>4, <1>8 DEF SameData
  <2>3. SoundPanel(panel') /\ Held(panel') /\ ReadEnds(panel, panel', n) /\ Paged(panel, panel')
    BY <1>1, <1>2, <1>4, <1>5, <1>6, <1>8, <2>1, <2>2, EndIsGood
  <2> QED BY <1>5, <1>8, <2>2, <2>3, DroppedMoves
<1>9. CASE "refresh" \in q.owns /\ panel' = [o EXCEPT !.loading = FALSE, !.pending = FALSE]
  <2> HIDE DEF o
  <2>1. /\ panel' \in Panel /\ SameView(o, panel') /\ SameData(o, panel')
        /\ panel'.busy = o.busy /\ panel'.requests = o.requests
        /\ panel'.historyLoading = o.historyLoading /\ panel'.pageLoading = o.pageLoading
        /\ ~panel'.loading /\ ~panel'.pending
    BY <1>4, <1>9 DEF Panel, SameView, SameData
  <2>2. View(panel') /\ SameTarget(panel, panel')
    BY <1>5, <2>1 DEF View, SameView, SameData, SameTarget
  <2>3. panel'.log = panel.log /\ panel'.more = panel.more
    BY <1>4, <2>1 DEF SameData
  <2>4. Owns(panel, n, "refresh")
    BY <1>3, <1>9
  <2>5. /\ panel' \in Panel /\ panel'.busy = (panel.busy /\ "mutation" \notin panel.requests[n].owns)
        /\ panel'.requests[n] = Nothing
        /\ \A m \in Request \ {n} : panel'.requests[m] = panel.requests[m]
        /\ panel'.historyLoading = panel.historyLoading /\ panel'.pageLoading = panel.pageLoading
    BY <1>4, <2>1
  <2> HIDE DEF q
  <2>6. SoundPanel(panel') /\ Held(panel') /\ ReadEnds(panel, panel', n) /\ Paged(panel, panel')
    BY <1>1, <1>2, <1>3, <1>6, <2>1, <2>2, <2>3, <2>4, <2>5, EndIsGood DEF q
  <2>7. panel'.status = panel.status
    BY <1>4, <2>1 DEF SameData
  <2> QED BY <2>2, <2>6, <2>7, DroppedMoves
<1>10. CASE /\ "refresh" \in q.owns /\ reply.code = "ok"
            /\ panel' = [Over(fresh, n) EXCEPT !.target = Nothing, !.status = NotARepository,
                                               !.loading = FALSE, !.pending = FALSE]
  BY <1>1, <1>7, <1>10, NoRepositoryIsGood
<1>11. CASE /\ "refresh" \in q.owns /\ reply.code = "ok" /\ target # Nothing
            /\ panel' = RefreshTarget([fresh EXCEPT !.target = target, !.filters = filters],
                                      n, TRUE, Owner(q))
  <2> DEFINE c == [fresh EXCEPT !.target = target, !.filters = filters]
             owner == Owner(q)
             G == {"refresh", "poll", "history"}
  <2>1. v \in SUBSET Repo
    BY <1>7, <1>11
  <2>2. target \in Repo
    BY <1>11, <2>1, SelectionType
  <2>3. filters \in Query
    BY <1>2, GitAssumption DEF Panel
  <2> HIDE DEF v, target, filters
  <2>4. /\ fresh \in Panel /\ NoData(fresh) /\ fresh.busy = panel.busy
        /\ \A m \in Request : fresh.requests[m] = Less(panel.requests[m], G)
    BY <2>1, FreshFields
  <2> HIDE DEF fresh
  <2>5. /\ c \in Panel /\ NoData(c) /\ c.busy = fresh.busy /\ c.requests = fresh.requests
    BY <2>2, <2>3, <2>4 DEF Panel, NoData
  <2>6. c.busy = panel.busy /\ \A m \in Request : c.requests[m] = Less(panel.requests[m], G)
    BY <2>4, <2>5
  <2>7. "mutation" \notin G /\ "refresh" \in G
    OBVIOUS
  <2>8. owner = OwnerAt(panel, n) /\ panel' = RefreshTarget(c, n, TRUE, owner)
    BY <1>3, <1>11
  <2> HIDE DEF c, owner, G
  <2>9. /\ SoundPanel(panel') /\ Held(panel') /\ panel'.status = Nothing /\ Unanswered(panel')
        /\ ~panel'.pageLoading
    BY <1>2, <2>5, <2>6, <2>7, <2>8, BlankLoadIsGood
  <2> QED BY <2>9 DEF Moves, Paged, PageHeld
<1> QED BY <1>1, <1>8, <1>9, <1>10, <1>11

\* What a reply puts on screen is of the target and the filters on screen.
LEMMA RowType ==
  ASSUME NEW q \in Call, Answered(q), "status" \in DOMAIN q.replies,
         q.replies["status"].code = "ok"
  PROVE  Row(q) \in ShownView /\ Row(q).scope = q.scope /\ Row(q).repo = q.repo
         /\ Row(q).version = q.replies["status"].value
BY DEF Row, ShownView, Call, Answered, RightAnswer

LEMMA PageType ==
  ASSUME NEW q \in Call
  PROVE  Page(q) \in Part /\ <<Page(q)>> \in Seq(Part)
<1>1. Page(q) \in Part
  BY DEF Page, Part, Call
<1> QED BY <1>1

\* The history part of View.
LogOf(p) == \A i \in DOMAIN p.log :
  p.log[i] = [scope |-> p.scope, repo |-> p.target, query |-> p.filters, from |-> i - 1]

LEMMA FirstPage ==
  ASSUME GitInv, NEW n \in Request, panel.requests[n] # Nothing,
         "history" \in panel.requests[n].owns, panel.requests[n].kind # "page",
         NEW r, r.log = <<Page(panel.requests[n])>>, SameTarget(panel, r)
  PROVE  LogOf(r)
<1> DEFINE q == panel.requests[n]
<1>1. q.scope = panel.scope /\ q.repo = panel.target /\ q.query = panel.filters
  BY InFlight
<1>2. q.from = 0
  BY InFlight DEF GitInv, SoundPanel, Pages, OfKind
<1>3. DOMAIN r.log = {1} /\ r.log[1] = Page(q)
  OBVIOUS
<1>4. Page(q) = [scope |-> r.scope, repo |-> r.target, query |-> r.filters, from |-> 0]
  BY <1>1, <1>2 DEF Page, SameTarget
<1> HIDE DEF q
<1>5. 1 - 1 = 0
  OBVIOUS
<1> QED BY <1>3, <1>4, <1>5 DEF LogOf

LEMMA NextPage ==
  ASSUME GitInv, NEW n \in Request, panel.requests[n] # Nothing,
         "history" \in panel.requests[n].owns, panel.requests[n].kind = "page",
         NEW r, r.log = Append(panel.log, Page(panel.requests[n])), SameTarget(panel, r)
  PROVE  LogOf(r) /\ r.log \in Seq(Part)
<1> DEFINE q == panel.requests[n]
           k == Len(panel.log)
<1>1. q.scope = panel.scope /\ q.repo = panel.target /\ q.query = panel.filters /\ q \in Call
  BY InFlight
<1>2. q.from = k
  BY InFlight DEF GitInv, SoundPanel, Pages, OfKind
<1>3. panel.log \in Seq(Part)
  BY DEF GitInv, SoundPanel, Base, Panel
<1>4. k \in Nat /\ DOMAIN panel.log = 1..k
  BY <1>3
<1>5. Page(q) \in Part
  BY <1>1, PageType
<1>6. /\ r.log \in Seq(Part) /\ DOMAIN r.log = 1..(k + 1)
      /\ \A i \in 1..k : r.log[i] = panel.log[i]
      /\ r.log[k + 1] = Page(q)
  BY <1>3, <1>5
<1>7. Page(q) = [scope |-> r.scope, repo |-> r.target, query |-> r.filters, from |-> k]
  BY <1>1, <1>2 DEF Page, SameTarget
<1>8. \A i \in 1..k : panel.log[i] = [scope |-> r.scope, repo |-> r.target,
                                      query |-> r.filters, from |-> i - 1]
  BY <1>4 DEF GitInv, SoundPanel, View, SameTarget
<1> HIDE DEF q, k
<1>9. ASSUME NEW i \in 1..(k + 1)
      PROVE  r.log[i] = [scope |-> r.scope, repo |-> r.target, query |-> r.filters, from |-> i - 1]
  <2>1. CASE i = k + 1
    <3>1. i - 1 = k
      BY <1>4, <2>1
    <3> QED BY <1>6, <1>7, <2>1, <3>1
  <2>2. CASE i # k + 1
    <3>1. i \in 1..k
      BY <1>4, <2>2
    <3> QED BY <1>6, <1>8, <3>1
  <2> QED BY <2>1, <2>2
<1> QED BY <1>6, <1>9 DEF LogOf

\* Request n ends and nothing else of the panel changes.
LEMMA OverPanel ==
  ASSUME GitInv, NEW n \in Request
  PROVE  LET o == Over(panel, n) IN
         /\ o \in Panel /\ SameView(panel, o) /\ SameData(panel, o)
         /\ o.loading = panel.loading /\ o.pending = panel.pending
         /\ o.historyLoading = panel.historyLoading /\ o.pageLoading = panel.pageLoading
         /\ o.busy = (panel.busy /\ "mutation" \notin panel.requests[n].owns)
         /\ o.requests[n] = Nothing
         /\ (\A m \in Request \ {n} : o.requests[m] = panel.requests[m])
         /\ View(o) /\ SameTarget(panel, o)
<1> DEFINE o == Over(panel, n)
<1>1. panel \in Panel /\ View(panel)
  BY DEF GitInv, SoundPanel, Base
<1>2. /\ o \in Panel /\ SameView(panel, o) /\ SameData(panel, o)
      /\ o.loading = panel.loading /\ o.pending = panel.pending
      /\ o.historyLoading = panel.historyLoading /\ o.pageLoading = panel.pageLoading
      /\ o.busy = (panel.busy /\ "mutation" \notin panel.requests[n].owns)
      /\ o.requests[n] = Nothing
      /\ \A m \in Request \ {n} : o.requests[m] = panel.requests[m]
  BY <1>1, OverFields
<1> HIDE DEF o
<1>3. View(o) /\ SameTarget(panel, o)
  BY <1>1, <1>2 DEF View, SameView, SameData, SameTarget
<1> QED BY <1>2, <1>3 DEF o

\* A request that reloads nothing and belongs to no history may simply end.
LEMMA DropIsGood ==
  ASSUME GitInv, NEW n \in Request, panel.requests[n] # Nothing, panel' = Over(panel, n),
         panel.requests[n].kind \notin Reloading, ~Owns(panel, n, "history")
  PROVE  SoundPanel(panel') /\ Held(panel') /\ Moves(panel, panel') /\ Paged(panel, panel')
<1> DEFINE o == Over(panel, n)
<1>1. /\ o \in Panel /\ SameView(panel, o) /\ SameData(panel, o)
      /\ o.loading = panel.loading /\ o.pending = panel.pending
      /\ o.historyLoading = panel.historyLoading /\ o.pageLoading = panel.pageLoading
      /\ o.busy = (panel.busy /\ "mutation" \notin panel.requests[n].owns)
      /\ o.requests[n] = Nothing
      /\ (\A m \in Request \ {n} : o.requests[m] = panel.requests[m])
      /\ View(o) /\ SameTarget(panel, o)
  BY OverPanel
<1>2. panel' = o
  OBVIOUS
<1> HIDE DEF o
<1>3. SoundPanel(panel) /\ Held(panel)
  BY DEF GitInv
<1>4. ~OfKind(panel, n, Reloading) /\ ~PageAt(panel, n)
  BY DEF OfKind, PageAt
<1>5. o.status = panel.status /\ o.log = panel.log /\ o.more = panel.more
  BY <1>1 DEF SameData
<1>6. SoundPanel(o) /\ Held(o) /\ ReadEnds(panel, o, n) /\ Paged(panel, o)
  BY <1>1, <1>3, <1>4, <1>5, EndIsGood
<1>7. Moves(panel, o)
  BY <1>1, <1>5, <1>6, DroppedMoves
<1> QED BY <1>2, <1>6, <1>7

LEMMA PollArrivesStep ==
  ASSUME GitInv, NEW n \in Request, PollArrives(n)
  PROVE  SoundPanel(panel') /\ Held(panel') /\ Moves(panel, panel') /\ Paged(panel, panel')
<1> DEFINE q == panel.requests[n]
           o == Over(panel, n)
<1>1. q # Nothing /\ q.kind = "poll" /\ DOMAIN q.replies # {}
  BY DEF PollArrives
<1>2. /\ q \in Call /\ Answered(q) /\ SoundPanel(panel) /\ Held(panel) /\ panel \in Panel
      /\ (\A g : g \in q.owns <=> Owns(panel, n, g))
      /\ (Current(q) => q.scope = panel.scope /\ q.repo = panel.target)
  BY <1>1, InFlight DEF GitInv, SoundPanel, Base
<1>3. ~Owns(panel, n, "history") /\ q.kind \notin Reloading
  BY <1>1, <1>2 DEF SoundPanel, Pages, OfKind, Reloading
<1>4. CASE panel' = o
  BY <1>1, <1>3, <1>4, DropIsGood
<1>5. CASE panel' = Recovered(q, n)
  BY <1>1, <1>5, RecoveryIsGood
<1>6. CASE /\ LastPoll(q) /\ Code(q, "status") = "ok" /\ panel' = [o EXCEPT !.status = Row(q)]
  <2>1. "status" \in DOMAIN q.replies
    BY <1>1, <1>2 DEF Answered, Reads
  <2>2. q.replies["status"].code = "ok"
    BY <1>6, CodeOfReply
  <2>3. Row(q) \in ShownView /\ Row(q).scope = q.scope /\ Row(q).repo = q.repo
    BY <1>2, <2>1, <2>2, RowType
  <2>4. ~panel.pending /\ q.scope = panel.scope /\ q.repo = panel.target
    BY <1>2, <1>6 DEF LastPoll, Current
  <2> DEFINE row == Row(q)
  <2>5. panel' = [o EXCEPT !.status = row] /\ row \in ShownView
        /\ row.scope = panel.scope /\ row.repo = panel.target
    BY <1>6, <2>3, <2>4
  <2> HIDE DEF row
  <2>6. /\ o \in Panel /\ SameView(panel, o) /\ SameData(panel, o)
        /\ o.loading = panel.loading /\ o.pending = panel.pending
        /\ o.historyLoading = panel.historyLoading /\ o.pageLoading = panel.pageLoading
        /\ o.busy = (panel.busy /\ "mutation" \notin q.owns)
        /\ o.requests[n] = Nothing
        /\ (\A m \in Request \ {n} : o.requests[m] = panel.requests[m])
        /\ View(o) /\ SameTarget(panel, o)
    BY OverPanel
  <2>7. ~OfKind(panel, n, Reloading) /\ ~PageAt(panel, n)
    BY <1>3 DEF OfKind, PageAt
  <2> HIDE DEF o, q
  <2>8. /\ panel' \in Panel /\ panel'.status = row /\ panel'.scope = o.scope
        /\ panel'.target = o.target /\ panel'.filters = o.filters
        /\ panel'.log = o.log /\ panel'.more = o.more /\ SameFlags(o, panel')
        /\ panel'.requests = o.requests
    BY <2>5, <2>6 DEF Panel, SameFlags
  <2>9. View(panel') /\ SameTarget(panel, panel')
    BY <2>5, <2>6, <2>8 DEF View, SameTarget
  <2>10. /\ panel'.log = panel.log /\ panel'.more = panel.more
         /\ panel'.loading = panel.loading /\ panel'.pending = panel.pending
         /\ panel'.historyLoading = panel.historyLoading
         /\ panel'.pageLoading = panel.pageLoading
    BY <2>6, <2>8 DEF SameData, SameFlags
  <2>11. panel'.busy = (panel.busy /\ "mutation" \notin panel.requests[n].owns)
    BY <2>6, <2>8 DEF SameFlags, q
  <2>12. panel'.requests[n] = Nothing /\ \A m \in Request \ {n} : panel'.requests[m] = panel.requests[m]
    BY <2>6, <2>8
  <2>13. panel.requests[n] # Nothing
    BY <1>1 DEF q
  <2>14. SoundPanel(panel') /\ Held(panel') /\ ReadEnds(panel, panel', n) /\ Paged(panel, panel')
    BY <1>2, <1>3, <2>4, <2>7, <2>8, <2>9, <2>10, <2>11, <2>12, <2>13, EndIsGood
  <2>15. Reader(panel, n)
    BY <1>1, <1>2, <1>6 DEF LastPoll, Reader, OfKind, q
  <2>16. panel'.status = Row(panel.requests[n]) /\ panel'.target = panel.target
    BY <2>8, <2>9 DEF SameTarget, row, q
  <2>17. Moves(panel, panel')
    BY <2>1, <2>2, <2>14, <2>15, <2>16 DEF Moves, q
  <2> QED BY <2>14, <2>17
<1> QED BY <1>4, <1>5, <1>6 DEF PollArrives

LEMMA LogAnswer ==
  ASSUME NEW q \in Call, Answered(q), "log" \in DOMAIN q.replies, q.replies["log"].code = "ok"
  PROVE  q.replies["log"].value \in BOOLEAN
BY DEF Answered, RightAnswer

LEMMA FilterArrivesStep ==
  ASSUME GitInv, NEW n \in Request, FilterArrives(n)
  PROVE  SoundPanel(panel') /\ Held(panel') /\ Moves(panel, panel') /\ Paged(panel, panel')
<1> DEFINE q == panel.requests[n]
           owns == "history" \in q.owns
           o == Over(panel, n)
           over == [o EXCEPT !.historyLoading = panel.historyLoading /\ ~owns]
           more == q.replies["log"].value
           log == <<Page(q)>>
           r == panel'
<1>1. q # Nothing /\ q.kind = "filter" /\ DOMAIN q.replies # {}
  BY DEF FilterArrives
<1>2. /\ q \in Call /\ Answered(q) /\ SoundPanel(panel) /\ Held(panel) /\ panel \in Panel
      /\ (\A g : g \in q.owns <=> Owns(panel, n, g))
  BY <1>1, InFlight DEF GitInv, SoundPanel, Base
<1>3. /\ o \in Panel /\ SameView(panel, o) /\ SameData(panel, o)
      /\ o.loading = panel.loading /\ o.pending = panel.pending
      /\ o.historyLoading = panel.historyLoading /\ o.pageLoading = panel.pageLoading
      /\ o.busy = (panel.busy /\ "mutation" \notin q.owns)
      /\ o.requests[n] = Nothing
      /\ (\A m \in Request \ {n} : o.requests[m] = panel.requests[m])
      /\ View(o) /\ SameTarget(panel, o)
  BY OverPanel
<1>4. \/ r = over
      \/ r = Recovered(q, n)
      \/ owns /\ Code(q, "log") = "ok" /\ r = [over EXCEPT !.log = log, !.more = more]
  <2>1. [o EXCEPT !.historyLoading = @ /\ ~owns] = over
    BY <1>3
  <2> QED BY <2>1 DEF FilterArrives
<1>5. /\ ~OfKind(panel, n, Reloading) /\ panel.requests[n] # Nothing /\ q.kind # "page"
      /\ ~PageAt(panel, n)
  BY <1>1 DEF OfKind, Reloading, PageAt
<1>6. owns <=> Owns(panel, n, "history")
  BY <1>2
<1> DEFINE loading == panel.historyLoading /\ ~owns
<1>7. loading \in BOOLEAN /\ (owns => ~loading) /\ (~owns => loading = panel.historyLoading)
  BY <1>2 DEF Panel
<1>8. over = [o EXCEPT !.historyLoading = loading]
  OBVIOUS
<1> HIDE DEF over, loading, o
<1>9. /\ over \in Panel /\ SameView(o, over) /\ SameData(o, over) /\ over.requests = o.requests
      /\ over.loading = o.loading /\ over.pending = o.pending /\ over.busy = o.busy
      /\ over.historyLoading = loading /\ over.pageLoading = o.pageLoading
  BY <1>3, <1>7, <1>8 DEF Panel, SameView, SameData
<1>10. /\ SameView(panel, over) /\ SameData(panel, over) /\ View(over) /\ SameTarget(panel, over)
       /\ over.loading = panel.loading /\ over.pending = panel.pending
       /\ over.pageLoading = panel.pageLoading
       /\ over.busy = (panel.busy /\ "mutation" \notin panel.requests[n].owns)
       /\ over.requests[n] = Nothing
       /\ (\A m \in Request \ {n} : over.requests[m] = panel.requests[m])
  BY <1>3, <1>9 DEF SameView, SameData, View, SameTarget
<1> HIDE DEF q, owns
<1>11. CASE r = over
  <2>1. over.status = panel.status /\ over.log = panel.log /\ over.more = panel.more
    BY <1>10 DEF SameData
  <2>2. SoundPanel(over) /\ Held(over) /\ ReadEnds(panel, over, n) /\ Paged(panel, over)
    BY <1>2, <1>5, <1>6, <1>7, <1>9, <1>10, <2>1, EndIsGood
  <2>3. Moves(panel, over)
    BY <1>10, <2>1, <2>2, DroppedMoves
  <2> QED BY <1>11, <2>2, <2>3
<1>12. CASE r = Recovered(q, n)
  BY <1>1, <1>12, RecoveryIsGood DEF q
<1>13. CASE owns /\ Code(q, "log") = "ok" /\ r = [over EXCEPT !.log = log, !.more = more]
  <2>1. more \in BOOLEAN
    <3>1. "log" \in DOMAIN q.replies
      BY <1>1, <1>2 DEF Answered, Reads
    <3>2. q.replies["log"].code = "ok"
      BY <1>13, CodeOfReply
    <3> QED BY <1>2, <3>1, <3>2, LogAnswer
  <2>2. log \in Seq(Part)
    BY <1>2, PageType
  <2> HIDE DEF log, more, r
  <2>3. /\ r \in Panel /\ r.log = log /\ SameView(over, r) /\ r.status = over.status
        /\ SameFlags(over, r) /\ r.requests = over.requests
    BY <1>9, <1>13, <2>1, <2>2 DEF Panel, SameView, SameFlags
  <2>4. SameTarget(panel, r)
    BY <1>10, <2>3 DEF SameTarget, SameView
  <2>5. LogOf(r)
    BY <1>5, <1>13, <2>3, <2>4, FirstPage DEF q, owns, log
  <2>6. View(r)
    BY <1>10, <2>3, <2>5 DEF View, LogOf, SameView
  <2>7. r.busy = (panel.busy /\ "mutation" \notin panel.requests[n].owns)
    BY <1>10, <2>3 DEF SameFlags
  <2>8. /\ r.requests[n] = Nothing /\ \A m \in Request \ {n} : r.requests[m] = panel.requests[m]
        /\ r.loading = panel.loading /\ r.pending = panel.pending /\ r.status = panel.status
        /\ ~r.historyLoading /\ r.pageLoading = panel.pageLoading
    BY <1>7, <1>9, <1>10, <1>13, <2>3 DEF SameFlags, SameData
  <2>9. SoundPanel(r) /\ Held(r) /\ ReadEnds(panel, r, n) /\ Paged(panel, r)
    BY <1>2, <1>5, <1>6, <1>13, <2>3, <2>4, <2>6, <2>7, <2>8, EndIsGood
  <2>10. Moves(panel, r)
    BY <2>4, <2>8, <2>9, DroppedMoves
  <2> QED BY <2>9, <2>10 DEF r
<1> QED BY <1>4, <1>11, <1>12, <1>13

LEMMA PageArrivesStep ==
  ASSUME GitInv, NEW n \in Request, PageArrives(n)
  PROVE  SoundPanel(panel') /\ Held(panel') /\ Moves(panel, panel') /\ Paged(panel, panel')
<1> DEFINE q == panel.requests[n]
           owns == Continues(q)
           o == Over(panel, n)
           loading == panel.pageLoading /\ ~owns
           over == [o EXCEPT !.pageLoading = loading]
           more == q.replies["log"].value
           log == Append(panel.log, Page(q))
           r == panel'
<1>1. q # Nothing /\ q.kind = "page" /\ DOMAIN q.replies # {}
  BY DEF PageArrives
<1>2. /\ q \in Call /\ Answered(q) /\ SoundPanel(panel) /\ Held(panel) /\ panel \in Panel
      /\ (\A g : g \in q.owns <=> Owns(panel, n, g))
      /\ (Current(q) <=> Owns(panel, n, "refresh"))
  BY <1>1, InFlight DEF GitInv, SoundPanel, Base
<1>3. /\ o \in Panel /\ SameView(panel, o) /\ SameData(panel, o)
      /\ o.loading = panel.loading /\ o.pending = panel.pending
      /\ o.historyLoading = panel.historyLoading /\ o.pageLoading = panel.pageLoading
      /\ o.busy = (panel.busy /\ "mutation" \notin q.owns)
      /\ o.requests[n] = Nothing
      /\ (\A m \in Request \ {n} : o.requests[m] = panel.requests[m])
      /\ View(o) /\ SameTarget(panel, o)
  BY OverPanel
<1>4. /\ loading \in BOOLEAN
      /\ owns => "history" \in q.owns
      /\ "history" \notin q.owns => loading = panel.pageLoading
      /\ loading => panel.pageLoading /\ ~PageAt(panel, n)
      /\ owns => ~loading
  BY <1>2 DEF Panel, Continues, PageAt
<1>5. \/ r = over
      \/ r = Recovered(q, n)
      \/ owns /\ Code(q, "log") = "ok" /\ r = [over EXCEPT !.log = log, !.more = more]
  <2>1. [o EXCEPT !.pageLoading = @ /\ ~owns] = over
    BY <1>3
  <2> HIDE DEF over
  <2>2. over.log = panel.log
    <3> HIDE DEF o, loading
    <3> QED BY <1>3, <1>4 DEF over, Panel, SameData
  <2>3. [over EXCEPT !.log = Append(@, Page(q)), !.more = q.replies["log"].value]
          = [over EXCEPT !.log = log, !.more = more]
    BY <2>2
  <2> HIDE DEF log, more, owns, r
  <2>4. \/ r = over
        \/ r = Recovered(q, n)
        \/ /\ owns /\ Code(q, "log") = "ok"
           /\ r = [over EXCEPT !.log = Append(@, Page(q)), !.more = q.replies["log"].value]
    BY <2>1 DEF PageArrives, owns, r
  <2> QED BY <2>3, <2>4
<1>6. ~OfKind(panel, n, Reloading) /\ panel.requests[n] # Nothing /\ OfKind(panel, n, {"page"})
  BY <1>1 DEF OfKind, Reloading
<1>7. "history" \in q.owns <=> Owns(panel, n, "history")
  BY <1>2
<1> HIDE DEF over, loading, o
<1>8. /\ over \in Panel /\ SameView(o, over) /\ SameData(o, over) /\ over.requests = o.requests
      /\ over.loading = o.loading /\ over.pending = o.pending /\ over.busy = o.busy
      /\ over.historyLoading = o.historyLoading /\ over.pageLoading = loading
  BY <1>3, <1>4 DEF Panel, SameView, SameData, over
<1>9. /\ SameView(panel, over) /\ SameData(panel, over) /\ View(over) /\ SameTarget(panel, over)
       /\ over.loading = panel.loading /\ over.pending = panel.pending
       /\ over.historyLoading = panel.historyLoading
       /\ over.busy = (panel.busy /\ "mutation" \notin panel.requests[n].owns)
       /\ over.requests[n] = Nothing
       /\ (\A m \in Request \ {n} : over.requests[m] = panel.requests[m])
  BY <1>3, <1>8 DEF SameView, SameData, View, SameTarget
<1> HIDE DEF q, owns
<1>10. CASE r = over
  <2>1. over.status = panel.status /\ over.log = panel.log /\ over.more = panel.more
    BY <1>9 DEF SameData
  <2>2. ~Owns(panel, n, "history") => over.pageLoading = panel.pageLoading
    BY <1>7, <1>8, <1>4
  <2>3. SoundPanel(over) /\ Held(over) /\ ReadEnds(panel, over, n) /\ Paged(panel, over)
    BY <1>2, <1>4, <1>6, <1>8, <1>9, <2>1, <2>2, EndIsGood
  <2>4. Moves(panel, over)
    BY <1>9, <2>1, <2>3, DroppedMoves
  <2> QED BY <1>10, <2>3, <2>4
<1>11. CASE r = Recovered(q, n)
  BY <1>1, <1>11, RecoveryIsGood DEF q
<1>12. CASE owns /\ Code(q, "log") = "ok" /\ r = [over EXCEPT !.log = log, !.more = more]
  <2>1. more \in BOOLEAN
    <3>1. "log" \in DOMAIN q.replies
      BY <1>1, <1>2 DEF Answered, Reads
    <3>2. q.replies["log"].code = "ok"
      BY <1>12, CodeOfReply
    <3> QED BY <1>2, <3>1, <3>2, LogAnswer
  <2>2. Owns(panel, n, "history") /\ "history" \in q.owns
    BY <1>7, <1>12, <1>4
  <2>3. log \in Seq(Part)
    <3>1. panel.log \in Seq(Part) /\ Page(q) \in Part
      BY <1>2, PageType DEF Panel
    <3> QED BY <3>1
  <2>4. log = Append(panel.log, Page(panel.requests[n]))
    BY DEF q
  <2> HIDE DEF log, more, r
  <2>5. /\ r \in Panel /\ r.log = log /\ SameView(over, r) /\ r.status = over.status
        /\ SameFlags(over, r) /\ r.requests = over.requests
    BY <1>8, <1>12, <2>1, <2>3 DEF Panel, SameView, SameFlags
  <2>6. SameTarget(panel, r)
    BY <1>9, <2>5 DEF SameTarget, SameView
  <2>7. LogOf(r)
    BY <1>1, <2>2, <2>5, <2>6, <2>4, NextPage DEF q
  <2>8. View(r)
    BY <1>9, <2>5, <2>7 DEF View, LogOf, SameView
  <2>9. r.busy = (panel.busy /\ "mutation" \notin panel.requests[n].owns)
    BY <1>9, <2>5 DEF SameFlags
  <2>10. /\ r.requests[n] = Nothing /\ \A m \in Request \ {n} : r.requests[m] = panel.requests[m]
        /\ r.loading = panel.loading /\ r.pending = panel.pending /\ r.status = panel.status
        /\ r.historyLoading = panel.historyLoading /\ ~r.pageLoading
    BY <1>4, <1>8, <1>9, <1>12, <2>5 DEF SameFlags, SameData
  <2>11. SoundPanel(r) /\ Held(r) /\ ReadEnds(panel, r, n) /\ Paged(panel, r)
    BY <1>2, <1>6, <2>2, <2>5, <2>6, <2>8, <2>9, <2>10, EndIsGood
  <2>12. Moves(panel, r)
    BY <2>6, <2>10, <2>11, DroppedMoves
  <2> QED BY <2>11, <2>12 DEF r
<1> QED BY <1>5, <1>10, <1>11, <1>12

LEMMA WriteArrivesStep ==
  ASSUME GitInv, NEW n \in Request, WriteArrives(n)
  PROVE  SoundPanel(panel') /\ Held(panel') /\ Moves(panel, panel') /\ Paged(panel, panel')
<1> DEFINE q == panel.requests[n]
           u == Raise(panel, {"refresh"})
           owner == Owner(q)
<1>1. q # Nothing /\ q.kind = "write"
  BY DEF WriteArrives
<1>2. /\ owner = OwnerAt(panel, n) /\ SoundPanel(panel) /\ Base(panel) /\ panel \in Panel
      /\ (Current(q) <=> Owns(panel, n, "refresh"))
      /\ (\A g : g \in q.owns <=> Owns(panel, n, g))
  BY <1>1, InFlight DEF GitInv, SoundPanel, Base
<1>3. ~Owns(panel, n, "history") /\ q.kind \notin Reloading
  BY <1>1, <1>2 DEF SoundPanel, Pages, OfKind, Reloading
<1>4. CASE panel' = Over(panel, n)
  BY <1>1, <1>3, <1>4, DropIsGood
<1>5. CASE panel' = RefreshInventory(panel, n, TRUE, owner)
  <2>1. TRUE \in BOOLEAN
    OBVIOUS
  <2> HIDE DEF owner
  <2>2. /\ SoundPanel(panel') /\ Held(panel') /\ panel'.status = Nothing /\ Unanswered(panel')
        /\ ~panel'.pageLoading
    BY <1>2, <1>5, <2>1, DiscoveryIsGood
  <2> QED BY <2>2 DEF Moves, Paged, PageHeld
<1>6. CASE Current(q) /\ panel' = Reloaded(q, n)
  <2>1. /\ u \in Panel /\ SameView(panel, u) /\ SameData(panel, u) /\ SameFlags(panel, u)
        /\ \A m \in Request : u.requests[m] = Less(panel.requests[m], {"refresh"})
    BY <1>2, RaiseFields
  <2>2. panel' = RefreshTarget(u, n, FALSE, owner)
    BY <1>6 DEF Reloaded
  <2>3. ~panel.pending /\ Owns(panel, n, "mutation")
    BY <1>1, <1>2, <1>6 DEF SoundPanel, Loads, OfKind
  <2>4. ~panel.loading
    BY <1>2, <2>3 DEF SoundPanel, Loads
  <2>5. "mutation" \in owner
    BY <1>2, <2>3 DEF Owner
  <2> HIDE DEF u, owner, q
  <2>6. u.busy = panel.busy /\ "mutation" \notin {"refresh"}
    BY <2>1 DEF SameFlags
  <2>7. /\ Base(u) /\ OwnerAt(u, n) = owner
        /\ \A m \in Request : ~Owns(u, m, "refresh")
    BY <1>2, <2>1, <2>6, RaiseKeepsBase
  <2>8. View(u)
    BY <1>2, <2>1 DEF SoundPanel, View, SameView, SameData
  <2>9. ~u.loading /\ FALSE \in BOOLEAN
    BY <2>1, <2>4 DEF SameFlags
  <2>10. /\ SoundPanel(panel') /\ Held(panel') /\ panel'.status = u.status /\ Unanswered(panel')
         /\ panel'.pageLoading = u.pageLoading
    BY <2>2, <2>5, <2>7, <2>8, <2>9, LoadIsGood
  <2>11. u.status = panel.status
    BY <2>1 DEF SameData
  <2>12. PageHeld(panel) => ~panel.pageLoading
    <3>1. panel.busy
      BY <1>2, <2>3 DEF Base, Writes
    <3>2. \A m \in Request : ~PageAt(panel, m)
      BY <1>2, <3>1 DEF SoundPanel, Pages, PageAt
    <3> QED BY <3>2 DEF PageHeld
  <2>13. panel'.pageLoading = panel.pageLoading
    BY <2>1, <2>10 DEF SameFlags
  <2>14. Paged(panel, panel')
    BY <2>12, <2>13 DEF Paged, PageHeld
  <2> QED BY <2>10, <2>11, <2>14 DEF Moves
<1> QED BY <1>4, <1>5, <1>6 DEF WriteArrives

\* What a load that published nothing, or published its answers, leaves.
LEMMA LoadOverIsGood ==
  ASSUME GitInv, NEW n \in Request, panel.requests[n] # Nothing,
         panel.requests[n].kind = "load", NEW p \in Panel,
         SameTarget(panel, p), SameFlags(panel, p), p.requests = panel.requests, View(p),
         Owns(panel, n, "refresh") \/ p.status = panel.status,
         Owns(panel, n, "history") \/ (p.log = panel.log /\ p.more = panel.more),
         panel' = LoadOver(p, panel.requests[n], n)
  PROVE  /\ SoundPanel(panel') /\ Held(panel') /\ ReadEnds(panel, panel', n) /\ Paged(panel, panel')
         /\ SameTarget(panel, panel') /\ panel'.status = p.status
<1> DEFINE q == panel.requests[n]
           l == p.loading /\ ~(q.whole /\ Current(q))
           pp == p.pending /\ ~Current(q)
           h == p.historyLoading /\ "history" \notin q.owns
           u == [p EXCEPT !.loading = l, !.pending = pp, !.historyLoading = h]
           r == Over(u, n)
<1>1. /\ (Current(q) <=> Owns(panel, n, "refresh")) /\ (\A g : g \in q.owns <=> Owns(panel, n, g))
      /\ SoundPanel(panel) /\ Held(panel)
  BY InFlight DEF GitInv
<1>2. panel' = r
  BY DEF LoadOver
<1>3. OfKind(panel, n, Reloading) /\ OfKind(panel, n, {"load"}) /\ ~PageAt(panel, n)
  BY DEF OfKind, Reloading, PageAt
<1>4. l \in BOOLEAN /\ pp \in BOOLEAN /\ h \in BOOLEAN
  OBVIOUS
<1>5. p.loading = panel.loading /\ p.pending = panel.pending /\ p.historyLoading = panel.historyLoading
  BY DEF SameFlags
<1>6. Owns(panel, n, "refresh") => ~l /\ ~pp
  BY <1>1, <1>3, <1>5 DEF SoundPanel, Loads
<1>7. ~Owns(panel, n, "refresh") => l = panel.loading /\ pp = panel.pending
  <2>1. panel.loading \in BOOLEAN /\ panel.pending \in BOOLEAN
    BY <1>1 DEF SoundPanel, Base, Panel
  <2> QED BY <1>1, <1>5, <2>1
<1>8. (Owns(panel, n, "history") => ~h) /\ (~Owns(panel, n, "history") => h = panel.historyLoading)
  <2>1. panel.historyLoading \in BOOLEAN
    BY <1>1 DEF SoundPanel, Base, Panel
  <2> QED BY <1>1, <1>5, <2>1
<1> HIDE DEF l, pp, h
<1>9. /\ u \in Panel /\ SameTarget(p, u) /\ u.status = p.status /\ u.log = p.log
      /\ u.more = p.more /\ u.loading = l /\ u.pending = pp /\ u.historyLoading = h
      /\ u.busy = p.busy /\ u.pageLoading = p.pageLoading /\ u.requests = p.requests
  BY <1>4 DEF Panel, SameTarget
<1> HIDE DEF u
<1>10. /\ r \in Panel /\ SameView(u, r) /\ SameData(u, r)
       /\ r.loading = u.loading /\ r.pending = u.pending
       /\ r.historyLoading = u.historyLoading /\ r.pageLoading = u.pageLoading
       /\ r.busy = (u.busy /\ "mutation" \notin u.requests[n].owns)
       /\ r.requests[n] = Nothing
       /\ \A m \in Request \ {n} : r.requests[m] = u.requests[m]
  BY <1>9, OverFields
<1> HIDE DEF r, q
<1>11. /\ SameTarget(panel, r) /\ r.status = p.status /\ r.log = p.log /\ r.more = p.more
       /\ r.loading = l /\ r.pending = pp /\ r.historyLoading = h
       /\ r.pageLoading = panel.pageLoading
  BY <1>9, <1>10 DEF SameTarget, SameView, SameData, SameFlags
<1>12. View(r)
  BY <1>9, <1>10 DEF View, SameTarget, SameView, SameData
<1>13. /\ r.busy = (panel.busy /\ "mutation" \notin panel.requests[n].owns)
       /\ r.requests[n] = Nothing
       /\ \A m \in Request \ {n} : r.requests[m] = panel.requests[m]
  BY <1>9, <1>10 DEF SameFlags
<1>14. \/ Owns(panel, n, "refresh") /\ OfKind(panel, n, Reloading) /\ ~r.loading /\ ~r.pending
       \/ /\ ~(Owns(panel, n, "refresh") /\ OfKind(panel, n, Reloading))
          /\ r.loading = panel.loading /\ r.pending = panel.pending
          /\ r.status = panel.status \/ ~panel.pending
  BY <1>3, <1>6, <1>7, <1>11
<1>15. \/ /\ Owns(panel, n, "history")
          /\ r.historyLoading => panel.historyLoading /\ OfKind(panel, n, {"page"})
       \/ /\ ~Owns(panel, n, "history")
          /\ r.log = panel.log /\ r.more = panel.more
          /\ r.historyLoading = panel.historyLoading /\ r.pageLoading = panel.pageLoading
  BY <1>8, <1>11
<1>16. r \in Panel
  BY <1>10
<1>17. SoundPanel(r) /\ Held(r) /\ ReadEnds(panel, r, n) /\ Paged(panel, r)
  BY <1>1, <1>3, <1>11, <1>12, <1>13, <1>14, <1>15, <1>16, EndIsGood
<1> QED BY <1>2, <1>11, <1>17

\* The answers a load puts on screen.
LEMMA PublishedFields ==
  ASSUME GitInv, NEW n \in Request, panel.requests[n] # Nothing,
         panel.requests[n].kind = "load", Owns(panel, n, "refresh"),
         "status" \in DOMAIN panel.requests[n].replies,
         "log" \in DOMAIN panel.requests[n].replies,
         panel.requests[n].replies["status"].code = "ok",
         NEW r, r = Published(panel.requests[n])
  PROVE  /\ r \in Panel /\ SameTarget(panel, r) /\ SameFlags(panel, r) /\ View(r)
         /\ r.requests = panel.requests /\ r.status = Row(panel.requests[n])
         /\ Owns(panel, n, "history") \/ (r.log = panel.log /\ r.more = panel.more)
<1> DEFINE q == panel.requests[n]
           row == Row(q)
           shown == [panel EXCEPT !.status = row, !.tried = Nothing]
           first == <<Page(q)>>
           log == IF q.replies["log"].code = "ok" THEN first ELSE <<>>
           more == q.replies["log"].code = "ok" /\ q.replies["log"].value
<1>1. /\ q \in Call /\ Answered(q) /\ q.scope = panel.scope /\ q.repo = panel.target
      /\ (\A g : g \in q.owns <=> Owns(panel, n, g))
      /\ panel \in Panel /\ View(panel)
  BY InFlight DEF GitInv, SoundPanel, Base
<1>2. row \in ShownView /\ row.scope = panel.scope /\ row.repo = panel.target
  BY <1>1, RowType
<1>3. more \in BOOLEAN /\ log \in Seq(Part)
  <2>1. first \in Seq(Part)
    BY <1>1, PageType
  <2> HIDE DEF first
  <2> QED BY <2>1, EmptySeq
<1>4. r = IF "history" \notin q.owns THEN shown ELSE [shown EXCEPT !.log = log, !.more = more]
  BY DEF Published
<1>5. "history" \in q.owns => \A z : z.log = first /\ SameTarget(panel, z) => LogOf(z)
  BY FirstPage
<1> HIDE DEF row, log, more, q
<1>6. /\ shown \in Panel /\ SameTarget(panel, shown) /\ SameFlags(panel, shown)
      /\ shown.log = panel.log /\ shown.more = panel.more /\ shown.status = row
      /\ shown.requests = panel.requests
  BY <1>1, <1>2 DEF Panel, SameTarget, SameFlags
<1> HIDE DEF shown
<1>7. CASE "history" \notin q.owns
  <2>1. r = shown
    BY <1>4, <1>7
  <2>2. View(r)
    BY <1>1, <1>2, <1>6, <2>1 DEF View, SameTarget
  <2> QED BY <1>6, <2>1, <2>2 DEF row, q
<1>8. CASE "history" \in q.owns
  <2>1. r = [shown EXCEPT !.log = log, !.more = more]
    BY <1>4, <1>8
  <2>2. /\ r \in Panel /\ SameTarget(shown, r) /\ SameFlags(shown, r)
        /\ r.log = log /\ r.status = row /\ r.requests = shown.requests
    BY <1>3, <1>6, <2>1 DEF Panel, SameTarget, SameFlags
  <2>3. SameTarget(panel, r) /\ SameFlags(panel, r)
    BY <1>6, <2>2 DEF SameTarget, SameFlags
  <2>4. LogOf(r)
    <3>1. CASE log = first
      BY <1>5, <1>8, <2>2, <2>3, <3>1
    <3>2. CASE log = <<>>
      BY <2>2, <3>2 DEF LogOf
    <3> QED BY <3>1, <3>2 DEF log
  <2>5. View(r)
    BY <1>2, <2>2, <2>3, <2>4 DEF View, LogOf, SameTarget
  <2>6. Owns(panel, n, "history")
    BY <1>1, <1>8
  <2> QED BY <1>6, <2>2, <2>3, <2>5, <2>6 DEF row, q
<1> QED BY <1>7, <1>8

LEMMA LoadArrivesStep ==
  ASSUME GitInv, NEW n \in Request, LoadArrives(n)
  PROVE  SoundPanel(panel') /\ Held(panel') /\ Moves(panel, panel') /\ Paged(panel, panel')
<1> DEFINE q == panel.requests[n]
           r == Published(q)
<1>1. q # Nothing /\ q.kind = "load"
  BY DEF LoadArrives
<1>2. /\ (Current(q) <=> Owns(panel, n, "refresh")) /\ SoundPanel(panel) /\ panel \in Panel
      /\ View(panel)
  BY <1>1, InFlight DEF GitInv, SoundPanel, Base
<1>3. CASE panel' = LoadOver(panel, q, n)
  <2>1. SameTarget(panel, panel) /\ SameFlags(panel, panel)
    BY DEF SameTarget, SameFlags
  <2>2. /\ SoundPanel(panel') /\ Held(panel') /\ ReadEnds(panel, panel', n) /\ Paged(panel, panel')
        /\ SameTarget(panel, panel') /\ panel'.status = panel.status
    BY <1>1, <1>2, <1>3, <2>1, LoadOverIsGood
  <2> QED BY <2>2, DroppedMoves
<1>4. CASE panel' = Recovered(q, n)
  BY <1>1, <1>4, RecoveryIsGood
<1>5. CASE /\ DOMAIN q.replies = Reads("load") /\ \A read \in Reads("load") : ~Rejects(q, read)
           /\ Current(q) /\ panel' = LoadOver(r, q, n)
  <2>1. "status" \in DOMAIN q.replies /\ "log" \in DOMAIN q.replies
    BY <1>5 DEF Reads
  <2>2. q.replies["status"].code = "ok"
    <3>1. Code(q, "status") = "ok"
      BY <1>5, <2>1 DEF Reads, Rejects
    <3> QED BY <3>1, CodeOfReply
  <2> HIDE DEF r
  <2>3. /\ r \in Panel /\ SameTarget(panel, r) /\ SameFlags(panel, r) /\ View(r)
        /\ r.requests = panel.requests /\ r.status = Row(q)
        /\ Owns(panel, n, "history") \/ (r.log = panel.log /\ r.more = panel.more)
    BY <1>1, <1>2, <1>5, <2>1, <2>2, PublishedFields DEF r
  <2>4. /\ SoundPanel(panel') /\ Held(panel') /\ ReadEnds(panel, panel', n) /\ Paged(panel, panel')
        /\ SameTarget(panel, panel') /\ panel'.status = Row(q)
    BY <1>1, <1>2, <1>5, <2>3, LoadOverIsGood
  <2>5. Reader(panel, n)
    BY <1>1, <1>2, <1>5 DEF Reader, OfKind
  <2>6. Moves(panel, panel')
    BY <2>1, <2>2, <2>4, <2>5 DEF Moves, SameTarget
  <2> QED BY <2>4, <2>6
<1> QED BY <1>3, <1>4, <1>5 DEF LoadArrives

---------------------------------------------------------------------------
(* Every step                                                              *)

LEMMA HostStep ==
  ASSUME GitInv, NEW n \in Request,
         \/ HostDiscovers(n) \/ HostWrites(n)
         \/ \E read \in {"status", "log", "write"} : HostReads(n, read)
  PROVE  SoundPanel(panel') /\ Held(panel') /\ Paged(panel, panel')
<1>1. SoundPanel(panel) /\ Held(panel)
  BY DEF GitInv
<1>2. panel.requests[n] # Nothing
  BY DEF HostDiscovers, HostReads, HostWrites, Waits
<1>3. \E read, a : Replies(panel, panel', n, read, a)
  BY HostDiscoversStep, HostReadsStep, HostWritesStep
<1> QED BY <1>1, <1>2, <1>3, ReplyIsGood

LEMMA HostedStep ==
  ASSUME GitInv, GitNext
  PROVE  Hosted'
<1> USE DEF Hosted
<1>1. Hosted /\ panel.scope \in Scope /\ panel.inventory \in SUBSET Repo
  BY DEF GitInv, SoundPanel, Base, Panel
<1>2. Inventory(FALSE) \in SUBSET Repo
  BY <1>1, InventoryKnown
<1>3. ASSUME Input PROVE inputs' \in 0..MaxInputs
  BY <1>1, <1>3, GitAssumption DEF Input
<1>4. ASSUME NEW r \in Repo, work[r] < MaxVersion
      PROVE  [work EXCEPT ![r] = @ + 1] \in [Repo -> 0..MaxVersion]
  BY <1>1, <1>4, GitAssumption
<1>5. ASSUME NEW n \in Request, HostDiscovers(n) PROVE Hosted'
  <2>1. panel.requests[n] \in Call
    BY <1>5, SlotType DEF HostDiscovers, Waits, GitInv, SoundPanel, Base
  <2>2. Inventory(panel.requests[n].whole) \in SUBSET Repo
    BY <1>1, <2>1, InventoryKnown DEF Call
  <2> QED BY <1>1, <1>5, <2>2 DEF HostDiscovers
<1>6. ASSUME NEW n \in Request, NEW read \in {"status", "log", "write"}, HostReads(n, read)
      PROVE  Hosted'
  BY <1>1, <1>2, <1>6 DEF HostReads
<1>7. ASSUME NEW n \in Request, HostWrites(n) PROVE Hosted'
  <2>1. work' \in [Repo -> 0..MaxVersion]
    BY <1>1, <1>4, <1>7 DEF HostWrites
  <2> QED BY <1>1, <1>2, <1>7, <2>1 DEF HostWrites
<1>8. ASSUME NEW n \in Request, InventoryArrives(n) PROVE Hosted'
  <2>1. UNCHANGED <<ready, known, work, inputs>>
    BY <1>8 DEF InventoryArrives
  <2>2. CASE UNCHANGED kept
    BY <1>1, <2>1, <2>2
  <2>3. CASE \E target \in Repo : kept' = [kept EXCEPT ![panel.scope] = target]
    BY <1>1, <2>1, <2>3
  <2>4. UNCHANGED kept \/ \E target \in Repo : kept' = [kept EXCEPT ![panel.scope] = target]
    <3> DEFINE q == panel.requests[n]
               v == q.replies["inventory"].value
               target == Selection(v, IF panel.target # Nothing THEN panel.target
                                                                ELSE kept[panel.scope])
    <3>1. \/ UNCHANGED kept
          \/ /\ q.replies["inventory"].code = "ok" /\ target # Nothing
             /\ q # Nothing /\ q.kind = "inventory" /\ DOMAIN q.replies # {}
             /\ kept' = [kept EXCEPT ![panel.scope] = target]
      BY <1>8 DEF InventoryArrives
    <3>2. CASE /\ q.replies["inventory"].code = "ok" /\ target # Nothing
               /\ q # Nothing /\ q.kind = "inventory" /\ DOMAIN q.replies # {}
               /\ kept' = [kept EXCEPT ![panel.scope] = target]
      <4>1. v \in SUBSET Repo
        BY <3>2, DiscoveryReply
      <4>2. target \in Repo
        BY <3>2, <4>1, SelectionType
      <4> HIDE DEF target
      <4> QED BY <3>2, <4>2
    <3> QED BY <3>1, <3>2
  <2> QED BY <2>2, <2>3, <2>4
<1>9. ASSUME NEW n \in Request,
             \/ LoadArrives(n) \/ PollArrives(n) \/ FilterArrives(n)
             \/ PageArrives(n) \/ WriteArrives(n)
      PROVE  Hosted'
  BY <1>1, <1>9 DEF LoadArrives, PollArrives, FilterArrives, PageArrives, WriteArrives
<1>10. ASSUME NEW n \in Request, NEW r \in Repo, SelectRepository(r, n) PROVE Hosted'
  BY <1>1, <1>3, <1>10 DEF SelectRepository
<1>11. ASSUME NEW n \in Request,
              \/ \E f \in Query : ChangeFilters(f, n)
              \/ \E s \in Scope : Rescope(s, n)
              \/ ManualRefresh(n) \/ PollTimer(n) \/ LoadMore(n) \/ RunAction(n)
       PROVE  Hosted'
  <2>1. Input /\ UNCHANGED <<kept, ready, known, work>>
    BY <1>11 DEF ChangeFilters, Rescope, ManualRefresh, PollTimer, LoadMore, RunAction
  <2> QED BY <1>1, <1>3, <2>1
<1>12. ASSUME NEW r \in Repo, DiskChanges(r) PROVE Hosted'
  <2>1. Input /\ UNCHANGED <<kept, known>>
    BY <1>12 DEF DiskChanges
  <2>2. ready' \in SUBSET Repo /\ work' \in [Repo -> 0..MaxVersion]
    BY <1>1, <1>4, <1>12 DEF DiskChanges
  <2> QED BY <1>1, <1>3, <2>1, <2>2
<1>13. ASSUME CacheExpires PROVE Hosted'
  BY <1>1, <1>3, <1>13 DEF CacheExpires
<1> HIDE DEF Hosted
<1> QED BY <1>5, <1>6, <1>7, <1>8, <1>9, <1>10, <1>11, <1>12, <1>13 DEF GitNext

\* The steps of the panel, as opposed to those of the host and the disk.
PanelActs(n) ==
  \/ InventoryArrives(n) \/ LoadArrives(n) \/ PollArrives(n)
  \/ FilterArrives(n) \/ PageArrives(n) \/ WriteArrives(n)
  \/ \E r \in Repo : SelectRepository(r, n)
  \/ \E f \in Query : ChangeFilters(f, n)
  \/ \E s \in Scope : Rescope(s, n)
  \/ ManualRefresh(n) \/ PollTimer(n) \/ LoadMore(n) \/ RunAction(n)

LEMMA PanelStep ==
  ASSUME GitInv, NEW n \in Request, PanelActs(n)
  PROVE  /\ SoundPanel(panel') /\ Held(panel') /\ Moves(panel, panel') /\ UNCHANGED work
         /\ Paged(panel, panel') \/ Overtaken
<1>1. CASE \/ InventoryArrives(n) \/ LoadArrives(n) \/ PollArrives(n)
           \/ FilterArrives(n) \/ PageArrives(n) \/ WriteArrives(n)
  <2>1. SoundPanel(panel') /\ Held(panel') /\ Moves(panel, panel') /\ Paged(panel, panel')
    BY <1>1, InventoryArrivesStep, LoadArrivesStep, PollArrivesStep, FilterArrivesStep,
       PageArrivesStep, WriteArrivesStep
  <2>2. UNCHANGED work
    BY <1>1 DEF InventoryArrives, LoadArrives, PollArrives, FilterArrives, PageArrives,
       WriteArrives
  <2> QED BY <2>1, <2>2
<1>2. CASE \/ \E r \in Repo : SelectRepository(r, n)
           \/ \E f \in Query : ChangeFilters(f, n)
           \/ \E s \in Scope : Rescope(s, n)
           \/ ManualRefresh(n) \/ PollTimer(n) \/ LoadMore(n) \/ RunAction(n)
  <2>1. /\ SoundPanel(panel') /\ Held(panel') /\ Moves(panel, panel')
        /\ Paged(panel, panel') \/ Overtaken
    BY <1>2, SelectRepositoryStep, ChangeFiltersStep, RescopeStep, ManualRefreshStep,
       PollTimerStep, LoadMoreStep, RunActionStep DEF Overtaken
  <2>2. UNCHANGED work
    BY <1>2 DEF SelectRepository, ChangeFilters, Rescope, ManualRefresh, PollTimer, LoadMore,
       RunAction
  <2> QED BY <2>1, <2>2
<1> QED BY <1>1, <1>2 DEF PanelActs

LEMMA NextIs ==
  ASSUME GitNext
  PROVE  \/ \E n \in Request : HostDiscovers(n)
         \/ \E n \in Request : HostWrites(n)
         \/ \E n \in Request, read \in {"status", "log", "write"} : HostReads(n, read)
         \/ \E n \in Request : PanelActs(n)
         \/ \E r \in Repo : DiskChanges(r)
         \/ CacheExpires
BY DEF GitNext, PanelActs

LEMMA GitInvHolds == GitSpec => []GitInv
<1>1. GitInit => GitInv
  BY InitGood
<1>2. GitInv /\ [GitNext]_gitVars => GitInv'
  <2>1. ASSUME GitInv, GitNext PROVE GitInv'
    <3>1. SoundPanel(panel') /\ Held(panel')
      <4>1. CASE UNCHANGED panel
        BY <2>1, <4>1 DEF GitInv
      <4>2. (\E r \in Repo : DiskChanges(r)) \/ CacheExpires => UNCHANGED panel
        BY DEF DiskChanges, CacheExpires
      <4> QED BY <2>1, <4>1, <4>2, NextIs, HostStep, PanelStep
    <3>2. Hosted'
      BY <2>1, HostedStep
    <3> QED BY <3>1, <3>2 DEF GitInv
  <2>2. ASSUME GitInv, UNCHANGED gitVars PROVE GitInv'
    <3>1. UNCHANGED panel /\ SoundPanel(panel) /\ Held(panel)
      BY <2>2 DEF GitInv, gitVars
    <3>2. SoundPanel(panel') /\ Held(panel')
      BY <3>1
    <3>3. Hosted'
      BY <2>2 DEF GitInv, Hosted, gitVars
    <3> QED BY <3>2, <3>3 DEF GitInv
  <2> QED BY <2>1, <2>2
<1> QED BY <1>1, <1>2, PTL DEF GitSpec

\* The panel and what the host keeps are of the kinds the code gives them.
THEOREM GitTypes == GitSpec => []GitTypeOK
<1>1. GitInv => GitTypeOK
  <2> SUFFICES ASSUME GitInv PROVE GitTypeOK
    OBVIOUS
  <2>1. panel \in Panel /\ Hosted
    BY DEF GitInv, SoundPanel, Base
  <2>2. /\ panel.scope \in Scope /\ panel.target \in Repo \cup {Nothing} /\ panel.filters \in Query
        /\ panel.inventory \subseteq Repo /\ panel.tried \in Repo \cup {Nothing}
    BY <2>1 DEF Panel
  <2>3. \A n \in Request : panel.requests[n] # Nothing => panel.requests[n].owns \subseteq Generation
    BY <2>1, SlotType DEF Call
  <2> QED BY <2>1, <2>2, <2>3 DEF GitTypeOK, Hosted
<1> QED BY <1>1, GitInvHolds, PTL

\* "Status, branch choices and history are one consistency unit": whatever is
\* shown is of the session, the repository and the filters on screen, and the
\* history has no page twice and no gap, whatever is in flight.
THEOREM OneCheckout == GitSpec => []ViewIsOneCheckout
<1>1. GitInv => ViewIsOneCheckout
  BY DEF GitInv, SoundPanel, View, ViewIsOneCheckout
<1> QED BY <1>1, GitInvHolds, PTL

\* A step begins to wait for a page that is not coming only when it is a change of
\* the filters or a write.
LEMMA PageStep ==
  ASSUME GitInv, GitNext
  PROVE  Paged(panel, panel') \/ Overtaken
<1>1. CASE UNCHANGED panel
  BY <1>1 DEF Paged
<1>2. (\E r \in Repo : DiskChanges(r)) \/ CacheExpires => UNCHANGED panel
  BY DEF DiskChanges, CacheExpires
<1> QED BY <1>1, <1>2, NextIs, HostStep, PanelStep

\* The panel never loads, blocks its buttons or suspends its polls for ever: those
\* flags are up only while a request in flight will take them down.  Only a change
\* of the filters or a write leaves "load more" waiting for a page that is not coming.
THEOREM NobodyWaits == GitSpec => NothingWaitsAlone
<1>1. GitInv => FlagsAwaited
  BY DEF GitInv, SoundPanel, Base, BusyHeld, Held, HistoryHeld, ReloadHeld, FlagsAwaited,
         Awaited, Owns, OfKind, Reloading
<1>2. PageAwaited <=> PageHeld(panel)
  BY DEF PageAwaited, PageHeld, PageAt, Owns, OfKind
<1>3. GitInv' => FlagsAwaited'
  BY <1>1, PTL
<1>4. PageAwaited' <=> PageHeld(panel')
  BY DEF PageAwaited, PageHeld, PageAt, Owns, OfKind
<1>5. GitInv /\ GitInv' /\ [GitNext]_gitVars
        => [ /\ FlagsAwaited /\ FlagsAwaited'
             /\ PageAwaited => PageAwaited' \/ Overtaken ]_gitVars
  BY <1>1, <1>2, <1>3, <1>4, PageStep DEF Paged
<1> QED BY <1>5, GitInvHolds, PTL DEF GitSpec, NothingWaitsAlone

---------------------------------------------------------------------------
(* The status on screen is the newest that was read                        *)

\* An answer with a status that request n of the panel has got.
Told(p, n) == /\ Reader(p, n) /\ "status" \in DOMAIN p.requests[n].replies
              /\ p.requests[n].replies["status"].code = "ok"
Tells(p, n) == p.requests[n].replies["status"].value

VersionOf(r, w) == IF r = Nothing THEN 0 ELSE w[r]

\* What is on screen is no newer than the checkout, one request reads the status
\* at most, and what it has been told is no older than what is on screen.
Newest(p, w) ==
  /\ p.status # Nothing => p.status.version <= VersionOf(p.status.repo, w)
  /\ \A m, n \in Request : Reader(p, m) /\ Reader(p, n) => m = n
  /\ \A n \in Request : Told(p, n) =>
       /\ p.target \in Repo /\ Tells(p, n) <= w[p.target]
       /\ p.status # Nothing => p.status.version <= Tells(p, n)

\* r shows nothing older of the checkout than p.
NotOlder(p, r) ==
  /\ p.status # Nothing /\ r.status # Nothing
  /\ p.status.scope = r.status.scope /\ p.status.repo = r.status.repo
  => p.status.version <= r.status.version

LEMMA StatusType ==
  ASSUME NEW p \in Panel, p.status # Nothing
  PROVE  p.status.version \in Nat /\ p.status.repo \in Repo \cup {Nothing}
BY GitAssumption DEF Panel, ShownView

LEMMA SameStatusNotOlder ==
  ASSUME NEW p \in Panel, NEW r, r.status \in {p.status, Nothing}
  PROVE  NotOlder(p, r)
BY StatusType DEF NotOlder

LEMMA ToldType ==
  ASSUME NEW p, SoundPanel(p), NEW n \in Request, Told(p, n)
  PROVE  Tells(p, n) \in 0..MaxVersion
<1>1. p.requests[n] # Nothing
  BY DEF Told, Reader, Owns
<1>2. Answered(p.requests[n])
  BY <1>1 DEF SoundPanel, Base, Answers
<1> QED BY <1>2 DEF Told, Tells, Answered, RightAnswer

LEMMA MovesKeepNewest ==
  ASSUME NEW p, SoundPanel(p), NEW w \in [Repo -> 0..MaxVersion], Newest(p, w), NEW r \in Panel,
         Moves(p, r)
  PROVE  Newest(r, w) /\ NotOlder(p, r)
<1>1. p \in Panel
  BY DEF SoundPanel, Base
<1>2. CASE r.status \in {p.status, Nothing} /\ Unanswered(r)
  <2>1. NotOlder(p, r)
    BY <1>1, <1>2, SameStatusNotOlder
  <2>2. \A n \in Request : ~Told(r, n)
    BY <1>2 DEF Told, Unanswered
  <2>3. \A m, n \in Request : Reader(r, m) /\ Reader(r, n) => m = n
    BY <1>2 DEF Unanswered
  <2>4. r.status # Nothing => r.status.version <= VersionOf(r.status.repo, w)
    BY <1>2 DEF Newest
  <2> QED BY <2>1, <2>2, <2>3, <2>4 DEF Newest
<1>3. CASE r.status \in {p.status, Nothing} /\ r.target = p.target /\ Continued(p, r)
  <2>1. NotOlder(p, r)
    BY <1>1, <1>3, SameStatusNotOlder
  <2>2. \A n \in Request : Told(r, n) => Told(p, n) /\ Tells(r, n) = Tells(p, n)
    BY <1>3 DEF Told, Tells, Continued
  <2>3. \A m, n \in Request : Reader(r, m) /\ Reader(r, n) => m = n
    BY <1>3 DEF Newest, Continued
  <2>4. r.status # Nothing => r.status.version <= VersionOf(r.status.repo, w)
    BY <1>3 DEF Newest
  <2>5. ASSUME NEW n \in Request, Told(r, n)
        PROVE  /\ r.target \in Repo /\ Tells(r, n) <= w[r.target]
               /\ r.status # Nothing => r.status.version <= Tells(r, n)
    BY <1>3, <2>2, <2>5 DEF Newest
  <2> QED BY <2>1, <2>3, <2>4, <2>5 DEF Newest
<1>4. CASE /\ \A m \in Request : ~Reader(r, m)
           /\ r.status.repo = Nothing /\ r.status.version = 0
  <2>1. \A n \in Request : ~Told(r, n)
    BY <1>4 DEF Told
  <2>2. r.status # Nothing => r.status.version <= VersionOf(r.status.repo, w)
    BY <1>4 DEF VersionOf
  <2>3. NotOlder(p, r)
    BY <1>4 DEF NotOlder, Newest, VersionOf
  <2> QED BY <1>4, <2>1, <2>2, <2>3 DEF Newest
<1>5. CASE \E n \in Request :
             /\ Reader(p, n) /\ "status" \in DOMAIN p.requests[n].replies
             /\ p.requests[n].replies["status"].code = "ok"
             /\ r.status = Row(p.requests[n]) /\ r.target = p.target /\ ReadEnds(p, r, n)
  <2>1. PICK n \in Request : /\ Told(p, n) /\ Reader(p, n)
                             /\ r.status = Row(p.requests[n]) /\ ReadEnds(p, r, n)
    BY <1>5 DEF Told
  <2>2. Owns(p, n, "refresh")
    BY <2>1 DEF Reader
  <2>3. p.requests[n].repo = p.target
    BY <2>2 DEF SoundPanel, Aimed
  <2>4. r.status.repo = p.target /\ r.status.version = Tells(p, n)
    BY <2>1, <2>3 DEF Row, Tells
  <2>5. /\ p.target \in Repo /\ Tells(p, n) <= w[p.target]
        /\ p.status # Nothing => p.status.version <= Tells(p, n)
    BY <2>1 DEF Newest
  <2>6. p.target # Nothing
    BY <2>5, GitAssumption
  <2>7. r.status # Nothing => r.status.version <= VersionOf(r.status.repo, w)
    BY <2>4, <2>5, <2>6 DEF VersionOf
  <2>8. \A m \in Request : ~Reader(r, m)
    BY <2>1 DEF ReadEnds, Newest
  <2>9. \A m \in Request : ~Told(r, m)
    BY <2>8 DEF Told
  <2>10. NotOlder(p, r)
    BY <2>4, <2>5 DEF NotOlder
  <2> QED BY <2>7, <2>8, <2>9, <2>10 DEF Newest
<1> QED BY <1>2, <1>3, <1>4, <1>5 DEF Moves

\* A checkout only gets newer.
LEMMA WorkKeepsNewest ==
  ASSUME NEW p, SoundPanel(p), NEW w \in [Repo -> 0..MaxVersion], Newest(p, w),
         NEW x \in [Repo -> 0..MaxVersion], \A r \in Repo : w[r] <= x[r]
  PROVE  Newest(p, x)
<1>1. p \in Panel
  BY DEF SoundPanel, Base
<1>2. p.status # Nothing => p.status.version <= VersionOf(p.status.repo, x)
  <2> SUFFICES ASSUME p.status # Nothing PROVE p.status.version <= VersionOf(p.status.repo, x)
    OBVIOUS
  <2>1. p.status.version \in Nat /\ p.status.repo \in Repo \cup {Nothing}
    BY <1>1, StatusType
  <2>2. p.status.version <= VersionOf(p.status.repo, w)
    BY DEF Newest
  <2>3. CASE p.status.repo = Nothing
    BY <2>2, <2>3 DEF VersionOf
  <2>4. CASE p.status.repo \in Repo /\ p.status.repo # Nothing
    <3>1. /\ w[p.status.repo] \in Nat /\ x[p.status.repo] \in Nat
          /\ w[p.status.repo] <= x[p.status.repo]
      BY <2>4, GitAssumption
    <3>2. p.status.version <= w[p.status.repo] /\ VersionOf(p.status.repo, x) = x[p.status.repo]
      BY <2>2, <2>4 DEF VersionOf
    <3> QED BY <2>1, <3>1, <3>2
  <2> QED BY <2>1, <2>3, <2>4
<1>3. ASSUME NEW n \in Request, Told(p, n)
      PROVE  p.target \in Repo /\ Tells(p, n) <= x[p.target]
  <2>1. Tells(p, n) \in Nat
    BY <1>3, ToldType, GitAssumption
  <2>2. p.target \in Repo /\ Tells(p, n) <= w[p.target]
    BY <1>3 DEF Newest
  <2>3. w[p.target] \in Nat /\ x[p.target] \in Nat /\ w[p.target] <= x[p.target]
    BY <2>2, GitAssumption
  <2> QED BY <2>1, <2>2, <2>3
<1> QED BY <1>2, <1>3 DEF Newest

\* An answer of the host is of the checkout as it is.
LEMMA ReplyKeepsNewest ==
  ASSUME NEW p, SoundPanel(p), NEW w \in [Repo -> 0..MaxVersion], Newest(p, w), NEW n \in Request,
         p.requests[n] # Nothing, NEW read, NEW a, NEW r, Replies(p, r, n, read, a),
         read = "status" /\ a.code = "ok"
           => p.requests[n].repo \in Repo /\ a.value = w[p.requests[n].repo]
  PROVE  Newest(r, w)
<1> DEFINE c == p.requests[n]
<1>1. r.status = p.status /\ r.target = p.target /\ p \in Panel
  BY DEF Replies, SameView, SameData, SoundPanel, Base
<1>2. \A m \in Request \ {n} : r.requests[m] = p.requests[m]
  BY DEF Replies
<1>3. \A m \in Request : Reader(r, m) <=> Reader(p, m)
  BY DEF Replies, Reader, Owns, OfKind
<1>4. ASSUME NEW m \in Request, Told(r, m), Told(p, m), Tells(r, m) = Tells(p, m)
      PROVE  /\ r.target \in Repo /\ Tells(r, m) <= w[r.target]
             /\ r.status # Nothing => r.status.version <= Tells(r, m)
  BY <1>1, <1>4 DEF Newest
<1>5. ASSUME NEW m \in Request, Told(r, m)
      PROVE  /\ r.target \in Repo /\ Tells(r, m) <= w[r.target]
             /\ r.status # Nothing => r.status.version <= Tells(r, m)
  <2>1. CASE m # n
    <3>1. Told(p, m) /\ Tells(r, m) = Tells(p, m)
      BY <1>2, <1>3, <1>5, <2>1 DEF Told, Tells
    <3> QED BY <1>4, <1>5, <3>1
  <2>2. CASE m = n /\ read # "status"
    <3>1. r.requests[n].replies = Extended(c, read, a) /\ "status" \in DOMAIN r.requests[n].replies
      BY <1>5, <2>2 DEF Replies, Told
    <3>2. "status" \in DOMAIN c.replies /\ r.requests[n].replies["status"] = c.replies["status"]
      BY <2>2, <3>1 DEF Extended
    <3>3. Told(p, n) /\ Tells(r, n) = Tells(p, n)
      BY <1>3, <1>5, <2>2, <3>2 DEF Told, Tells
    <3> QED BY <1>4, <1>5, <2>2, <3>3
  <2>3. CASE m = n /\ read = "status"
    <3>1. r.requests[n].replies = Extended(c, read, a)
      BY DEF Replies
    <3>2. r.requests[n].replies["status"] = a
      BY <2>3, <3>1 DEF Extended
    <3>3. a.code = "ok" /\ Tells(r, n) = a.value
      BY <1>5, <2>3, <3>2 DEF Told, Tells
    <3>4. Owns(p, n, "refresh")
      BY <1>3, <1>5, <2>3 DEF Told, Reader
    <3>5. c.repo = p.target
      BY <3>4 DEF SoundPanel, Aimed
    <3>6. p.target \in Repo /\ a.value = w[p.target]
      BY <2>3, <3>3, <3>5
    <3>7. w[p.target] \in Nat /\ p.target # Nothing
      BY <3>6, GitAssumption
    <3>8. ASSUME p.status # Nothing PROVE p.status.version <= w[p.target]
      <4>1. p.status.repo = p.target
        BY <3>8 DEF SoundPanel, View
      <4>2. p.status.version <= VersionOf(p.status.repo, w)
        BY <3>8 DEF Newest
      <4> QED BY <3>7, <4>1, <4>2 DEF VersionOf
    <3> QED BY <1>1, <2>3, <3>3, <3>6, <3>7, <3>8
  <2> QED BY <2>1, <2>2, <2>3
<1>6. r.status # Nothing => r.status.version <= VersionOf(r.status.repo, w)
  BY <1>1 DEF Newest
<1>7. \A l, m \in Request : Reader(r, l) /\ Reader(r, m) => l = m
  BY <1>3 DEF Newest
<1> QED BY <1>5, <1>6, <1>7 DEF Newest

FreshInv == GitInv /\ Newest(panel, work)

LEMMA FreshStep ==
  ASSUME FreshInv, GitNext
  PROVE  Newest(panel', work') /\ NotOlder(panel, panel')
<1>1. /\ GitInv /\ SoundPanel(panel) /\ panel \in Panel /\ Newest(panel, work)
      /\ work \in [Repo -> 0..MaxVersion] /\ Hosted
  BY DEF FreshInv, GitInv, SoundPanel, Base, Hosted
<1>2. work' \in [Repo -> 0..MaxVersion]
  BY <1>1, HostedStep DEF Hosted
<1>3. ASSUME NEW n \in Request, NEW read, NEW a, Replies(panel, panel', n, read, a)
      PROVE  NotOlder(panel, panel')
  <2>1. panel'.status = panel.status
    BY <1>3 DEF Replies, SameData
  <2> QED BY <1>1, <2>1, SameStatusNotOlder
<1>4. ASSUME NEW n \in Request, HostDiscovers(n)
      PROVE  Newest(panel', work') /\ NotOlder(panel, panel')
  <2>1. PICK a : Replies(panel, panel', n, "inventory", a)
    BY <1>1, <1>4, HostDiscoversStep
  <2>2. panel.requests[n] # Nothing /\ work' = work
    BY <1>4 DEF HostDiscovers, Waits
  <2> QED BY <1>1, <1>3, <2>1, <2>2, ReplyKeepsNewest
<1>5. ASSUME NEW n \in Request, NEW read \in {"status", "log", "write"}, HostReads(n, read)
      PROVE  Newest(panel', work') /\ NotOlder(panel, panel')
  <2>1. PICK a \in GitAnswers(panel.requests[n], read) : Replies(panel, panel', n, read, a)
    BY <1>1, <1>5, HostReadsStep
  <2>2. panel.requests[n] # Nothing /\ work' = work
    BY <1>5 DEF HostReads, Waits
  <2>3. panel.requests[n] \in Call
    BY <1>1, <2>2, SlotType
  <2>4. a.code = "ok" /\ read = "status"
          => panel.requests[n].repo \in Repo /\ a.value = work[panel.requests[n].repo]
    BY <1>1, <2>1, <2>3, AnswersAreRight
  <2> QED BY <1>1, <1>3, <2>1, <2>2, <2>4, ReplyKeepsNewest
<1>6. ASSUME NEW r \in Repo, work' = [work EXCEPT ![r] = @ + 1], NEW p, SoundPanel(p), Newest(p, work)
      PROVE  Newest(p, work')
  <2>1. \A s \in Repo : work[s] <= work'[s]
    BY <1>1, <1>2, <1>6, GitAssumption
  <2> QED BY <1>1, <1>2, <1>6, <2>1, WorkKeepsNewest
<1>7. ASSUME NEW n \in Request, HostWrites(n)
      PROVE  Newest(panel', work') /\ NotOlder(panel, panel')
  <2>1. PICK a : Replies(panel, panel', n, "write", a)
    BY <1>1, <1>7, HostWritesStep
  <2>2. panel.requests[n] # Nothing
    BY <1>7 DEF HostWrites, Waits
  <2>3. Newest(panel', work)
    BY <1>1, <2>1, <2>2, ReplyKeepsNewest
  <2>4. SoundPanel(panel')
    BY <1>1, <1>7, HostStep
  <2>5. \E r \in Repo : work' = [work EXCEPT ![r] = @ + 1]
    BY <1>1 , <1>7 DEF HostWrites, Hosted
  <2> QED BY <1>3, <1>6, <2>1, <2>3, <2>4, <2>5
<1>8. ASSUME NEW n \in Request, PanelActs(n)
      PROVE  Newest(panel', work') /\ NotOlder(panel, panel')
  <2>1. SoundPanel(panel') /\ Moves(panel, panel') /\ work' = work
    BY <1>1, <1>8, PanelStep
  <2>2. panel' \in Panel
    BY <2>1 DEF SoundPanel, Base
  <2> QED BY <1>1, <2>1, <2>2, MovesKeepNewest
<1>9. ASSUME UNCHANGED panel PROVE NotOlder(panel, panel')
  BY <1>1, <1>9, SameStatusNotOlder
<1>10. ASSUME NEW r \in Repo, DiskChanges(r)
       PROVE  Newest(panel', work') /\ NotOlder(panel, panel')
  <2>1. UNCHANGED panel /\ (UNCHANGED work \/ work' = [work EXCEPT ![r] = @ + 1])
    BY <1>10 DEF DiskChanges
  <2>2. Newest(panel, work')
    BY <1>1, <1>6, <2>1
  <2> QED BY <1>9, <2>1, <2>2
<1>11. ASSUME CacheExpires
       PROVE  Newest(panel', work') /\ NotOlder(panel, panel')
  <2>1. UNCHANGED panel /\ UNCHANGED work
    BY <1>11 DEF CacheExpires
  <2> QED BY <1>1, <1>9, <2>1
<1> QED BY <1>4, <1>5, <1>7, <1>8, <1>10, <1>11, NextIs

\* The status of a checkout on screen is never replaced by one read before it,
\* in whatever order the answers of the host arrive.
THEOREM StatusFresh == GitSpec => StatusNeverOlder
<1>1. GitInit => Newest(panel, work)
  <2> SUFFICES ASSUME GitInit PROVE Newest(panel, work)
    OBVIOUS
  <2>1. panel.status = Nothing /\ Unanswered(panel)
    BY InitGood
  <2>2. \A n \in Request : ~Told(panel, n)
    BY <2>1 DEF Unanswered, Told
  <2> QED BY <2>1, <2>2 DEF Newest, Unanswered
<1>2. FreshInv /\ [GitNext]_gitVars
        => Newest(panel, work)' /\ [NotOlder(panel, panel')]_panel
  <2>1. ASSUME FreshInv, GitNext PROVE Newest(panel, work)' /\ [NotOlder(panel, panel')]_panel
    BY <2>1, FreshStep
  <2>2. ASSUME FreshInv, UNCHANGED gitVars
        PROVE  Newest(panel, work)' /\ [NotOlder(panel, panel')]_panel
    BY <2>2 DEF FreshInv, gitVars
  <2> QED BY <2>1, <2>2
<1>3. [NotOlder(panel, panel')]_panel
        => [ /\ panel.status # Nothing /\ panel'.status # Nothing
             /\ panel.status.scope = panel'.status.scope /\ panel.status.repo = panel'.status.repo
             => panel.status.version <= panel'.status.version ]_panel
  BY DEF NotOlder
<1> QED BY <1>1, <1>2, <1>3, GitInvHolds, PTL DEF GitSpec, FreshInv, StatusNeverOlder
=============================================================================
