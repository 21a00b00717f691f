----------------------------- MODULE CatalogProofs -----------------------------
(*****************************************************************************)
(* Proofs about GenerationLease and CatalogGeneration.                       *)
(*                                                                           *)
(* The lease, for any operations, catalogs and orders: a writer is alone in  *)
(* its catalog, a close that has resolved has waited for everybody, and      *)
(* nobody overtakes.  Exclusion is not inductive: it follows from the        *)
(* bookkeeping of the lease, the entry of a key holding exactly the          *)
(* operations admitted to it or waiting for it, each of them once.           *)
(*                                                                           *)
(* The catalog, for any number of refreshes, saves, consumers and versions,  *)
(* and any faults: the lease keeps its promises when the publication, the    *)
(* consumers and a restart drive it, a consumer is served from one           *)
(* generation that is new enough, saved templates survive, and the three     *)
(* directories implement one atomic catalog.                                 *)
(*****************************************************************************)
EXTENDS CatalogGeneration, SequenceTheorems, TLAPS

--------------------------------------------------------------------------------
(* The lease on its own.                                                     *)

Statuses == {"idle", "waiting", "admitted", "settled", "refused"}

\* The entry e of key k is in order, the operations being as far as st says.
Members(k, e) ==
  /\ \A op \in e.readers : op \notin Writer /\ KeyOf[op] = k
  /\ e.writer # None => e.writer \in Writer /\ KeyOf[e.writer] = k /\ e.readers = {}
Queue(k, e) ==
  /\ \A i \in 1 .. Len(e.waiters) : KeyOf[e.waiters[i]] = k
  /\ \A i, j \in 1 .. Len(e.waiters) : e.waiters[i] = e.waiters[j] => i = j
Accounts(k, e, st) ==
  \A op \in Op : KeyOf[op] = k =>
    /\ st[op] = "admitted" <=> op \in e.readers \/ op = e.writer
    /\ st[op] = "waiting" <=> \E i \in 1 .. Len(e.waiters) : e.waiters[i] = op
Tidy(k, e, st) == Members(k, e) /\ Queue(k, e) /\ Accounts(k, e, st)

\* The inductive invariant.
LeaseInv ==
  /\ LeaseTypeOK
  /\ \A k \in Key : Tidy(k, entry[k], status)
  /\ \A k \in Key : k \in present <=> entry[k] # IdleEntry
  /\ closed = "resolved" => present = {}

\* drain() keeps the books of its key in order, changes no other operation, and
\* leaves the entry idle only if it found it so.
LEMMA DrainKeepsOrder ==
  ASSUME NEW k \in Key, NEW e \in Entry, NEW st \in [Op -> Statuses],
         Tidy(k, e, st), entry \in [Key -> Entry], Drain(k, e, st)
  PROVE  /\ status' \in [Op -> Statuses] /\ entry' \in [Key -> Entry]
         /\ Tidy(k, entry'[k], status')
         /\ \A op \in Op : KeyOf[op] # k => status'[op] = st[op]
         /\ \A l \in Key : l # k => entry'[l] = entry[l]
         /\ entry'[k] = IdleEntry <=> e = IdleEntry
<1> DEFINE w == e.waiters
<1> PICK n \in {m \in 0 .. Len(w) : Admits(e, m)} :
      LET in == {w[i] : i \in 1 .. n} IN
      /\ entry' = [entry EXCEPT ![k] =
           [readers |-> e.readers \cup (in \ Writer),
            writer  |-> IF in \cap Writer = {} THEN e.writer ELSE w[1],
            waiters |-> SubSeq(w, n + 1, Len(w))]]
      /\ status' = [op \in Op |-> IF op \in in THEN "admitted" ELSE st[op]]
  BY DEF Drain
<1> DEFINE in == {w[i] : i \in 1 .. n}
           rest == SubSeq(w, n + 1, Len(w))
           f == [readers |-> e.readers \cup (in \ Writer),
                 writer  |-> IF in \cap Writer = {} THEN e.writer ELSE w[1],
                 waiters |-> rest]
<1>1. /\ w \in Seq(Op) /\ Len(w) \in Nat /\ n \in 0 .. Len(w) /\ Admits(e, n)
      /\ e.readers \subseteq Op /\ e.writer \in Op \cup {None}
      /\ \A i \in 1 .. Len(w) : w[i] \in Op
  BY DEF Entry
<1>2. /\ entry' = [entry EXCEPT ![k] = f]
      /\ status' = [op \in Op |-> IF op \in in THEN "admitted" ELSE st[op]]
  OBVIOUS
<1>3. /\ rest \in Seq(Op) /\ Len(rest) = Len(w) - n
      /\ \A i \in 1 .. Len(rest) : rest[i] = w[n + i] /\ n + i \in 1 .. Len(w)
  <2> HIDE DEF w
  <2>1. \A i \in n + 1 .. Len(w) : w[i] \in Op BY <1>1
  <2>2. n + 1 \in Int /\ Len(w) \in Int BY <1>1
  <2>3. /\ rest \in Seq(Op)
        /\ Len(rest) = IF n + 1 <= Len(w) THEN Len(w) - (n + 1) + 1 ELSE 0
        /\ \A i \in 1 .. Len(w) - (n + 1) + 1 : rest[i] = w[n + 1 + i - 1]
    BY <2>1, <2>2, SubSeqProperties
  <2>4. Len(rest) = Len(w) - n BY <2>3, <1>1
  <2>5. ASSUME NEW i \in 1 .. Len(rest)
        PROVE  rest[i] = w[n + i] /\ n + i \in 1 .. Len(w)
    <3>1. i \in 1 .. Len(w) - (n + 1) + 1 /\ n + 1 + i - 1 = n + i /\ n + i \in 1 .. Len(w)
      BY <2>4, <1>1
    <3> QED BY <3>1, <2>3
  <2> QED BY <2>3, <2>4, <2>5
<1>4. in \subseteq Op /\ \A op \in in : KeyOf[op] = k
  <2> SUFFICES ASSUME NEW op \in in PROVE op \in Op /\ KeyOf[op] = k OBVIOUS
  <2>1. PICK i \in 1 .. n : op = w[i] OBVIOUS
  <2>2. i \in 1 .. Len(w) BY <1>1
  <2> QED BY <2>1, <2>2, <1>1 DEF Tidy, Queue
<1>5. \/ n = 0
      \/ n = 1 /\ e.writer = None /\ e.readers = {} /\ w # <<>> /\ w[1] \in Writer
      \/ n > 0 /\ e.writer = None /\ in \cap Writer = {}
  BY <1>1 DEF Admits
<1>6. f \in Entry /\ entry'[k] = f
  BY <1>1, <1>2, <1>3, <1>4 DEF Entry
<1>7. Members(k, f)
  <2> USE LeaseAssumption DEF Members
  <2>0. Members(k, e) BY DEF Tidy
  <2>1. CASE n = 0
    <3>1. in = {} BY <2>1
    <3> QED BY <3>1, <2>0
  <2>2. CASE n = 1 /\ e.writer = None /\ e.readers = {} /\ w # <<>> /\ w[1] \in Writer
    <3>1. in = {w[1]} BY <2>2
    <3>2. f.writer = w[1] /\ f.readers = {} BY <3>1, <2>2
    <3>3. KeyOf[w[1]] = k BY <3>1, <1>4
    <3> HIDE DEF f
    <3> QED BY <3>2, <3>3, <2>2
  <2>3. CASE n > 0 /\ e.writer = None /\ in \cap Writer = {}
    BY <2>3, <2>0, <1>4
  <2> QED BY <1>5, <2>1, <2>2, <2>3
<1>8. Queue(k, f)
  <2>1. /\ \A i \in 1 .. Len(w) : KeyOf[w[i]] = k
        /\ \A i, j \in 1 .. Len(w) : w[i] = w[j] => i = j
    BY DEF Tidy, Queue
  <2>2. f.waiters = rest OBVIOUS
  <2> HIDE DEF w, rest, f
  <2>3. \A i \in 1 .. Len(rest) : KeyOf[rest[i]] = k BY <1>3, <2>1
  <2>4. ASSUME NEW i \in 1 .. Len(rest), NEW j \in 1 .. Len(rest), rest[i] = rest[j]
        PROVE  i = j
    <3>1. w[n + i] = w[n + j] /\ n + i \in 1 .. Len(w) /\ n + j \in 1 .. Len(w)
      BY <1>3, <2>4
    <3>2. n + i = n + j BY <3>1, <2>1
    <3> QED BY <3>2, <1>1
  <2> QED BY <2>2, <2>3, <2>4 DEF Queue
<1>9. Accounts(k, f, status')
  <2> SUFFICES ASSUME NEW op \in Op, KeyOf[op] = k
               PROVE  /\ status'[op] = "admitted" <=> op \in f.readers \/ op = f.writer
                      /\ status'[op] = "waiting"
                           <=> \E i \in 1 .. Len(f.waiters) : f.waiters[i] = op
    BY DEF Accounts
  <2>1. /\ st[op] = "admitted" <=> op \in e.readers \/ op = e.writer
        /\ st[op] = "waiting" <=> \E i \in 1 .. Len(w) : w[i] = op
    BY DEF Tidy, Accounts
  <2>2. CASE op \in in
    <3>1. status'[op] = "admitted" BY <1>2, <2>2
    <3>2. op \in f.readers \/ op = f.writer
      <4>1. CASE op \notin Writer BY <4>1, <2>2
      <4>2. CASE op \in Writer
        <5>1. n = 1 BY <1>5, <4>2, <2>2
        <5>2. op = w[1] BY <5>1, <2>2
        <5> QED BY <5>2, <4>2, <2>2
      <4> QED BY <4>1, <4>2
    <3>3. ASSUME NEW i \in 1 .. Len(rest), rest[i] = op PROVE FALSE
      <4>1. PICK j \in 1 .. n : w[j] = op BY <2>2
      <4>2. \A a, b \in 1 .. Len(w) : w[a] = w[b] => a = b BY DEF Tidy, Queue
      <4> HIDE DEF w, rest
      <4>3. rest[i] = w[n + i] /\ n + i \in 1 .. Len(w) BY <1>3, <3>3
      <4>4. j \in 1 .. Len(w) BY <1>1
      <4>5. n + i = j BY <4>1, <4>2, <4>3, <4>4, <3>3
      <4> QED BY <4>5, <1>1, <1>3
    <3> QED BY <3>1, <3>2, <3>3
  <2>3. CASE op \notin in
    <3>1. status'[op] = st[op] BY <1>2, <2>3
    <3>2. op \in f.readers \/ op = f.writer <=> op \in e.readers \/ op = e.writer
      <4>1. CASE in \cap Writer = {} BY <4>1, <2>3
      <4>2. CASE in \cap Writer # {}
        <5>1. n = 1 /\ e.writer = None /\ w[1] \in in BY <1>5, <4>2
        <5> QED BY <5>1, <4>2, <2>3, LeaseAssumption
      <4> QED BY <4>1, <4>2
    <3>3. (\E i \in 1 .. Len(rest) : rest[i] = op) <=> \E i \in 1 .. Len(w) : w[i] = op
      <4>1. ASSUME NEW i \in 1 .. Len(w), w[i] = op
            PROVE  \E j \in 1 .. Len(rest) : rest[j] = op
        <5>1. i > n BY <4>1, <2>3, <1>1
        <5>2. i - n \in 1 .. Len(rest) /\ n + (i - n) = i BY <5>1, <1>1, <1>3
        <5>3. rest[i - n] = w[i] BY <5>2, <1>3
        <5> QED BY <5>2, <5>3, <4>1
      <4> QED BY <4>1, <1>3
    <3> QED BY <3>1, <3>2, <3>3, <2>1
  <2> QED BY <2>2, <2>3
<1>10. f = IdleEntry <=> e = IdleEntry
  <2>1. CASE e = IdleEntry
    <3>1. n = 0 /\ in = {} /\ Len(w) = 0 BY <2>1, <1>1 DEF IdleEntry
    <3>2. rest = <<>> BY <3>1, <1>3
    <3> QED BY <3>1, <3>2, <2>1 DEF IdleEntry
  <2>2. CASE e # IdleEntry
    <3>1. SUFFICES ASSUME f.readers = {}, f.writer = None, f.waiters = <<>> PROVE FALSE
      BY <2>2 DEF IdleEntry
    <3>2. n = Len(w) BY <3>1, <1>1, <1>3
    <3>3. in = {}
      <4> SUFFICES ASSUME NEW op \in in PROVE FALSE OBVIOUS
      <4>1. op \in Writer BY <3>1
      <4>2. f.writer = w[1] /\ w[1] \in in BY <4>1, <1>5
      <4> QED BY <4>2, <3>1, <1>4, LeaseAssumption
    <3>4. n = 0
      <4> SUFFICES ASSUME n # 0 PROVE FALSE OBVIOUS
      <4>1. 1 \in 1 .. n BY <1>1
      <4>2. w[1] \in in BY <4>1, Zenon
      <4> QED BY <4>2, <3>3, Zenon
    <3>5. e.readers = {} /\ e.writer = None BY <3>1, <3>3
    <3>6. w = <<>>
      <4> HIDE DEF w
      <4> QED BY <3>2, <3>4, <1>1, EmptySeq
    <3> QED BY <3>5, <3>6, <2>2 DEF IdleEntry, Entry
  <2> QED BY <2>1, <2>2
<1>11. status' \in [Op -> Statuses] BY <1>2 DEF Statuses
<1>12. /\ entry' \in [Key -> Entry]
       /\ \A l \in Key : l # k => entry'[l] = entry[l]
  BY <1>2, <1>6
<1>13. \A op \in Op : KeyOf[op] # k => status'[op] = st[op] BY <1>2, <1>4
<1> HIDE DEF f
<1> QED BY <1>6, <1>7, <1>8, <1>9, <1>10, <1>11, <1>12, <1>13 DEF Tidy

--------------------------------------------------------------------------------
(* The lease keeps its books: LeaseInv is inductive.                         *)

\* A lease nobody has asked anything of is in order.
LEMMA LeaseInvInit == LeaseInit => LeaseInv
<1> SUFFICES ASSUME LeaseInit PROVE LeaseInv OBVIOUS
<1> USE LeaseAssumption DEF LeaseInit
<1>1. IdleEntry \in Entry /\ Len(IdleEntry.waiters) = 0 BY DEF IdleEntry, Entry
<1>2. LeaseTypeOK BY <1>1 DEF LeaseTypeOK
<1>3. \A k \in Key : Tidy(k, IdleEntry, status)
  BY <1>1 DEF Tidy, Members, Queue, Accounts, IdleEntry
<1> QED BY <1>2, <1>3 DEF LeaseInv

\* An operation of another key has no part in the entry of this one.
LEMMA TidyElsewhere ==
  ASSUME NEW k \in Key, NEW e, NEW st, NEW sti, Tidy(k, e, st),
         \A op \in Op : KeyOf[op] = k => sti[op] = st[op]
  PROVE  Tidy(k, e, sti)
BY DEF Tidy, Accounts

\* Whoever comes joins the queue of its key in order.
LEMMA AcquireKeepsLeaseInv ==
  ASSUME LeaseInv, NEW op \in Op, Acquire(op) PROVE LeaseInv'
<1> DEFINE k == KeyOf[op]
           e == [entry[k] EXCEPT !.waiters = Append(@, op)]
           st == [status EXCEPT ![op] = "waiting"]
<1>1. k \in Key /\ entry[k] \in Entry /\ Tidy(k, entry[k], status) /\ status[op] = "idle"
      /\ closed = "open" /\ closed' = closed /\ present' = present \cup {k}
      /\ Drain(k, e, st) /\ entry \in [Key -> Entry] /\ status \in [Op -> Statuses]
  BY LeaseAssumption DEF Acquire, LeaseInv, LeaseTypeOK, closing, Statuses
<1>2. /\ e \in Entry /\ st \in [Op -> Statuses]
      /\ e.readers = entry[k].readers /\ e.writer = entry[k].writer
      /\ e.waiters = Append(entry[k].waiters, op) /\ entry[k].waiters \in Seq(Op)
  <2>1. st \in [Op -> Statuses] BY <1>1 DEF Statuses
  <2>2. entry[k].waiters \in Seq(Op) BY <1>1 DEF Entry
  <2>3. Append(entry[k].waiters, op) \in Seq(Op) BY <2>2
  <2> QED BY <1>1, <2>1, <2>2, <2>3 DEF Entry
<1>3. /\ Len(e.waiters) = Len(entry[k].waiters) + 1 /\ Len(entry[k].waiters) \in Nat
      /\ \A i \in 1 .. Len(entry[k].waiters) : e.waiters[i] = entry[k].waiters[i]
      /\ e.waiters[Len(entry[k].waiters) + 1] = op
  <2> DEFINE w == entry[k].waiters
  <2>1. w \in Seq(Op) /\ e.waiters = Append(w, op) BY <1>2
  <2> HIDE DEF w, e
  <2>2. /\ Len(e.waiters) = Len(w) + 1 /\ Len(w) \in Nat
        /\ \A i \in 1 .. Len(w) : e.waiters[i] = w[i]
        /\ e.waiters[Len(w) + 1] = op
    BY <2>1
  <2> QED BY <2>2 DEF w
<1>4. \A i \in 1 .. Len(entry[k].waiters) :
        entry[k].waiters[i] \in Op /\ entry[k].waiters[i] # op
  BY <1>1, <1>2 DEF Tidy, Accounts
<1>5. Members(k, e) BY <1>1, <1>2 DEF Tidy, Members
<1>6. Queue(k, e)
  <2> DEFINE w == entry[k].waiters
  <2>1. /\ \A i \in 1 .. Len(w) : KeyOf[w[i]] = k
        /\ \A i, j \in 1 .. Len(w) : w[i] = w[j] => i = j
    BY <1>1 DEF Tidy, Queue
  <2>2. KeyOf[op] = k OBVIOUS
  <2>3. /\ Len(e.waiters) = Len(w) + 1 /\ Len(w) \in Nat
        /\ \A i \in 1 .. Len(w) : e.waiters[i] = w[i]
        /\ e.waiters[Len(w) + 1] = op
        /\ \A i \in 1 .. Len(w) : w[i] # op
    BY <1>3, <1>4
  <2> HIDE DEF w, e, k
  <2>4. \A i \in 1 .. Len(e.waiters) : i \in 1 .. Len(w) \/ i = Len(w) + 1 BY <2>3
  <2>5. \A i \in 1 .. Len(e.waiters) : KeyOf[e.waiters[i]] = k BY <2>1, <2>2, <2>3, <2>4
  <2>6. \A i, j \in 1 .. Len(e.waiters) : e.waiters[i] = e.waiters[j] => i = j
    BY <2>1, <2>3, <2>4
  <2> QED BY <2>5, <2>6 DEF Queue
<1>7. Accounts(k, e, st)
  <2> SUFFICES ASSUME NEW o \in Op, KeyOf[o] = k
               PROVE  /\ st[o] = "admitted" <=> o \in e.readers \/ o = e.writer
                      /\ st[o] = "waiting" <=> \E i \in 1 .. Len(e.waiters) : e.waiters[i] = o
    BY DEF Accounts
  <2>1. /\ status[o] = "admitted" <=> o \in entry[k].readers \/ o = entry[k].writer
        /\ status[o] = "waiting"
             <=> \E i \in 1 .. Len(entry[k].waiters) : entry[k].waiters[i] = o
    BY <1>1 DEF Tidy, Accounts
  <2>2. CASE o = op
    <3>1. st[o] = "waiting" BY <2>2, <1>1
    <3>2. \E i \in 1 .. Len(e.waiters) : e.waiters[i] = o BY <2>2, <1>3
    <3> QED BY <3>1, <3>2, <2>1, <2>2, <1>1, <1>2
  <2>3. CASE o # op
    <3>1. st[o] = status[o] BY <2>3, <1>1
    <3>2. (\E i \in 1 .. Len(e.waiters) : e.waiters[i] = o)
            <=> \E i \in 1 .. Len(entry[k].waiters) : entry[k].waiters[i] = o
      BY <2>3, <1>3
    <3> QED BY <3>1, <3>2, <2>1, <1>2
  <2> QED BY <2>2, <2>3
<1>8. e # IdleEntry
  <2> SUFFICES ASSUME e = IdleEntry PROVE FALSE OBVIOUS
  <2>1. Len(e.waiters) = 0 BY DEF IdleEntry
  <2> QED BY <2>1, <1>3
<1> HIDE DEF e, st
<1>9. /\ status' \in [Op -> Statuses] /\ entry' \in [Key -> Entry]
      /\ Tidy(k, entry'[k], status') /\ entry'[k] # IdleEntry
      /\ \A o \in Op : KeyOf[o] # k => status'[o] = st[o]
      /\ \A l \in Key : l # k => entry'[l] = entry[l]
  BY <1>1, <1>2, <1>5, <1>6, <1>7, <1>8, DrainKeepsOrder DEF Tidy
<1>10. \A o \in Op : KeyOf[o] # k => status'[o] = status[o]
  BY <1>9, <1>1 DEF st
<1>11. \A l \in Key : Tidy(l, entry'[l], status')
  <2> SUFFICES ASSUME NEW l \in Key PROVE Tidy(l, entry'[l], status') OBVIOUS
  <2>1. CASE l = k BY <2>1, <1>9
  <2>2. CASE l # k
    <3>1. Tidy(l, entry[l], status) BY DEF LeaseInv
    <3>2. Tidy(l, entry[l], status') BY <3>1, <2>2, <1>10, TidyElsewhere
    <3> QED BY <3>2, <2>2, <1>9
  <2> QED BY <2>1, <2>2
<1>12. \A l \in Key : l \in present' <=> entry'[l] # IdleEntry
  BY <1>1, <1>9 DEF LeaseInv
<1>13. LeaseTypeOK'
  BY <1>1, <1>9 DEF LeaseInv, LeaseTypeOK, Statuses
<1> QED BY <1>1, <1>11, <1>12, <1>13 DEF LeaseInv

\* Whoever leaves hands over in order, and retires the entry it leaves idle.
LEMMA ReleaseKeepsLeaseInv ==
  ASSUME LeaseInv, NEW op \in Op, Release(op) PROVE LeaseInv'
<1> DEFINE k == KeyOf[op]
           e == [entry[k] EXCEPT !.readers = @ \ {op}, !.writer = IF @ = op THEN None ELSE @]
           st == [status EXCEPT ![op] = "settled"]
<1>1. /\ k \in Key /\ entry[k] \in Entry /\ Tidy(k, entry[k], status)
      /\ status[op] = "admitted" /\ closed \in {"open", "pending", "resolved"}
      /\ Drain(k, e, st) /\ entry \in [Key -> Entry] /\ status \in [Op -> Statuses]
      /\ present' = IF e = IdleEntry THEN present \ {k} ELSE present
      /\ closed' = IF closed = "pending" /\ present' = {} THEN "resolved" ELSE closed
  BY LeaseAssumption DEF Release, LeaseInv, LeaseTypeOK, Statuses
<1>2. /\ e \in Entry /\ st \in [Op -> Statuses] /\ e.readers = entry[k].readers \ {op}
      /\ e.writer = (IF entry[k].writer = op THEN None ELSE entry[k].writer)
      /\ e.waiters = entry[k].waiters
  BY <1>1 DEF Entry, Statuses
<1>3. op \in entry[k].readers \/ op = entry[k].writer BY <1>1 DEF Tidy, Accounts
<1>4. Members(k, e) BY <1>1, <1>2 DEF Tidy, Members
<1>5. Queue(k, e) BY <1>1, <1>2 DEF Tidy, Queue
<1>6. Accounts(k, e, st)
  <2> SUFFICES ASSUME NEW o \in Op, KeyOf[o] = k
               PROVE  /\ st[o] = "admitted" <=> o \in e.readers \/ o = e.writer
                      /\ st[o] = "waiting" <=> \E i \in 1 .. Len(e.waiters) : e.waiters[i] = o
    BY DEF Accounts
  <2>1. /\ status[o] = "admitted" <=> o \in entry[k].readers \/ o = entry[k].writer
        /\ status[o] = "waiting" <=> \E i \in 1 .. Len(e.waiters) : e.waiters[i] = o
    BY <1>1, <1>2 DEF Tidy, Accounts
  <2>2. CASE o = op
    <3>1. st[o] = "settled" /\ status[o] = "admitted" BY <2>2, <1>1
    <3>2. o \notin e.readers /\ o # e.writer BY <2>2, <1>2, LeaseAssumption
    <3> QED BY <3>1, <3>2, <2>1
  <2>3. CASE o # op
    <3>1. st[o] = status[o] BY <2>3, <1>1
    <3>2. o \in e.readers \/ o = e.writer <=> o \in entry[k].readers \/ o = entry[k].writer
      BY <2>3, <1>2, LeaseAssumption
    <3> QED BY <3>1, <3>2, <2>1
  <2> QED BY <2>2, <2>3
<1>7. entry[k] # IdleEntry /\ k \in present /\ closed # "resolved"
  BY <1>1, <1>3, LeaseAssumption DEF IdleEntry, LeaseInv
<1> HIDE DEF e, st
<1>8. /\ status' \in [Op -> Statuses] /\ entry' \in [Key -> Entry]
      /\ Tidy(k, entry'[k], status')
      /\ entry'[k] = IdleEntry <=> e = IdleEntry
      /\ \A o \in Op : KeyOf[o] # k => status'[o] = st[o]
      /\ \A l \in Key : l # k => entry'[l] = entry[l]
  BY <1>1, <1>2, <1>4, <1>5, <1>6, DrainKeepsOrder DEF Tidy
<1>9. \A o \in Op : KeyOf[o] # k => status'[o] = status[o]
  BY <1>8, <1>1 DEF st
<1>10. \A l \in Key : Tidy(l, entry'[l], status')
  <2> SUFFICES ASSUME NEW l \in Key PROVE Tidy(l, entry'[l], status') OBVIOUS
  <2>1. CASE l = k BY <2>1, <1>8
  <2>2. CASE l # k
    <3>1. Tidy(l, entry[l], status) BY DEF LeaseInv
    <3>2. Tidy(l, entry[l], status') BY <3>1, <2>2, <1>9, TidyElsewhere
    <3> QED BY <3>2, <2>2, <1>8
  <2> QED BY <2>1, <2>2
<1>11. \A l \in Key : l \in present' <=> entry'[l] # IdleEntry
  BY <1>1, <1>7, <1>8 DEF LeaseInv
<1>12. LeaseTypeOK'
  BY <1>1, <1>8 DEF LeaseInv, LeaseTypeOK, Statuses
<1>13. closed' = "resolved" => present' = {} BY <1>1, <1>7
<1> QED BY <1>10, <1>11, <1>12, <1>13 DEF LeaseInv

\* Every step of the lease keeps its books.
LEMMA LeaseInvStep == LeaseInv /\ [LeaseNext]_leaseVars => LeaseInv'
<1> SUFFICES ASSUME LeaseInv, [LeaseNext]_leaseVars PROVE LeaseInv' OBVIOUS
<1>1. CASE Close
  <2>1. LeaseTypeOK' /\ UNCHANGED <<status, entry, present>>
    BY <1>1 DEF Close, LeaseInv, LeaseTypeOK
  <2>2. closed' = "resolved" => present' = {} BY <1>1 DEF Close
  <2> QED BY <2>1, <2>2 DEF LeaseInv
<1>2. ASSUME NEW op \in Op, Acquire(op) PROVE LeaseInv' BY <1>2, AcquireKeepsLeaseInv
<1>3. ASSUME NEW op \in Op, Refuse(op) PROVE LeaseInv'
  <2>1. /\ LeaseTypeOK' /\ UNCHANGED <<entry, present, closed>>
        /\ status[op] = "idle" /\ status' = [status EXCEPT ![op] = "refused"]
        /\ status \in [Op -> Statuses]
    BY <1>3 DEF Refuse, LeaseInv, LeaseTypeOK, Statuses
  <2>2. \A k \in Key : Tidy(k, entry[k], status')
    BY <2>1 DEF LeaseInv, Tidy, Accounts
  <2> QED BY <2>1, <2>2 DEF LeaseInv
<1>4. ASSUME NEW op \in Op, Release(op) PROVE LeaseInv' BY <1>4, ReleaseKeepsLeaseInv
<1>5. CASE UNCHANGED leaseVars
  <2>1. UNCHANGED <<status, entry, present, closed>> BY <1>5 DEF leaseVars
  <2> QED BY <2>1 DEF LeaseInv, LeaseTypeOK
<1> QED BY <1>1, <1>2, <1>3, <1>4, <1>5 DEF LeaseNext

\* A lease whose books are in order admits no second operation beside a writer.
LEMMA BooksGiveExclusion == LeaseInv => Exclusion
<1> SUFFICES ASSUME LeaseInv, NEW o \in Op, NEW p \in Op, status[o] = "admitted",
                    status[p] = "admitted", KeyOf[o] = KeyOf[p], o \in Writer
             PROVE  o = p
  BY DEF Exclusion
<1> DEFINE e == entry[KeyOf[o]]
<1>1. Members(KeyOf[o], e) /\ Accounts(KeyOf[o], e, status)
  BY LeaseAssumption DEF LeaseInv, Tidy
<1>2. o = e.writer BY <1>1 DEF Accounts, Members
<1>3. e.readers = {} BY <1>1, <1>2, LeaseAssumption DEF Members
<1> QED BY <1>1, <1>2, <1>3 DEF Accounts

\* A lease whose books are in order has closed only when nobody is left.
LEMMA BooksGiveDrained == LeaseInv => CloseDrains
<1> SUFFICES ASSUME LeaseInv, closed = "resolved", NEW o \in Op,
                    status[o] \in {"waiting", "admitted"}
             PROVE  FALSE
  BY DEF CloseDrains
<1>1. KeyOf[o] \in Key BY LeaseAssumption
<1>2. entry[KeyOf[o]] = IdleEntry BY <1>1 DEF LeaseInv
<1>3. Accounts(KeyOf[o], IdleEntry, status) BY <1>1, <1>2 DEF LeaseInv, Tidy
<1> QED BY <1>3, LeaseAssumption DEF Accounts, IdleEntry

--------------------------------------------------------------------------------
(* Admission in the order of arrival.                                        *)

\* drain() changes nothing but the status of operations in the queue.
LEMMA DrainAdmits ==
  ASSUME NEW k \in Key, NEW e, NEW st, e.waiters \in Seq(Op), Drain(k, e, st), NEW o \in Op
  PROVE  \/ status'[o] = st[o]
         \/ status'[o] = "admitted" /\ \E i \in 1 .. Len(e.waiters) : e.waiters[i] = o
<1>1. PICK n \in 0 .. Len(e.waiters) :
        status' = [op \in Op |-> IF op \in {e.waiters[i] : i \in 1 .. n}
                                THEN "admitted" ELSE st[op]]
  BY DEF Drain
<1>2. Len(e.waiters) \in Nat OBVIOUS
<1>3. CASE o \in {e.waiters[i] : i \in 1 .. n}
  <2>1. PICK i \in 1 .. n : e.waiters[i] = o BY <1>3
  <2>2. i \in 1 .. Len(e.waiters) BY <1>2, <2>1
  <2> QED BY <1>1, <1>3, <2>1, <2>2
<1>4. CASE o \notin {e.waiters[i] : i \in 1 .. n} BY <1>1, <1>4
<1> QED BY <1>3, <1>4

\* drain() lets in nobody but a beginning of the queue.
LEMMA DrainInOrder ==
  ASSUME NEW k \in Key, NEW e, e.waiters \in Seq(Op), NEW st, Drain(k, e, st),
         \A i, j \in 1 .. Len(e.waiters) : e.waiters[i] = e.waiters[j] => i = j,
         NEW j \in 1 .. Len(e.waiters), NEW i \in 1 .. j - 1,
         st[e.waiters[j]] # "admitted", status'[e.waiters[j]] = "admitted"
  PROVE  status'[e.waiters[i]] = "admitted"
<1> DEFINE w == e.waiters
<1>1. PICK n \in 0 .. Len(w) :
        status' = [op \in Op |-> IF op \in {w[m] : m \in 1 .. n} THEN "admitted" ELSE st[op]]
  BY DEF Drain
<1>2. Len(w) \in Nat /\ w[j] \in Op /\ i \in 1 .. Len(w) /\ w[i] \in Op OBVIOUS
<1>3. w[j] \in {w[m] : m \in 1 .. n} BY <1>1, <1>2
<1>4. PICK m \in 1 .. n : w[m] = w[j] BY <1>3
<1>5. m \in 1 .. Len(w) /\ m = j BY <1>2, <1>4
<1>6. i \in 1 .. n BY <1>2, <1>5
<1>7. w[i] \in {w[l] : l \in 1 .. n} BY <1>6
<1> QED BY <1>1, <1>2, <1>7

\* Who is behind in the queue, or comes only now, is not let in before.
LEMMA StepKeepsOrder ==
  ASSUME LeaseInv, [LeaseNext]_leaseVars, NEW o \in Op, NEW p \in Op, Ahead(o, p),
         status'[p] = "admitted"
  PROVE  status'[o] # "waiting"
<1> DEFINE k == KeyOf[o]
           w == entry[k].waiters
<1>1. /\ k \in Key /\ w \in Seq(Op) /\ Len(w) \in Nat /\ KeyOf[p] = k
      /\ status[o] = "waiting" /\ status \in [Op -> Statuses]
      /\ \A i \in 1 .. Len(w) : KeyOf[w[i]] = k /\ status[w[i]] = "waiting"
      /\ \A i, j \in 1 .. Len(w) : w[i] = w[j] => i = j
      /\ \E i \in 1 .. Len(w) : w[i] = o
  <2>1. k \in Key /\ KeyOf[p] = k /\ status[o] = "waiting"
    BY LeaseAssumption DEF Ahead
  <2>2. entry[k] \in Entry /\ Tidy(k, entry[k], status) /\ status \in [Op -> Statuses]
    BY <2>1 DEF LeaseInv, LeaseTypeOK, Statuses
  <2>3. w \in Seq(Op) BY <2>2 DEF Entry
  <2>4. \A i \in 1 .. Len(w) : w[i] \in Op BY <2>3
  <2> QED BY <2>1, <2>2, <2>3, <2>4 DEF Tidy, Queue, Accounts
<1>2. \/ status[p] = "idle"
      \/ \E j \in 2 .. Len(w) : \E i \in 1 .. j - 1 : w[i] = o /\ w[j] = p
  BY DEF Ahead
<1>3. status[p] # "admitted"
  <2>1. CASE status[p] = "idle" BY <2>1
  <2>2. CASE \E j \in 2 .. Len(w) : \E i \in 1 .. j - 1 : w[i] = o /\ w[j] = p
    BY <1>1, <2>2
  <2> QED BY <1>2, <2>1, <2>2
<1>4. ASSUME NEW op \in Op, Acquire(op) PROVE status'[o] # "waiting"
  <2> DEFINE l == KeyOf[op]
             e == [entry[l] EXCEPT !.waiters = Append(@, op)]
             st == [status EXCEPT ![op] = "waiting"]
  <2>1. l \in Key /\ Drain(l, e, st) /\ status[op] = "idle"
    BY <1>4, LeaseAssumption DEF Acquire
  <2>2. entry[l] \in Entry /\ Tidy(l, entry[l], status)
    BY <2>1 DEF LeaseInv, LeaseTypeOK
  <2>3. /\ entry[l].waiters \in Seq(Op) /\ e.waiters = Append(entry[l].waiters, op)
        /\ e.waiters \in Seq(Op)
    BY <2>2 DEF Entry
  <2>4. \A i \in 1 .. Len(entry[l].waiters) :
          KeyOf[entry[l].waiters[i]] = l /\ status[entry[l].waiters[i]] = "waiting"
    <3>1. \A i \in 1 .. Len(entry[l].waiters) : entry[l].waiters[i] \in Op BY <2>3
    <3> QED BY <2>2, <3>1 DEF Tidy, Queue, Accounts
  <2>5. /\ \A i \in 1 .. Len(e.waiters) : KeyOf[e.waiters[i]] = l
        /\ st[p] # "admitted"
    BY <1>1, <1>3, <2>3, <2>4
  <2>13. /\ l \in Key /\ Drain(l, e, st) /\ e.waiters \in Seq(Op)
         /\ \A q \in Op :
              \/ status'[q] = st[q]
              \/ status'[q] = "admitted" /\ \E j \in 1 .. Len(e.waiters) : e.waiters[j] = q
    <3>1. l \in Key /\ Drain(l, e, st) /\ e.waiters \in Seq(Op) BY <2>1, <2>3
    <3> HIDE DEF e, st, l
    <3> QED BY <3>1, DrainAdmits
  <2>6. l = k
    <3> SUFFICES ASSUME l # k PROVE FALSE OBVIOUS
    <3>1. \A j \in 1 .. Len(e.waiters) : e.waiters[j] # p BY <1>1, <2>5
    <3> HIDE DEF e, st, l
    <3> QED BY <2>5, <2>13, <3>1
  <2>7. /\ Len(e.waiters) = Len(w) + 1 /\ e.waiters[Len(w) + 1] = op
        /\ \A i \in 1 .. Len(w) : e.waiters[i] = w[i]
    <3> HIDE DEF e, w
    <3>1. w = entry[l].waiters BY <2>6 DEF w
    <3> QED BY <1>1, <2>3, <3>1
  <2>8. \A i, j \in 1 .. Len(e.waiters) : e.waiters[i] = e.waiters[j] => i = j
    <3>1. /\ \A i \in 1 .. Len(w) : w[i] # op
          /\ \A i, j \in 1 .. Len(w) : w[i] = w[j] => i = j
      BY <1>1, <2>1
    <3>2. Len(w) \in Nat BY <1>1
    <3> HIDE DEF e, w
    <3>3. \A i \in 1 .. Len(e.waiters) : i \in 1 .. Len(w) \/ i = Len(w) + 1
      BY <2>7, <3>2
    <3> QED BY <2>7, <3>1, <3>3
  <2>9. PICK j \in 1 .. Len(e.waiters) : e.waiters[j] = p
    <3> HIDE DEF e, st, l
    <3> QED BY <2>5, <2>13
  <2>10. PICK i \in 1 .. j - 1 : e.waiters[i] = o
    <3>1. CASE j \in 1 .. Len(w)
      <4>1. w[j] = p BY <2>7, <2>9, <3>1
      <4>2. status[p] # "idle" BY <1>1, <3>1, <4>1
      <4>3. PICK m \in 2 .. Len(w) : w[m] = p /\ \E i \in 1 .. m - 1 : w[i] = o BY <1>2, <4>2
      <4>4. m = j BY <1>1, <3>1, <4>1, <4>3
      <4> HIDE DEF e, w
      <4> QED BY <1>1, <2>7, <4>3, <4>4
    <3>2. CASE j \notin 1 .. Len(w)
      <4> HIDE DEF e, w
      <4>1. j = Len(w) + 1 BY <1>1, <2>7, <3>2
      <4> QED BY <1>1, <2>7, <4>1
    <3> QED BY <3>1, <3>2
  <2>11. st[e.waiters[j]] # "admitted" /\ status'[e.waiters[j]] = "admitted" BY <2>5, <2>9
  <2> HIDE DEF e, st, l
  <2>12. status'[e.waiters[i]] = "admitted"
    BY <2>8, <2>9, <2>10, <2>11, <2>13, DrainInOrder
  <2> QED BY <2>10, <2>12
<1>5. ASSUME NEW op \in Op, Release(op) PROVE status'[o] # "waiting"
  <2> DEFINE l == KeyOf[op]
             e == [entry[l] EXCEPT !.readers = @ \ {op},
                                   !.writer = IF @ = op THEN None ELSE @]
             st == [status EXCEPT ![op] = "settled"]
  <2>1. l \in Key /\ Drain(l, e, st) /\ status[op] = "admitted"
    BY <1>5, LeaseAssumption DEF Release
  <2>2. entry[l] \in Entry /\ Tidy(l, entry[l], status)
    BY <2>1 DEF LeaseInv, LeaseTypeOK
  <2>3. entry[l].waiters \in Seq(Op) /\ e.waiters = entry[l].waiters BY <2>2 DEF Entry
  <2>4. /\ \A i \in 1 .. Len(e.waiters) : KeyOf[e.waiters[i]] = l
        /\ st[p] # "admitted"
    BY <1>1, <1>3, <2>2, <2>3 DEF Tidy, Queue
  <2>13. /\ l \in Key /\ Drain(l, e, st) /\ e.waiters \in Seq(Op)
         /\ \A q \in Op :
              \/ status'[q] = st[q]
              \/ status'[q] = "admitted" /\ \E j \in 1 .. Len(e.waiters) : e.waiters[j] = q
    <3>1. l \in Key /\ Drain(l, e, st) /\ e.waiters \in Seq(Op) BY <2>1, <2>3
    <3> HIDE DEF e, st, l
    <3> QED BY <3>1, DrainAdmits
  <2>5. PICK j \in 1 .. Len(e.waiters) : e.waiters[j] = p
    <3> HIDE DEF e, st, l
    <3> QED BY <2>4, <2>13
  <2>6. l = k BY <1>1, <2>4, <2>5
  <2>7. e.waiters = w BY <2>3, <2>6
  <2>8. PICK i \in 1 .. j - 1 : w[i] = o
    <3>1. w[j] = p /\ j \in 1 .. Len(w) BY <2>5, <2>7
    <3>2. status[p] # "idle" BY <1>1, <3>1
    <3>3. PICK m \in 2 .. Len(w) : w[m] = p /\ \E i \in 1 .. m - 1 : w[i] = o BY <1>2, <3>2
    <3>4. m = j BY <1>1, <3>1, <3>3
    <3> QED BY <3>3, <3>4
  <2>9. st[e.waiters[j]] # "admitted" /\ status'[e.waiters[j]] = "admitted" BY <2>4, <2>5
  <2>10. /\ e.waiters \in Seq(Op)
         /\ \A a, b \in 1 .. Len(e.waiters) : e.waiters[a] = e.waiters[b] => a = b
    BY <1>1, <2>7
  <2> HIDE DEF e, st, l
  <2>11. status'[e.waiters[i]] = "admitted"
    BY <2>5, <2>8, <2>9, <2>10, <2>13, DrainInOrder
  <2> QED BY <2>7, <2>8, <2>11
<1>6. ASSUME NEW op \in Op, Refuse(op) PROVE status'[o] # "waiting"
  BY <1>1, <1>3, <1>6 DEF Refuse
<1>7. CASE Close \/ UNCHANGED leaseVars BY <1>3, <1>7 DEF Close, leaseVars
<1> QED BY <1>4, <1>5, <1>6, <1>7 DEF LeaseNext

--------------------------------------------------------------------------------
(* The theorems.                                                             *)

\* The lease keeps its books: an entry holds exactly the operations admitted to
\* its key or waiting for it.
THEOREM LeaseInvariant == LeaseSpec => []LeaseInv
<1>1. LeaseInit => LeaseInv BY LeaseInvInit
<1>2. LeaseInv /\ [LeaseNext]_leaseVars => LeaseInv' BY LeaseInvStep
<1> QED BY <1>1, <1>2, PTL DEF LeaseSpec

\* Reader/writer admission: a writer under the lease of a catalog is alone there.
THEOREM LeaseExclusion == LeaseSpec => []Exclusion
<1>1. LeaseInv => Exclusion BY BooksGiveExclusion
<1> QED BY <1>1, LeaseInvariant, PTL

\* close() resolves only when every operation has settled.
THEOREM LeaseDrains == LeaseSpec => []CloseDrains
<1>1. LeaseInv => CloseDrains BY BooksGiveDrained
<1> QED BY <1>1, LeaseInvariant, PTL
\* A stream of readers cannot keep a writer out, nor writers a reader: nobody is
\* admitted while an operation that came before it is left waiting.
THEOREM LeaseFair == LeaseSpec => NoOvertaking
<1>1. LeaseInv /\ [LeaseNext]_leaseVars
        => [\A o, p \in Op :
              Ahead(o, p) /\ status'[p] = "admitted" => status'[o] # "waiting"]_leaseVars
  BY StepKeepsOrder
<1> QED BY <1>1, LeaseInvariant, PTL DEF LeaseSpec, NoOvertaking

--------------------------------------------------------------------------------
(* The lease inside the system.                                              *)

\* Every step of the system is a step of the lease, leaves it alone, or restarts
\* the process.
LEMMA NextDrivesLease == ASSUME Next, ~Crash PROVE [LeaseNext]_leaseVars
<1> USE CatalogAssumption DEF LeaseNext
<1>1. CASE BackendChanges BY <1>1 DEF BackendChanges
<1>2. CASE Dispose BY <1>2 DEF Dispose
<1>3. CASE CloseLease BY <1>3 DEF CloseLease
<1>4. ASSUME NEW r \in Refresh, Request(r) PROVE UNCHANGED leaseVars
  BY <1>4 DEF Request
<1>5. ASSUME NEW r \in Refresh, Publisher(r) PROVE [LeaseNext]_leaseVars
  <2>1. CASE AskLease(r)
    BY <2>1, LeaseAssumption DEF AskLease
  <2>2. CASE ReleasePublisher(r)
    BY <2>2, LeaseAssumption DEF ReleasePublisher
  <2>3. CASE Load(r) \/ Stage(r) \/ Finish(r)
    BY <2>3 DEF Load, Stage, Finish
  <2>4. CASE MoveAway(r) \/ MoveIn(r) \/ PutBack(r)
    BY <2>4 DEF MoveAway, MoveIn, PutBack
  <2>5. CASE Unpublish(r) \/ Restore(r) \/ CleanUp(r)
    BY <2>5 DEF Unpublish, Restore, CleanUp
  <2> QED BY <1>5, <2>1, <2>2, <2>3, <2>4, <2>5 DEF Publisher
<1>6. ASSUME NEW c \in Consumer, AskConsumer(c) PROVE [LeaseNext]_leaseVars
  BY <1>6, LeaseAssumption DEF AskConsumer
<1>7. ASSUME NEW c \in Consumer, NEW d \in Dir, Consume(c, d) PROVE UNCHANGED leaseVars
  BY <1>7 DEF Consume
<1>8. ASSUME NEW s \in Save, AskSave(s) \/ WriteTemplate(s) PROVE [LeaseNext]_leaseVars
  BY <1>8, LeaseAssumption DEF AskSave, WriteTemplate
<1>9. ASSUME NEW o \in Op, Leave(o) \/ AskForeign(o) PROVE [LeaseNext]_leaseVars
  BY <1>9 DEF Leave, AskForeign
<1> QED
  BY <1>1, <1>2, <1>3, <1>4, <1>5, <1>6, <1>7, <1>8, <1>9 DEF Next, Steady, Foreign

\* A restart begins with an empty lease.
LEMMA CrashKeepsLeaseInv == ASSUME LeaseInv, Crash PROVE LeaseInv'
<1>1. /\ entry' = [k \in Key |-> IdleEntry] /\ present' = {} /\ closed' = "open"
      /\ status' \in [Op -> Statuses]
      /\ \A o \in Op : status'[o] \notin {"waiting", "admitted"}
  BY DEF Crash, Statuses
<1>2. IdleEntry \in Entry /\ Len(IdleEntry.waiters) = 0 BY DEF IdleEntry, Entry
<1>3. LeaseTypeOK' BY <1>1, <1>2 DEF LeaseTypeOK, Statuses
<1>4. \A k \in Key : Tidy(k, IdleEntry, status')
  BY <1>1, <1>2, LeaseAssumption DEF Tidy, Members, Queue, Accounts, IdleEntry
<1> QED BY <1>1, <1>3, <1>4 DEF LeaseInv

\* Whatever the system does, the books of the lease stay right.
LEMMA NextKeepsLeaseInv == LeaseInv /\ [Next]_vars => LeaseInv'
<1> SUFFICES ASSUME LeaseInv, [Next]_vars PROVE LeaseInv' OBVIOUS
<1>1. CASE Crash BY <1>1, CrashKeepsLeaseInv
<1>2. CASE Next /\ ~Crash BY <1>2, NextDrivesLease, LeaseInvStep
<1>3. CASE UNCHANGED vars
  <2>1. UNCHANGED leaseVars BY <1>3 DEF vars
  <2> QED BY <2>1, LeaseInvStep
<1> QED BY <1>1, <1>2, <1>3

\* The lease keeps its books when publishers, consumers, saves, disposal and
\* restarts use it as the integration does.
THEOREM CatalogLeaseInvariant == Spec => []LeaseInv
<1>1. Init => LeaseInv BY LeaseInvInit DEF Init
<1> QED BY <1>1, NextKeepsLeaseInv, PTL DEF Spec

\* Whoever publishes or saves a template is alone in the catalog directory.
THEOREM CatalogExclusion == Spec => []Exclusion
BY CatalogLeaseInvariant, BooksGiveExclusion, PTL

\* Disposal of the plugin closes the lease only after every publication, save
\* and consumer is over.
THEOREM CatalogCloseDrains == Spec => []CloseDrains
BY CatalogLeaseInvariant, BooksGiveDrained, PTL

\* No consumer is kept out by a stream of refreshes and saves, and none of those
\* by a stream of consumers: whoever came first is not left waiting.
THEOREM CatalogFair == Spec => NoOvertaking
<1> DEFINE Fair == \A o, p \in Op :
                     Ahead(o, p) /\ status'[p] = "admitted" => status'[o] # "waiting"
<1>1. LeaseInv /\ [Next]_vars => [Fair]_leaseVars
  <2> SUFFICES ASSUME LeaseInv, [Next]_vars PROVE Fair \/ UNCHANGED leaseVars OBVIOUS
  <2>1. CASE Next /\ ~Crash
    <3>1. [LeaseNext]_leaseVars BY <2>1, NextDrivesLease
    <3> QED BY <3>1, StepKeepsOrder
  <2>2. CASE Crash BY <2>2 DEF Crash
  <2>3. CASE UNCHANGED vars BY <2>3 DEF vars
  <2> QED BY <2>1, <2>2, <2>3
<1> QED BY <1>1, CatalogLeaseInvariant, PTL DEF Spec, NoOvertaking

--------------------------------------------------------------------------------
(* Types.  A publication never leaves the three directories.                 *)

Places == {"idle", "backup", "publish", "putback", "unpublish", "restore", "cleanup",
           "failed", "done"}
OnDirectory == {"backup", "publish", "putback", "restore"}
InPlace(p) == /\ p \in [at : Places, i : 0 .. 3, own : SUBSET Save]
              /\ p.at \in OnDirectory => p.i \in Dir
TypeInv == TypeOK /\ InPlace(pub)

\* Before anything runs.
LEMMA TypeInvInit == Init => TypeInv
<1> SUFFICES ASSUME Init PROVE TypeInv OBVIOUS
<1>1. LeaseTypeOK BY LeaseInvInit DEF Init, LeaseInv
<1>2. chain \in Seq(Refresh) /\ version \in 1 .. MaxVersion /\ crashes \in 0 .. MaxCrashes
  BY CatalogAssumption DEF Init
<1>3. /\ asked \in [Refresh -> 0 .. MaxVersion] /\ loaded \in [Refresh -> 0 .. MaxVersion]
      /\ outcome \in [Refresh -> {"none", "ok", "failed"}]
  BY CatalogAssumption DEF Init
<1>4. dir \in [Dir -> Content] /\ backup \in [Dir -> Content]
  BY DEF Init, Missing, Content
<1>5. seen \in [Consumer -> SUBSET [dir : Dir, version : Nat]] /\ saved \subseteq Save
  BY DEF Init
<1>6. InPlace(pub) BY DEF Init, InPlace, IdlePub, Places, OnDirectory
<1> QED BY <1>1, <1>2, <1>3, <1>4, <1>5, <1>6 DEF Init, TypeInv, TypeOK, InPlace, Places

\* A publication goes on to a place that has a directory if it needs one.
LEMMA GoesOn ==
  ASSUME InPlace(pub), NEW at \in Places
  PROVE  /\ (at \in OnDirectory => pub.i \in Dir) => InPlace([pub EXCEPT !.at = at])
         /\ pub.i \in Dir /\ at \notin OnDirectory
              => InPlace([pub EXCEPT !.at = at, !.i = @ - 1])
         /\ pub.i \in {1, 2} => InPlace([pub EXCEPT !.at = at, !.i = @ + 1])
<1>1. pub \in [at : Places, i : 0 .. 3, own : SUBSET Save] BY DEF InPlace
<1>2. pub.i \in 0 .. 3 BY <1>1
<1>3. (at \in OnDirectory => pub.i \in Dir) => InPlace([pub EXCEPT !.at = at])
  BY <1>1 DEF InPlace
<1>4. ASSUME pub.i \in Dir, at \notin OnDirectory
      PROVE  InPlace([pub EXCEPT !.at = at, !.i = @ - 1])
  <2>1. pub.i - 1 \in 0 .. 3 BY <1>2, <1>4 DEF Dir
  <2>2. [pub EXCEPT !.at = at, !.i = @ - 1] \in [at : Places, i : 0 .. 3, own : SUBSET Save]
    BY <1>1, <2>1
  <2>3. [pub EXCEPT !.at = at, !.i = @ - 1].at = at BY <1>1
  <2> QED BY <1>4, <2>2, <2>3 DEF InPlace
<1>5. ASSUME pub.i \in {1, 2} PROVE InPlace([pub EXCEPT !.at = at, !.i = @ + 1])
  <2>1. pub.i + 1 \in 0 .. 3 /\ pub.i + 1 \in Dir BY <1>5 DEF Dir
  <2>2. [pub EXCEPT !.at = at, !.i = @ + 1] \in [at : Places, i : 0 .. 3, own : SUBSET Save]
    BY <1>1, <2>1
  <2>3. [pub EXCEPT !.at = at, !.i = @ + 1].i = pub.i + 1 BY <1>1
  <2> QED BY <2>1, <2>2, <2>3 DEF InPlace
<1> QED BY <1>3, <1>4, <1>5

\* The steps between the acquisition of the lease and its release.
LEMMA PublicationKeepsTypes ==
  ASSUME TypeInv, NEW r \in Refresh,
         \/ Stage(r) \/ MoveAway(r) \/ MoveIn(r) \/ PutBack(r)
         \/ Unpublish(r) \/ Restore(r) \/ CleanUp(r)
  PROVE  TypeInv'
<1>1. /\ InPlace(pub) /\ dir \in [Dir -> Content] /\ backup \in [Dir -> Content]
      /\ loaded \in [Refresh -> 0 .. MaxVersion] /\ Missing \in Content
      /\ pub.own \subseteq Save
  BY DEF TypeInv, TypeOK, InPlace, Missing, Content
<1>2. SUFFICES InPlace(pub') /\ dir' \in [Dir -> Content] /\ backup' \in [Dir -> Content]
  <2>1. UNCHANGED <<version, accepting, online, chain, asked, loaded, outcome, seen,
                    saved, crashes, status, entry, present, closed>>
    BY DEF Stage, MoveAway, MoveIn, PutBack, Unpublish, Restore, CleanUp, leaseVars
  <2> QED BY <2>1 DEF TypeInv, TypeOK, LeaseTypeOK, InPlace, Places
<1>3. CASE Stage(r)
  <2>1. dir[Teams].own \subseteq Save BY <1>1 DEF Teams, Content, Dir
  <2>2. InPlace(pub')
    BY <1>3, <2>1 DEF Stage, InPlace, Places, OnDirectory, Dir
  <2> QED BY <1>1, <1>3, <2>2 DEF Stage
<1>4. CASE MoveAway(r)
  <2>1. pub.i \in Dir BY <1>1, <1>4 DEF MoveAway, Publishing, InPlace, OnDirectory
  <2>2. dir' \in [Dir -> Content] /\ backup' \in [Dir -> Content]
    BY <1>1, <1>4, <2>1 DEF MoveAway
  <2>3. pub' = [pub EXCEPT !.at = "publish"] \/ pub' = [pub EXCEPT !.at = "unpublish", !.i = @ - 1]
    BY <1>4 DEF MoveAway
  <2>4. InPlace(pub') BY <1>1, <2>1, <2>3, GoesOn DEF Places, OnDirectory
  <2> QED BY <2>2, <2>4
<1>5. CASE MoveIn(r)
  <2>1. pub.i \in Dir BY <1>1, <1>5 DEF MoveIn, Publishing, InPlace, OnDirectory
  <2>2. Staged(r, pub.i) \in Content BY <1>1, CatalogAssumption DEF Staged, Content
  <2>3. dir' \in [Dir -> Content] /\ backup' = backup
    BY <1>1, <1>5, <2>1, <2>2 DEF MoveIn
  <2>4. \/ pub' = [pub EXCEPT !.at = "cleanup"] \/ pub' = [pub EXCEPT !.at = "putback"]
        \/ pub.i # 3 /\ pub' = [pub EXCEPT !.at = "backup", !.i = @ + 1]
    BY <1>5 DEF MoveIn, Agents
  <2>5. pub.i # 3 => pub.i \in {1, 2} BY <2>1 DEF Dir
  <2>6. InPlace(pub') BY <1>1, <2>1, <2>4, <2>5, GoesOn DEF Places, OnDirectory
  <2> QED BY <1>1, <2>3, <2>6
<1>6. CASE PutBack(r) \/ Restore(r)
  <2>1. pub.i \in Dir BY <1>1, <1>6 DEF PutBack, Restore, Publishing, InPlace, OnDirectory
  <2>2. dir' \in [Dir -> Content] /\ backup' \in [Dir -> Content]
    BY <1>1, <1>6, <2>1 DEF PutBack, Restore
  <2>3. pub' = [pub EXCEPT !.at = "unpublish", !.i = @ - 1]
    BY <1>6 DEF PutBack, Restore
  <2>4. InPlace(pub') BY <1>1, <2>1, <2>3, GoesOn DEF Places, OnDirectory
  <2> QED BY <2>2, <2>4
<1>7. CASE Unpublish(r)
  <2>1. dir' \in [Dir -> Content] /\ backup' = backup
    BY <1>1, <1>7 DEF Unpublish
  <2>2. \/ pub' = [pub EXCEPT !.at = "failed"]
        \/ pub.i # 0 /\ pub' = [pub EXCEPT !.at = "restore"]
    BY <1>7 DEF Unpublish
  <2>3. pub.i # 0 => pub.i \in Dir BY <1>1 DEF InPlace, Dir
  <2>4. InPlace(pub') BY <1>1, <2>2, <2>3, GoesOn DEF Places, OnDirectory
  <2> QED BY <1>1, <2>1, <2>4
<1>8. CASE CleanUp(r)
  <2>1. dir' = dir /\ backup' \in [Dir -> Content] BY <1>1, <1>8 DEF CleanUp
  <2>2. pub' = [pub EXCEPT !.at = "done"] BY <1>8 DEF CleanUp
  <2>3. InPlace(pub') BY <1>1, <2>2, GoesOn DEF Places, OnDirectory
  <2> QED BY <1>1, <2>1, <2>3
<1> QED BY <1>3, <1>4, <1>5, <1>6, <1>7, <1>8

\* Every step, the lease being in order before and after it.
LEMMA NextKeepsTypes == TypeInv /\ LeaseInv /\ LeaseInv' /\ [Next]_vars => TypeInv'
<1> SUFFICES ASSUME TypeInv, LeaseInv, LeaseInv', [Next]_vars PROVE TypeInv' OBVIOUS
<1>0. LeaseTypeOK' /\ InPlace(IdlePub)
  BY DEF LeaseInv, InPlace, IdlePub, Places, OnDirectory
<1> USE DEF TypeInv, TypeOK
<1>1. CASE BackendChanges
  <2>1. version' \in 1 .. MaxVersion BY <1>1, CatalogAssumption DEF BackendChanges
  <2> QED BY <1>0, <1>1, <2>1 DEF BackendChanges
<1>2. CASE Dispose BY <1>0, <1>2 DEF Dispose
<1>3. CASE CloseLease BY <1>0, <1>3 DEF CloseLease, catalogVars
<1>4. CASE Crash
  <2>1. crashes' \in 0 .. MaxCrashes BY <1>4, CatalogAssumption DEF Crash
  <2>2. chain' \in Seq(Refresh) /\ backup' \in [Dir -> Content]
    BY <1>4 DEF Crash, Missing, Content
  <2> QED BY <1>0, <1>4, <2>1, <2>2 DEF Crash, InPlace, Places
<1>5. ASSUME NEW r \in Refresh, Request(r) PROVE TypeInv'
  <2>1. chain' \in Seq(Refresh) /\ asked' \in [Refresh -> 0 .. MaxVersion]
    BY <1>5, CatalogAssumption DEF Request
  <2> QED BY <1>0, <1>5, <2>1 DEF Request
<1>6. ASSUME NEW r \in Refresh, Publisher(r) PROVE TypeInv'
  <2>1. CASE Load(r)
    <3>0. loaded' = loaded \/ loaded' = [loaded EXCEPT ![r] = version]
      BY <2>1 DEF Load
    <3>1. loaded' \in [Refresh -> 0 .. MaxVersion]
      <4>1. version \in 0 .. MaxVersion /\ loaded \in [Refresh -> 0 .. MaxVersion]
        BY CatalogAssumption
      <4> HIDE DEF TypeInv, TypeOK
      <4> QED BY <3>0, <4>1
    <3>2. outcome' = outcome \/ outcome' = [outcome EXCEPT ![r] = "failed"]
      BY <2>1 DEF Load, Ends
    <3>3. outcome' \in [Refresh -> {"none", "ok", "failed"}] BY <3>2
    <3> QED BY <1>0, <2>1, <3>1, <3>3 DEF Load
  <2>2. CASE AskLease(r)
    <3>1. outcome' \in [Refresh -> {"none", "ok", "failed"}] BY <2>2 DEF AskLease, Ends
    <3> QED BY <1>0, <2>2, <3>1 DEF AskLease
  <2>3. CASE ReleasePublisher(r)
    <3>1. outcome' \in [Refresh -> {"none", "ok", "failed"}]
      BY <2>3 DEF ReleasePublisher, Ends
    <3>2. pub' = IdlePub BY <2>3 DEF ReleasePublisher
    <3> QED BY <1>0, <2>3, <3>1, <3>2 DEF ReleasePublisher, InPlace, Places
  <2>4. CASE Finish(r)
    <3>1. chain' \in Seq(Refresh) BY <2>4 DEF Finish, Current
    <3> QED BY <1>0, <2>4, <3>1 DEF Finish
  <2> QED BY <1>6, <2>1, <2>2, <2>3, <2>4, PublicationKeepsTypes DEF Publisher
<1>7. ASSUME NEW c \in Consumer, AskConsumer(c) PROVE TypeInv'
  BY <1>0, <1>7 DEF AskConsumer, catalogVars
<1>8. ASSUME NEW c \in Consumer, NEW d \in Dir, Consume(c, d) PROVE TypeInv'
  <2>1. [dir |-> d, version |-> dir[d].version] \in [dir : Dir, version : Nat]
    BY DEF Content
  <2>2. seen' \in [Consumer -> SUBSET [dir : Dir, version : Nat]]
    BY <1>8, <2>1 DEF Consume
  <2> QED BY <1>0, <1>8, <2>2 DEF Consume
<1>9. ASSUME NEW s \in Save, AskSave(s) PROVE TypeInv'
  BY <1>0, <1>9 DEF AskSave, catalogVars
<1>10. ASSUME NEW s \in Save, WriteTemplate(s) PROVE TypeInv'
  <2>1. dir' \in [Dir -> Content]
    BY <1>10, ZenonT(30) DEF WriteTemplate, Content, Dir, Teams
  <2>2. saved' \subseteq Save BY <1>10 DEF WriteTemplate
  <2> QED BY <1>0, <1>10, <2>1, <2>2 DEF WriteTemplate
<1>11. ASSUME NEW o \in Op, Leave(o) \/ AskForeign(o) PROVE TypeInv'
  BY <1>0, <1>11 DEF Leave, AskForeign, catalogVars
<1>12. CASE UNCHANGED vars BY <1>0, <1>12 DEF vars, catalogVars
<1> QED
  BY <1>1, <1>2, <1>3, <1>4, <1>5, <1>6, <1>7, <1>8, <1>9, <1>10, <1>11, <1>12
  DEF Next, Steady, Foreign

\* Every variable has its type, and the loops of publishDirectories stay in
\* their bounds.
THEOREM CatalogTypes == Spec => []TypeOK
<1>1. Init => TypeInv BY TypeInvInit
<1>2. TypeInv /\ LeaseInv /\ LeaseInv' /\ [Next]_vars => TypeInv' BY NextKeepsTypes
<1>3. TypeInv => TypeOK BY DEF TypeInv
<1> QED BY <1>1, <1>2, <1>3, CatalogLeaseInvariant, PTL DEF Spec

--------------------------------------------------------------------------------
(* One generation per consumer that reads under the lease only.  Without     *)
(* restarts.                                                                 *)

\* A publication under way is the one of the refresh at the head of the chain,
\* which has the lease.
Busy == pub.at # "idle" => chain # <<>> /\ status[Head(chain)] = "admitted"

\* A refresh that waits for the lease or has it has loaded and is undecided.
Undecided ==
  \A r \in Refresh :
    /\ status[r] \in {"waiting", "admitted"} => loaded[r] # 0 /\ outcome[r] = "none"
    /\ status[r] = "idle" /\ loaded[r] # 0 => outcome[r] = "none"

\* The generation before the publication is whole, in what is still live and
\* what is backed up, and so is the part published so far.
MovedAway(d) ==
  \/ pub.at = "backup" /\ d < pub.i
  \/ pub.at \in {"publish", "putback", "unpublish", "restore"} /\ d <= pub.i
Before(d) == IF MovedAway(d) THEN backup[d].version ELSE dir[d].version
Whole ==
  /\ \A d, e \in Dir : Before(d) = Before(e)
  /\ pub.at \in {"backup", "publish"} =>
       \A d \in Dir : d < pub.i => dir[d].version = loaded[Head(chain)]

\* Before its admission a consumer has read nothing, and what it has read under
\* the lease is what is live.
UnderLease(c) ==
  /\ \A x, y \in seen[c] : x.version = y.version
  /\ status[c] = "admitted" => \A x \in seen[c] : \A d \in Dir : x.version = dir[d].version
Served ==
  \A c \in Consumer :
    /\ status[c] \in {"idle", "waiting"} => seen[c] = {}
    /\ c \notin Root => UnderLease(c)

CatalogInv == TypeInv /\ LeaseInv /\ Busy /\ Undecided /\ Whole /\ Served

\* An operation stays where it is, or its wait is over.
GetsIn(o) == status'[o] = status[o] \/ (status[o] = "waiting" /\ status'[o] = "admitted")

\* Whoever asks waits or gets in, and of the others only those who wait get in.
LEMMA AcquireAdmits ==
  ASSUME LeaseInv, NEW op \in Op, Acquire(op)
  PROVE  /\ status[op] = "idle" /\ status'[op] \in {"waiting", "admitted"}
         /\ \A o \in Op \ {op} : GetsIn(o)
<1> DEFINE k == KeyOf[op]
           e == [entry[k] EXCEPT !.waiters = Append(@, op)]
           st == [status EXCEPT ![op] = "waiting"]
<1>1. /\ k \in Key /\ entry[k] \in Entry /\ Accounts(k, entry[k], status)
      /\ Drain(k, e, st) /\ status \in [Op -> Statuses] /\ status[op] = "idle"
      /\ Queue(k, entry[k])
  BY LeaseAssumption DEF Acquire, LeaseInv, LeaseTypeOK, Statuses, Tidy
<1>2. entry[k].waiters \in Seq(Op) /\ e.waiters = Append(entry[k].waiters, op)
  BY <1>1 DEF Entry
<1>3. \A i \in 1 .. Len(e.waiters) : e.waiters[i] # op => status[e.waiters[i]] = "waiting"
  <2> DEFINE w == entry[k].waiters
  <2>1. /\ \A i \in 1 .. Len(w) : KeyOf[w[i]] = k /\ w[i] \in Op
        /\ \A o \in Op : KeyOf[o] = k /\ (\E i \in 1 .. Len(w) : w[i] = o)
                          => status[o] = "waiting"
    BY <1>1, <1>2 DEF Accounts, Queue
  <2>2. w \in Seq(Op) /\ e.waiters = Append(w, op) BY <1>2
  <2> HIDE DEF w, e
  <2> QED BY <2>1, <2>2
<1>4. st \in [Op -> Statuses] /\ st[op] = "waiting"
      /\ \A o \in Op \ {op} : st[o] = status[o]
  BY <1>1 DEF Statuses
<1>5. e.waiters \in Seq(Op) BY <1>2
<1> HIDE DEF e, st
<1>6. \A o \in Op : \/ status'[o] = st[o]
                    \/ status'[o] = "admitted" /\ \E i \in 1 .. Len(e.waiters) : e.waiters[i] = o
  BY <1>1, <1>5, DrainAdmits
<1> QED BY <1>1, <1>3, <1>4, <1>6 DEF GetsIn

\* Whoever leaves has settled, and of the others only those who wait get in.
LEMMA ReleaseAdmits ==
  ASSUME LeaseInv, NEW op \in Op, Release(op)
  PROVE  /\ status[op] = "admitted" /\ status'[op] = "settled"
         /\ \A o \in Op \ {op} : GetsIn(o)
<1> DEFINE k == KeyOf[op]
           e == [entry[k] EXCEPT !.readers = @ \ {op}, !.writer = IF @ = op THEN None ELSE @]
           st == [status EXCEPT ![op] = "settled"]
<1>1. /\ k \in Key /\ entry[k] \in Entry /\ Accounts(k, entry[k], status)
      /\ Drain(k, e, st) /\ status \in [Op -> Statuses] /\ status[op] = "admitted"
      /\ Queue(k, entry[k])
  BY LeaseAssumption DEF Release, LeaseInv, LeaseTypeOK, Statuses, Tidy
<1>2. e.waiters \in Seq(Op) /\ e.waiters = entry[k].waiters
  BY <1>1 DEF Entry
<1>3. \A i \in 1 .. Len(e.waiters) : status[e.waiters[i]] = "waiting"
  <2>1. \A i \in 1 .. Len(e.waiters) : KeyOf[e.waiters[i]] = k /\ e.waiters[i] \in Op
    BY <1>1, <1>2 DEF Queue
  <2> QED BY <1>1, <1>2, <2>1 DEF Accounts
<1>4. st \in [Op -> Statuses] /\ st[op] = "settled"
      /\ \A o \in Op \ {op} : st[o] = status[o]
  BY <1>1 DEF Statuses
<1> HIDE DEF e, st
<1>5. \A o \in Op : \/ status'[o] = st[o]
                    \/ status'[o] = "admitted" /\ \E i \in 1 .. Len(e.waiters) : e.waiters[i] = o
  <2>1. k \in Key /\ Drain(k, e, st) /\ e.waiters \in Seq(Op) BY <1>1, <1>2
  <2> HIDE DEF k
  <2> QED BY <2>1, DrainAdmits
<1> QED BY <1>1, <1>3, <1>4, <1>5 DEF GetsIn

\* Whoever publishes keeps the consumers out.
LEMMA PublisherAlone ==
  ASSUME CatalogInv, NEW r \in Refresh, status[r] = "admitted", NEW c \in Consumer
  PROVE  status[c] # "admitted"
<1>1. Exclusion BY BooksGiveExclusion DEF CatalogInv
<1>2. r \in Writer /\ r \in Op /\ c \in Op /\ c \notin Writer /\ KeyOf[r] = KeyOf[c]
  BY CatalogAssumption, LeaseAssumption
<1> QED BY <1>1, <1>2 DEF Exclusion

\* One operation asks for the lease or leaves it, and others get in.
Moves(op) ==
  /\ \/ status[op] = "idle" /\ status'[op] \in {"waiting", "admitted", "refused"}
     \/ status[op] = "admitted" /\ status'[op] = "settled"
  /\ \A o \in Op \ {op} : GetsIn(o)

\* Every use of the lease is such a move.
LEMMA LeaseMoves ==
  ASSUME CatalogInv, NEW op \in Op, Acquire(op) \/ Refuse(op) \/ Release(op)
  PROVE  Moves(op)
<1>1. CASE Acquire(op) BY <1>1, AcquireAdmits DEF CatalogInv, Moves
<1>2. CASE Release(op) BY <1>2, ReleaseAdmits DEF CatalogInv, Moves
<1>3. CASE Refuse(op)
  BY <1>3 DEF Refuse, Moves, GetsIn, CatalogInv, LeaseInv, LeaseTypeOK
<1> QED BY <1>1, <1>2, <1>3

\* Neither an admission nor a departure shows a consumer anything.
LEMMA MovesKeepServed ==
  ASSUME CatalogInv, NEW op \in Op, Moves(op), UNCHANGED <<dir, seen>>
  PROVE  Served'
<1> SUFFICES ASSUME NEW c \in Consumer
             PROVE  /\ status'[c] \in {"idle", "waiting"} => seen[c] = {}
                    /\ c \notin Root =>
                         /\ \A x, y \in seen[c] : x.version = y.version
                         /\ status'[c] = "admitted" =>
                              \A x \in seen[c] : \A d \in Dir : x.version = dir[d].version
  BY DEF Served, UnderLease
<1>1. c \in Op BY CatalogAssumption
<1> QED BY <1>1 DEF CatalogInv, Served, UnderLease, Moves, GetsIn

\* What an operation that is no refresh does to the lease.
LEMMA OthersKeepInv ==
  ASSUME CatalogInv, NEW op \in Op \ Refresh, Acquire(op) \/ Refuse(op) \/ Release(op),
         UNCHANGED catalogVars
  PROVE  Busy' /\ Undecided' /\ Whole' /\ Served'
<1>1. Moves(op) BY LeaseMoves
<1>2. UNCHANGED <<chain, pub, loaded, outcome, dir, backup, seen>> BY DEF catalogVars
<1>3. Refresh \subseteq Op /\ chain \in Seq(Refresh)
  BY CatalogAssumption, LeaseAssumption DEF CatalogInv, TypeInv, TypeOK
<1>4. chain # <<>> => Head(chain) \in Refresh BY <1>3
<1>5. Busy' BY <1>1, <1>2, <1>3, <1>4 DEF CatalogInv, Busy, Moves, GetsIn
<1>6. Undecided' BY <1>1, <1>2, <1>3 DEF CatalogInv, Undecided, Moves, GetsIn
<1>7. Whole' BY <1>2 DEF CatalogInv, Whole, Before, MovedAway
<1>8. Served' BY <1>1, <1>2, MovesKeepServed
<1> QED BY <1>5, <1>6, <1>7, <1>8

\* The steps of a publication.
LEMMA PublicationKeepsInv ==
  ASSUME CatalogInv, NEW r \in Refresh,
         \/ Stage(r) \/ MoveAway(r) \/ MoveIn(r) \/ PutBack(r)
         \/ Unpublish(r) \/ Restore(r) \/ CleanUp(r)
  PROVE  Busy' /\ Undecided' /\ Whole' /\ Served'
<1>1. UNCHANGED <<status, chain, loaded, outcome, seen>>
  BY DEF Stage, MoveAway, MoveIn, PutBack, Unpublish, Restore, CleanUp, leaseVars
<1>2. chain # <<>> /\ Head(chain) = r /\ status[r] = "admitted"
  BY DEF Stage, MoveAway, MoveIn, PutBack, Unpublish, Restore, CleanUp, Publishing, Current
<1>3. Busy' BY <1>1, <1>2 DEF Busy
<1>4. Undecided' BY <1>1 DEF CatalogInv, Undecided
<1>5. Served' BY <1>1, <1>2, PublisherAlone DEF CatalogInv, Served, UnderLease
<1>6. /\ dir \in [Dir -> Content] /\ backup \in [Dir -> Content] /\ InPlace(pub)
      /\ Whole
  BY DEF CatalogInv, TypeInv, TypeOK
<1>7. pub.i \in 0 .. 3 BY <1>6 DEF InPlace
<1>8. Whole'
  <2> USE <1>1, <1>2, <1>6, <1>7 DEF Whole, Before, MovedAway, Dir
  <2>1. CASE Stage(r)
    BY <2>1 DEF Stage, Publishing
  <2>2. CASE MoveAway(r)
    <3>1. pub.at = "backup" /\ pub.i \in Dir
      BY <2>2 DEF MoveAway, Publishing, InPlace, OnDirectory
    <3>2. CASE pub' = [pub EXCEPT !.at = "publish"]
      <4>1. pub'.at = "publish" /\ pub'.i = pub.i BY <3>2 DEF InPlace
      <4>2. /\ backup' = [backup EXCEPT ![pub.i] = dir[pub.i]]
            /\ dir' = [dir EXCEPT ![pub.i] = Missing]
        BY <2>2, <4>1, <3>1 DEF MoveAway, InPlace
      <4>3. \A d \in Dir : Before(d)' = Before(d) BY <3>1, <4>1, <4>2
      <4>4. \A d \in Dir : d < pub.i => dir'[d] = dir[d] BY <4>2
      <4> QED BY <3>1, <4>1, <4>3, <4>4
    <3>3. CASE pub' = [pub EXCEPT !.at = "unpublish", !.i = @ - 1] /\ UNCHANGED <<dir, backup>>
      <4>1. pub'.at = "unpublish" /\ pub'.i = pub.i - 1 BY <3>3 DEF InPlace
      <4>2. \A d \in Dir : Before(d)' = Before(d) BY <3>1, <3>3, <4>1
      <4> QED BY <4>1, <4>2
    <3> QED BY <2>2, <3>2, <3>3 DEF MoveAway
  <2>3. CASE MoveIn(r)
    <3>1. pub.at = "publish" /\ pub.i \in Dir /\ backup' = backup
      BY <2>3 DEF MoveIn, Publishing, InPlace, OnDirectory
    <3>2. CASE dir' = [dir EXCEPT ![pub.i] = Staged(r, pub.i)]
               /\ pub' = IF pub.i = Agents THEN [pub EXCEPT !.at = "cleanup"]
                         ELSE [pub EXCEPT !.at = "backup", !.i = @ + 1]
      <4>1. \A d \in Dir : d <= pub.i => dir'[d].version = loaded[r]
        BY <3>1, <3>2 DEF Staged
      <4>2. \A d \in Dir : d > pub.i => dir'[d] = dir[d] BY <3>2
      <4>3. CASE pub.i = 3
        <5>1. pub'.at = "cleanup" BY <3>2, <4>3 DEF Agents, InPlace
        <5> QED BY <4>1, <4>3, <5>1
      <4>4. CASE pub.i # 3
        <5>1. pub'.at = "backup" /\ pub'.i = pub.i + 1 BY <3>2, <4>4 DEF Agents, InPlace
        <5>2. \A d \in Dir : Before(d)' = Before(d) BY <3>1, <4>2, <5>1
        <5> QED BY <4>1, <5>1, <5>2
      <4> QED BY <4>3, <4>4
    <3>3. CASE pub' = [pub EXCEPT !.at = "putback"] /\ dir' = dir
      <4>1. pub'.at = "putback" /\ pub'.i = pub.i BY <3>3 DEF InPlace
      <4> QED BY <3>1, <3>3, <4>1
    <3> QED BY <2>3, <3>2, <3>3 DEF MoveIn
  <2>4. CASE PutBack(r)
    BY <2>4 DEF PutBack, Publishing
  <2>5. CASE Unpublish(r)
    <3>1. pub.at = "unpublish" /\ backup' = backup BY <2>5 DEF Unpublish, Publishing
    <3>2. CASE pub.i = 0
      <4>1. pub'.at = "failed" /\ dir' = dir BY <2>5, <3>2 DEF Unpublish, InPlace
      <4> QED BY <3>1, <3>2, <4>1
    <3>3. CASE pub.i # 0
      <4>1. pub'.at = "restore" /\ pub'.i = pub.i BY <2>5, <3>3 DEF Unpublish, InPlace
      <4>2. dir' = [dir EXCEPT ![pub.i] = Missing] BY <2>5, <3>3 DEF Unpublish
      <4> QED BY <3>1, <4>1, <4>2
    <3> QED BY <3>2, <3>3
  <2>6. CASE Restore(r)
    BY <2>6 DEF Restore, Publishing
  <2>7. CASE CleanUp(r)
    BY <2>7 DEF CleanUp, Publishing
  <2> QED BY <2>1, <2>2, <2>3, <2>4, <2>5, <2>6, <2>7
<1> QED BY <1>3, <1>4, <1>5, <1>8

\* The other steps of a refresh.
LEMMA RefreshKeepsInv ==
  ASSUME CatalogInv, NEW r \in Refresh,
         Request(r) \/ Load(r) \/ AskLease(r) \/ ReleasePublisher(r) \/ Finish(r)
  PROVE  Busy' /\ Undecided' /\ Whole' /\ Served'
<1>1. /\ Busy /\ Undecided /\ Whole /\ Served /\ LeaseInv /\ r \in Op
      /\ chain \in Seq(Refresh) /\ outcome \in [Refresh -> {"none", "ok", "failed"}]
      /\ loaded \in [Refresh -> 0 .. MaxVersion] /\ InPlace(pub)
  BY CatalogAssumption, LeaseAssumption DEF CatalogInv, TypeInv, TypeOK
<1>2. Refresh \subseteq Op BY CatalogAssumption, LeaseAssumption
<1>3. CASE Request(r)
  <2>1. /\ UNCHANGED <<status, loaded, outcome, dir, backup, pub, seen>>
        /\ chain' = Append(chain, r)
    BY <1>3 DEF Request, leaseVars
  <2>2. chain' # <<>> /\ (chain # <<>> => Head(chain') = Head(chain)) BY <1>1, <2>1
  <2>3. Busy' BY <1>1, <2>1, <2>2 DEF Busy
  <2>4. Whole' BY <1>1, <2>1, <2>2 DEF Busy, Whole, Before, MovedAway
  <2>5. Undecided' /\ Served' BY <1>1, <2>1 DEF Undecided, Served, UnderLease
  <2> QED BY <2>3, <2>4, <2>5
<1>4. CASE Load(r)
  <2>1. /\ UNCHANGED <<status, chain, dir, backup, pub, seen>>
        /\ Head(chain) = r /\ loaded[r] = 0 /\ outcome[r] = "none"
        /\ \/ loaded' = [loaded EXCEPT ![r] = version] /\ outcome' = outcome
           \/ loaded' = loaded /\ outcome' = [outcome EXCEPT ![r] = "failed"]
    BY <1>4 DEF Load, Current, Ends, leaseVars
  <2>2. status[r] \notin {"waiting", "admitted"} BY <1>1, <2>1 DEF Undecided
  <2>3. pub.at = "idle" BY <1>1, <2>1, <2>2 DEF Busy
  <2>4. Busy' /\ Whole' BY <1>1, <2>1, <2>3 DEF Busy, Whole, Before, MovedAway
  <2>5. Undecided' BY <1>1, <2>1, <2>2 DEF Undecided
  <2>6. Served' BY <1>1, <2>1 DEF Served, UnderLease
  <2> QED BY <2>4, <2>5, <2>6
<1>5. CASE AskLease(r)
  <2>1. /\ UNCHANGED <<chain, loaded, dir, backup, pub, seen>>
        /\ Head(chain) = r /\ loaded[r] # 0
        /\ \/ outcome' = outcome
           \/ Refuse(r) /\ outcome' = [outcome EXCEPT ![r] = "failed"]
    BY <1>5 DEF AskLease, Current, Ends
  <2>2. Moves(r) BY <1>1, <1>5, LeaseMoves DEF AskLease
  <2>3. status[r] = "idle" /\ (Refuse(r) => status'[r] = "refused")
    <3>1. status[r] = "idle" BY <1>5 DEF AskLease, Acquire, Refuse
    <3>2. status \in [Op -> Statuses] BY <1>1 DEF LeaseInv, LeaseTypeOK, Statuses
    <3> QED BY <1>1, <3>1, <3>2 DEF Refuse
  <2>4. pub.at = "idle" BY <1>1, <2>1, <2>3 DEF Busy
  <2>5. Busy' /\ Whole' BY <1>1, <2>1, <2>4 DEF Busy, Whole, Before, MovedAway
  <2>6. Undecided'
    <3> SUFFICES ASSUME NEW q \in Refresh
                 PROVE  /\ status'[q] \in {"waiting", "admitted"}
                             => loaded[q] # 0 /\ outcome'[q] = "none"
                        /\ status'[q] = "idle" /\ loaded[q] # 0 => outcome'[q] = "none"
      BY <2>1 DEF Undecided
    <3>1. CASE q = r BY <1>1, <2>1, <2>2, <2>3, <3>1 DEF Undecided, Moves
    <3>2. CASE q # r
      <4>1. outcome'[q] = outcome[q] BY <1>1, <2>1, <3>2
      <4>2. GetsIn(q) BY <1>2, <2>2, <3>2 DEF Moves
      <4> QED BY <1>1, <4>1, <4>2 DEF Undecided, GetsIn
    <3> QED BY <3>1, <3>2
  <2>7. Served' BY <1>1, <2>1, <2>2, MovesKeepServed
  <2> QED BY <2>5, <2>6, <2>7
<1>6. CASE ReleasePublisher(r)
  <2>1. /\ UNCHANGED <<chain, loaded, dir, backup, seen>> /\ pub' = IdlePub
        /\ pub.at \in {"idle", "failed", "done"}
        /\ \A q \in Refresh \ {r} : outcome'[q] = outcome[q]
    BY <1>1, <1>6 DEF ReleasePublisher, Publishing, Ends
  <2>2. Moves(r) /\ status'[r] = "settled"
    BY <1>1, <1>6, LeaseMoves, ReleaseAdmits DEF ReleasePublisher
  <2>3. Busy' /\ Whole'
    BY <1>1, <2>1 DEF Busy, Whole, Before, MovedAway, IdlePub
  <2>4. Undecided' BY <1>1, <1>2, <2>1, <2>2 DEF Undecided, Moves, GetsIn
  <2>5. Served' BY <1>1, <2>1, <2>2, MovesKeepServed
  <2> QED BY <2>3, <2>4, <2>5
<1>7. CASE Finish(r)
  <2>1. /\ UNCHANGED <<status, loaded, outcome, dir, backup, pub, seen>>
        /\ Head(chain) = r /\ outcome[r] # "none"
    BY <1>7 DEF Finish, Current, leaseVars
  <2>2. pub.at = "idle" BY <1>1, <2>1 DEF Busy, Undecided
  <2>3. Busy' /\ Whole' BY <1>1, <2>1, <2>2 DEF Busy, Whole, Before, MovedAway
  <2>4. Undecided' /\ Served' BY <1>1, <2>1 DEF Undecided, Served, UnderLease
  <2> QED BY <2>3, <2>4
<1> QED BY <1>3, <1>4, <1>5, <1>6, <1>7

\* A consumer reads, a user's template is written.
LEMMA UseKeepsInv ==
  ASSUME CatalogInv,
         \/ \E c \in Consumer, d \in Dir : Consume(c, d)
         \/ \E s \in Save : WriteTemplate(s)
  PROVE  Busy' /\ Undecided' /\ Whole' /\ Served'
<1>1. /\ Busy /\ Undecided /\ Whole /\ Served
      /\ dir \in [Dir -> Content] /\ InPlace(pub)
      /\ seen \in [Consumer -> SUBSET [dir : Dir, version : Nat]]
  BY DEF CatalogInv, TypeInv, TypeOK
<1>2. UNCHANGED <<status, chain, loaded, outcome, backup, pub>>
  BY DEF Consume, WriteTemplate, leaseVars
<1>3. Busy' /\ Undecided' BY <1>1, <1>2 DEF Busy, Undecided
<1>4. ASSUME NEW c \in Consumer, NEW d \in Dir, Consume(c, d) PROVE Whole' /\ Served'
  <2>1. /\ dir' = dir /\ status[c] \notin {"idle", "waiting"}
        /\ seen' = [seen EXCEPT ![c] = @ \cup {[dir |-> d, version |-> dir[d].version]}]
    BY <1>4 DEF Consume
  <2>2. Whole' BY <1>1, <1>2, <2>1 DEF Whole, Before, MovedAway
  <2>3. \A b \in Consumer \ {c} : seen'[b] = seen[b] BY <1>1, <2>1
  <2>4. c \notin Root => UnderLease(c)'
    <3> SUFFICES ASSUME c \notin Root PROVE UnderLease(c)' OBVIOUS
    <3>1. status[c] = "admitted" BY <1>4 DEF Consume
    <3>2. pub.at = "idle"
      <4> SUFFICES ASSUME pub.at # "idle" PROVE FALSE OBVIOUS
      <4>1. chain \in Seq(Refresh) BY DEF CatalogInv, TypeInv, TypeOK
      <4>2. Head(chain) \in Refresh /\ status[Head(chain)] = "admitted"
        BY <1>1, <4>1 DEF Busy
      <4> QED BY <3>1, <4>2, PublisherAlone
    <3>3. \A e \in Dir : dir[d].version = dir[e].version
      BY <1>1, <3>2 DEF Whole, Before, MovedAway
    <3>4. \A x \in seen'[c] : \A e \in Dir : x.version = dir[e].version
      BY <1>1, <2>1, <3>1, <3>3 DEF Served, UnderLease
    <3>5. \A x, y \in seen'[c] : x.version = y.version BY <3>4
    <3> QED BY <2>1, <3>4, <3>5 DEF UnderLease
  <2>5. Served' BY <1>1, <1>2, <2>1, <2>3, <2>4 DEF Served, UnderLease
  <2> QED BY <2>2, <2>5
<1>5. ASSUME NEW s \in Save, WriteTemplate(s) PROVE Whole' /\ Served'
  <2>1. seen' = seen /\ dir' = [dir EXCEPT ![Teams].own = @ \cup {s}]
    BY <1>5 DEF WriteTemplate
  <2>2. \A d \in Dir : dir'[d].version = dir[d].version
    BY <1>1, <2>1 DEF Content, Dir, Teams
  <2>3. Whole' BY <1>1, <1>2, <2>2 DEF Whole, Before, MovedAway
  <2>4. Served' BY <1>1, <1>2, <2>1, <2>2 DEF Served, UnderLease
  <2> QED BY <2>3, <2>4
<1> QED BY <1>3, <1>4, <1>5

\* Without restarts every step keeps the invariant.
LEMMA SteadyKeepsInv == ASSUME CatalogInv, [Steady]_vars PROVE CatalogInv'
<1>1. LeaseInv' BY NextKeepsLeaseInv DEF CatalogInv, Next
<1>2. TypeInv' BY <1>1, NextKeepsTypes DEF CatalogInv, Next
<1>3. SUFFICES Busy' /\ Undecided' /\ Whole' /\ Served' BY <1>1, <1>2 DEF CatalogInv
<1>4. CASE BackendChanges \/ Dispose \/ CloseLease \/ UNCHANGED vars
  <2>1. UNCHANGED <<status, chain, loaded, outcome, dir, backup, pub, seen>>
    BY <1>4
    DEF BackendChanges, Dispose, CloseLease, Close, leaseVars, catalogVars, vars
  <2> QED BY <2>1 DEF CatalogInv, Busy, Undecided, Whole, Before, MovedAway, Served, UnderLease
<1>6. ASSUME NEW r \in Refresh, Request(r) \/ Publisher(r)
      PROVE  Busy' /\ Undecided' /\ Whole' /\ Served'
  BY <1>6, RefreshKeepsInv, PublicationKeepsInv DEF Publisher, CatalogInv
<1>7. ASSUME NEW op \in Op \ Refresh, Acquire(op) \/ Refuse(op) \/ Release(op),
             UNCHANGED catalogVars
      PROVE  Busy' /\ Undecided' /\ Whole' /\ Served'
  BY <1>7, OthersKeepInv
<1>8. Consumer \subseteq Op \ Refresh /\ Save \subseteq Op \ Refresh
      /\ Foreign \subseteq Op \ Refresh
  BY CatalogAssumption, LeaseAssumption DEF Foreign
<1>9. ASSUME NEW c \in Consumer, AskConsumer(c)
      PROVE  Busy' /\ Undecided' /\ Whole' /\ Served'
  BY <1>7, <1>8, <1>9 DEF AskConsumer
<1>10. ASSUME NEW s \in Save, AskSave(s)
       PROVE  Busy' /\ Undecided' /\ Whole' /\ Served'
  BY <1>7, <1>8, <1>10 DEF AskSave
<1>11. ASSUME NEW o \in Op \ Refresh, Leave(o)
       PROVE  Busy' /\ Undecided' /\ Whole' /\ Served'
  BY <1>7, <1>11 DEF Leave
<1>12. ASSUME NEW o \in Foreign, AskForeign(o)
       PROVE  Busy' /\ Undecided' /\ Whole' /\ Served'
  BY <1>7, <1>8, <1>12 DEF AskForeign
<1>13. CASE \/ \E c \in Consumer, d \in Dir : Consume(c, d)
            \/ \E s \in Save : WriteTemplate(s)
  BY <1>13, UseKeepsInv
<1> QED BY <1>4, <1>6, <1>9, <1>10, <1>11, <1>12, <1>13 DEF Steady

--------------------------------------------------------------------------------
(* Freshness, the saved templates and the atomic catalog.  Without restarts. *)

\* What stands for directory d as long as the publication is not over, and how
\* far the publication has come with it.
Replaced(d) == IF MovedAway(d) THEN backup[d] ELSE dir[d]
Installed(d) ==
  \/ pub.at \in {"backup", "publish", "putback", "restore"} /\ d < pub.i
  \/ pub.at = "unpublish" /\ d <= pub.i
  \/ pub.at = "cleanup"
Removed(d) == pub.at \in {"publish", "putback", "restore"} /\ d = pub.i
Swapped ==
  /\ \A d \in Dir :
       /\ Installed(d) => dir[d] = Staged(Head(chain), d)
       /\ Removed(d) => dir[d] = Missing
       /\ ~MovedAway(d) /\ pub.at # "cleanup" => backup[d] = Missing
  /\ pub.at \in {"unpublish", "restore"} => pub.i # Agents

\* The templates saved so far are in the catalog, and in the stage.
Kept == saved = Replaced(Teams).own /\ (pub.at # "idle" => saved = pub.own)

\* Of the refreshes accepted and not settled only the first has loaded.
OneByOne ==
  /\ \A i, j \in 1 .. Len(chain) : chain[i] = chain[j] => i = j
  /\ \A i \in 1 .. Len(chain) : asked[chain[i]] # 0 /\ (i # 1 => loaded[chain[i]] = 0)
  /\ \A r \in Refresh : asked[r] = 0 => loaded[r] = 0 /\ outcome[r] = "none"

\* What a refresh loads is no older than its request and what is published.
Newer ==
  /\ \A r \in Refresh : /\ asked[r] <= version /\ loaded[r] <= version
                        /\ loaded[r] # 0 => asked[r] <= loaded[r]
  /\ \A d \in Dir : Before(d) <= version
  /\ chain # <<>> /\ loaded[Head(chain)] # 0
       => \A d \in Dir : Before(d) <= loaded[Head(chain)]

\* A refresh that has succeeded has published what was asked of it, and whoever
\* waits for it asks for the lease only after it is decided, or never to be.
Fresh ==
  /\ \A r \in Refresh : outcome[r] = "ok" => \A d \in Dir : asked[r] <= Before(d)
  /\ pub.at \in {"cleanup", "done"}
       => \A d \in Dir : dir[d].version = loaded[Head(chain)]
  /\ \A c \in Consumer : status[c] # "idle" /\ RefreshOf[c] # None =>
       outcome[RefreshOf[c]] # "none" \/ (~accepting /\ asked[RefreshOf[c]] = 0)

Regular == Swapped /\ Kept /\ OneByOne /\ Newer /\ Fresh /\ InstantiationIsFresh

\* One step of publishDirectories moves it on and touches one directory.
Goes(at, to, i) == pub.at = at /\ pub'.at = to /\ pub'.i = i /\ pub'.own = pub.own
LEMMA PublicationShape ==
  ASSUME TypeInv, NEW r \in Refresh,
         \/ Stage(r) \/ MoveAway(r) \/ MoveIn(r) \/ PutBack(r)
         \/ Unpublish(r) \/ Restore(r) \/ CleanUp(r)
  PROVE  \/ /\ pub.at = "idle" /\ pub'.at = "backup" /\ pub'.i = 1
            /\ pub'.own = dir[Teams].own /\ UNCHANGED <<dir, backup>>
         \/ /\ pub.i \in Dir /\ Goes("backup", "publish", pub.i)
            /\ backup' = [backup EXCEPT ![pub.i] = dir[pub.i]]
            /\ dir' = [dir EXCEPT ![pub.i] = Missing]
         \/ /\ pub.i \in Dir /\ Goes("backup", "unpublish", pub.i - 1)
            /\ UNCHANGED <<dir, backup>>
         \/ /\ pub.i = 3 /\ Goes("publish", "cleanup", pub.i) /\ backup' = backup
            /\ dir' = [dir EXCEPT ![pub.i] = Staged(r, pub.i)]
         \/ /\ pub.i \in {1, 2} /\ Goes("publish", "backup", pub.i + 1)
            /\ backup' = backup /\ dir' = [dir EXCEPT ![pub.i] = Staged(r, pub.i)]
         \/ pub.i \in Dir /\ Goes("publish", "putback", pub.i) /\ UNCHANGED <<dir, backup>>
         \/ /\ pub.i \in Dir
            /\ Goes("putback", "unpublish", pub.i - 1) \/ Goes("restore", "unpublish", pub.i - 1)
            /\ dir' = [dir EXCEPT ![pub.i] = backup[pub.i]]
            /\ backup' = [backup EXCEPT ![pub.i] = Missing]
         \/ pub.i = 0 /\ Goes("unpublish", "failed", 0) /\ UNCHANGED <<dir, backup>>
         \/ /\ pub.i \in Dir /\ Goes("unpublish", "restore", pub.i)
            /\ dir' = [dir EXCEPT ![pub.i] = Missing] /\ backup' = backup
         \/ /\ Goes("cleanup", "done", pub.i) /\ dir' = dir
            /\ backup' = [d \in Dir |-> Missing]
<1>1. InPlace(pub) /\ pub \in [at : Places, i : 0 .. 3, own : SUBSET Save]
  BY DEF TypeInv, InPlace
<1>2. /\ \A at : LET p == [pub EXCEPT !.at = at] IN p.at = at /\ p.i = pub.i /\ p.own = pub.own
      /\ \A at : LET p == [pub EXCEPT !.at = at, !.i = @ - 1]
                 IN  p.at = at /\ p.i = pub.i - 1 /\ p.own = pub.own
      /\ \A at : LET p == [pub EXCEPT !.at = at, !.i = @ + 1]
                 IN  p.at = at /\ p.i = pub.i + 1 /\ p.own = pub.own
  BY <1>1
<1>3. pub.i \in 0 .. 3 /\ (pub.at \in OnDirectory => pub.i \in Dir) BY <1>1 DEF InPlace
<1>4. CASE Stage(r) BY <1>4 DEF Stage, Publishing
<1>5. CASE MoveAway(r)
  <2>1. pub.at = "backup" /\ pub.i \in Dir
    BY <1>3, <1>5 DEF MoveAway, Publishing, OnDirectory
  <2>2. CASE pub' = [pub EXCEPT !.at = "publish"]
    <3>1. Goes("backup", "publish", pub.i) BY <1>2, <2>1, <2>2 DEF Goes
    <3> QED BY <1>2, <1>5, <2>1, <2>2, <3>1 DEF MoveAway
  <2>3. CASE pub' = [pub EXCEPT !.at = "unpublish", !.i = @ - 1]
    <3>1. Goes("backup", "unpublish", pub.i - 1) BY <1>2, <2>1, <2>3 DEF Goes
    <3>2. pub'.at = "unpublish" BY <3>1 DEF Goes
    <3>3. UNCHANGED <<dir, backup>> BY <1>2, <1>5, <3>2 DEF MoveAway
    <3> QED BY <2>1, <3>1, <3>3
  <2> QED BY <1>5, <2>2, <2>3 DEF MoveAway
<1>6. CASE MoveIn(r)
  <2>1. pub.at = "publish" /\ pub.i \in Dir
    BY <1>3, <1>6 DEF MoveIn, Publishing, OnDirectory
  <2>2. pub.i # 3 => pub.i \in {1, 2} BY <2>1 DEF Dir
  <2>3. CASE pub' = [pub EXCEPT !.at = "putback"] /\ dir' = dir
    <3>1. Goes("publish", "putback", pub.i) BY <1>2, <2>1, <2>3 DEF Goes
    <3> QED BY <1>6, <2>1, <2>3, <3>1 DEF MoveIn
  <2>4. CASE /\ dir' = [dir EXCEPT ![pub.i] = Staged(r, pub.i)]
             /\ pub' = IF pub.i = Agents THEN [pub EXCEPT !.at = "cleanup"]
                                         ELSE [pub EXCEPT !.at = "backup", !.i = @ + 1]
    <3>1. CASE pub.i = 3
      <4>1. Goes("publish", "cleanup", pub.i) BY <1>2, <2>1, <2>4, <3>1 DEF Goes, Agents
      <4> QED BY <1>6, <2>1, <2>4, <3>1, <4>1 DEF MoveIn
    <3>2. CASE pub.i # 3
      <4>1. Goes("publish", "backup", pub.i + 1) BY <1>2, <2>1, <2>4, <3>2 DEF Goes, Agents
      <4> QED BY <1>6, <2>2, <2>4, <3>2, <4>1 DEF MoveIn
    <3> QED BY <3>1, <3>2
  <2> QED BY <1>6, <2>3, <2>4 DEF MoveIn
<1>7. CASE PutBack(r)
  <2>1. Goes("putback", "unpublish", pub.i - 1) BY <1>2, <1>7 DEF PutBack, Publishing, Goes
  <2> QED BY <1>3, <1>7, <2>1 DEF PutBack, Publishing, OnDirectory
<1>8. CASE Restore(r)
  <2>1. Goes("restore", "unpublish", pub.i - 1) BY <1>2, <1>8 DEF Restore, Publishing, Goes
  <2> QED BY <1>3, <1>8, <2>1 DEF Restore, Publishing, OnDirectory
<1>9. CASE Unpublish(r)
  <2>1. pub.at = "unpublish" /\ backup' = backup BY <1>9 DEF Unpublish, Publishing
  <2>2. CASE pub.i = 0
    <3>1. Goes("unpublish", "failed", 0)
      BY <1>2, <1>9, <2>1, <2>2, ZenonT(30) DEF Unpublish, Goes
    <3> QED BY <1>9, <2>1, <2>2, <3>1 DEF Unpublish
  <2>3. CASE pub.i # 0
    <3>1. pub.i \in Dir BY <1>3, <2>3 DEF Dir
    <3>2. pub' = [pub EXCEPT !.at = "restore"] BY <1>9, <2>3 DEF Unpublish
    <3>3. Goes("unpublish", "restore", pub.i) BY <1>2, <2>1, <3>2 DEF Goes
    <3> QED BY <1>9, <2>1, <2>3, <3>1, <3>3 DEF Unpublish
  <2> QED BY <2>2, <2>3
<1>10. CASE CleanUp(r)
  <2>1. Goes("cleanup", "done", pub.i) BY <1>2, <1>10 DEF CleanUp, Publishing, Goes
  <2> QED BY <1>10, <2>1 DEF CleanUp
<1> QED BY <1>4, <1>5, <1>6, <1>7, <1>8, <1>9, <1>10
\* The generation in force is kept or replaced by what the refresh has loaded.
Replaces(r) == \A d \in Dir : Before(d)' = Before(d) \/ Before(d)' = loaded[r]

\* The steps of a publication, where they touch the directories ...
LEMMA PublicationKeepsPlaces ==
  ASSUME CatalogInv, Swapped, Kept, Fresh, NEW r \in Refresh,
         \/ Stage(r) \/ MoveAway(r) \/ MoveIn(r) \/ PutBack(r)
         \/ Unpublish(r) \/ Restore(r) \/ CleanUp(r)
  PROVE  /\ Swapped' /\ Kept' /\ Replaces(r)
         /\ pub'.at \in {"cleanup", "done"}
              => \A d \in Dir : dir'[d].version = loaded'[Head(chain')]
<1>1. UNCHANGED <<chain, loaded, saved>>
  BY DEF Stage, MoveAway, MoveIn, PutBack, Unpublish, Restore, CleanUp
<1>2. chain # <<>> /\ Head(chain) = r
  BY DEF Stage, MoveAway, MoveIn, PutBack, Unpublish, Restore, CleanUp, Publishing, Current
<1>3. /\ dir \in [Dir -> Content] /\ backup \in [Dir -> Content]
      /\ pub \in [at : Places, i : 0 .. 3, own : SUBSET Save]
  BY DEF CatalogInv, TypeInv, TypeOK, InPlace
<1>4. pub.i \in 0 .. 3 BY <1>3
<1>5. /\ \A d \in Dir : Staged(r, d).version = loaded[r]
      /\ Staged(r, Teams).own = pub.own
      /\ pub'.own = pub.own => \A d \in Dir : Staged(r, d)' = Staged(r, d)
  BY <1>1 DEF Staged
<1> USE <1>1, <1>2, <1>3, <1>4, <1>5
    DEF Swapped, Kept, Fresh, Installed, Removed, Replaced, Before, MovedAway, Replaces,
        Goes, Dir, Teams, Agents
<1>6. CASE /\ pub.at = "idle" /\ pub'.at = "backup" /\ pub'.i = 1
           /\ pub'.own = dir[Teams].own /\ UNCHANGED <<dir, backup>>
  BY <1>6
<1>7. CASE /\ pub.i \in Dir /\ Goes("backup", "publish", pub.i)
           /\ backup' = [backup EXCEPT ![pub.i] = dir[pub.i]]
           /\ dir' = [dir EXCEPT ![pub.i] = Missing]
  BY <1>7
<1>8. CASE pub.i \in Dir /\ Goes("backup", "unpublish", pub.i - 1) /\ UNCHANGED <<dir, backup>>
  BY <1>8
<1>9. CASE /\ pub.i = 3 /\ Goes("publish", "cleanup", pub.i) /\ backup' = backup
           /\ dir' = [dir EXCEPT ![pub.i] = Staged(r, pub.i)]
  BY <1>9
<1>10. CASE /\ pub.i \in {1, 2} /\ Goes("publish", "backup", pub.i + 1)
            /\ backup' = backup /\ dir' = [dir EXCEPT ![pub.i] = Staged(r, pub.i)]
  BY <1>10
<1>11. CASE pub.i \in Dir /\ Goes("publish", "putback", pub.i) /\ UNCHANGED <<dir, backup>>
  BY <1>11
<1>12. CASE /\ pub.i \in Dir
            /\ Goes("putback", "unpublish", pub.i - 1) \/ Goes("restore", "unpublish", pub.i - 1)
            /\ dir' = [dir EXCEPT ![pub.i] = backup[pub.i]]
            /\ backup' = [backup EXCEPT ![pub.i] = Missing]
  BY <1>12
<1>13. CASE pub.i = 0 /\ Goes("unpublish", "failed", 0) /\ UNCHANGED <<dir, backup>>
  BY <1>13
<1>14. CASE /\ pub.i \in Dir /\ Goes("unpublish", "restore", pub.i)
            /\ dir' = [dir EXCEPT ![pub.i] = Missing] /\ backup' = backup
  BY <1>14
<1>15. CASE Goes("cleanup", "done", pub.i) /\ dir' = dir /\ backup' = [d \in Dir |-> Missing]
  BY <1>15
<1> HIDE DEF Swapped, Kept, Fresh, Installed, Removed, Replaced, Before, MovedAway, Replaces,
        Goes, Dir, Teams, Agents
<1> QED
  BY <1>6, <1>7, <1>8, <1>9, <1>10, <1>11, <1>12, <1>13, <1>14, <1>15, PublicationShape
  DEF CatalogInv
\* ... and in what it means for those who look at them.
LEMMA PublicationKeepsRegular ==
  ASSUME CatalogInv, Regular, NEW r \in Refresh,
         \/ Stage(r) \/ MoveAway(r) \/ MoveIn(r) \/ PutBack(r)
         \/ Unpublish(r) \/ Restore(r) \/ CleanUp(r)
  PROVE  Regular'
<1>1. UNCHANGED <<status, version, accepting, chain, asked, loaded, outcome, seen>>
  BY DEF Stage, MoveAway, MoveIn, PutBack, Unpublish, Restore, CleanUp, leaseVars
<1>2. chain # <<>> /\ Head(chain) = r /\ status[r] = "admitted"
  BY DEF Stage, MoveAway, MoveIn, PutBack, Unpublish, Restore, CleanUp, Publishing, Current
<1>3. /\ Swapped' /\ Kept' /\ Replaces(r)
      /\ pub'.at \in {"cleanup", "done"}
           => \A d \in Dir : dir'[d].version = loaded'[Head(chain')]
  BY PublicationKeepsPlaces DEF Regular
<1>4. OneByOne' /\ InstantiationIsFresh'
  BY <1>1 DEF Regular, OneByOne, InstantiationIsFresh
<1>5. loaded[r] # 0 /\ \A d \in Dir : Before(d) <= loaded[r] /\ loaded[r] <= version
  BY <1>2 DEF CatalogInv, Undecided, Regular, Newer
<1>6. /\ version \in Nat /\ loaded[r] \in Nat /\ \A d \in Dir : Before(d) \in Nat
      /\ \A q \in Refresh : asked[q] \in Nat
  <2>1. /\ dir \in [Dir -> Content] /\ backup \in [Dir -> Content]
        /\ loaded \in [Refresh -> 0 .. MaxVersion] /\ asked \in [Refresh -> 0 .. MaxVersion]
        /\ version \in 1 .. MaxVersion
    BY DEF CatalogInv, TypeInv, TypeOK
  <2> QED BY <2>1, CatalogAssumption DEF Content, Before
<1>7. Newer'
  <2>1. \A d \in Dir : Before(d)' <= version /\ Before(d)' <= loaded[r]
    BY <1>3, <1>5, <1>6 DEF Replaces
  <2> QED BY <1>1, <1>2, <2>1 DEF Regular, Newer
<1>8. Fresh'
  <2>1. \A q \in Refresh : outcome[q] = "ok" => \A d \in Dir : asked[q] <= Before(d)'
    BY <1>3, <1>5, <1>6 DEF Regular, Fresh, Replaces
  <2> QED BY <1>1, <1>3, <2>1 DEF Regular, Fresh
<1> QED BY <1>3, <1>4, <1>7, <1>8 DEF Regular

\* What leaves the directories and their publication alone.
Aside == UNCHANGED <<dir, backup, pub, saved>>
LEMMA AsideKeepsPlaces ==
  ASSUME Aside, Swapped, Kept, pub.at # "idle" => UNCHANGED <<loaded, Head(chain)>>
  PROVE  Swapped' /\ Kept' /\ \A d \in Dir : Before(d)' = Before(d)
<1> USE DEF Aside, Swapped, Kept, Installed, Removed, Replaced, Before, MovedAway
<1>1. CASE pub.at = "idle" BY <1>1
<1>2. CASE pub.at # "idle" BY <1>2 DEF Staged
<1> QED BY <1>1, <1>2

\* What an operation that is no refresh does to the lease.
LEMMA OthersKeepRegular ==
  ASSUME CatalogInv, Regular, NEW op \in Op \ Refresh,
         Acquire(op) \/ Refuse(op) \/ Release(op), UNCHANGED catalogVars,
         op \in Consumer /\ status[op] = "idle" => AskConsumer(op)
  PROVE  Regular'
<1>1. Moves(op) BY LeaseMoves
<1>2. Aside /\ UNCHANGED <<version, accepting, chain, asked, loaded, outcome, seen>>
  BY DEF catalogVars, Aside
<1>3. Swapped' /\ Kept' /\ \A d \in Dir : Before(d)' = Before(d)
  BY <1>2, AsideKeepsPlaces DEF Regular
<1>4. OneByOne' /\ Newer' /\ InstantiationIsFresh'
  BY <1>2, <1>3 DEF Regular, OneByOne, Newer, InstantiationIsFresh
<1>5. ASSUME NEW c \in Consumer, status'[c] # "idle", RefreshOf[c] # None
      PROVE  outcome[RefreshOf[c]] # "none" \/ (~accepting /\ asked[RefreshOf[c]] = 0)
  <2>1. CASE status[c] # "idle" BY <1>5, <2>1 DEF Regular, Fresh
  <2>2. CASE status[c] = "idle"
    <3>1. c = op
      <4>1. c \in Op BY CatalogAssumption
      <4> QED BY <1>1, <1>5, <2>2, <4>1 DEF Moves, GetsIn
    <3> QED BY <1>5, <2>2, <3>1 DEF AskConsumer, Settled
  <2> QED BY <2>1, <2>2
<1>6. Fresh'
  BY <1>2, <1>3, <1>5 DEF Regular, Fresh, Aside
<1> QED BY <1>3, <1>4, <1>6 DEF Regular
\* A refresh is decided once, and whoever has asked for the lease since then was
\* served what that decision stands for.
LEMMA DecisionKeepsFresh ==
  ASSUME CatalogInv, Regular, NEW r \in Refresh, outcome[r] = "none",
         outcome' \in {[outcome EXCEPT ![r] = "failed"], [outcome EXCEPT ![r] = "ok"]},
         outcome'[r] = "ok" => status[r] = "admitted",
         UNCHANGED <<asked, seen>>
  PROVE  InstantiationIsFresh'
<1> SUFFICES ASSUME NEW c \in Consumer, NEW x \in seen[c], RefreshOf[c] # None,
                    outcome'[RefreshOf[c]] = "ok"
             PROVE  x.version >= asked[RefreshOf[c]]
  BY DEF InstantiationIsFresh
<1>1. /\ outcome \in [Refresh -> {"none", "ok", "failed"}] /\ RefreshOf[c] \in Refresh
      /\ seen \in [Consumer -> SUBSET [dir : Dir, version : Nat]]
  BY CatalogAssumption DEF CatalogInv, TypeInv, TypeOK
<1>2. CASE RefreshOf[c] # r
  BY <1>1, <1>2 DEF Regular, InstantiationIsFresh
<1>3. CASE RefreshOf[c] = r
  <2>1. status[c] # "idle" BY DEF CatalogInv, Served
  <2>2. asked[r] = 0 BY <1>3, <2>1 DEF Regular, Fresh
  <2> QED BY <1>1, <1>3, <2>2
<1> QED BY <1>2, <1>3

\* The other steps of a refresh.
LEMMA RefreshKeepsRegular ==
  ASSUME CatalogInv, CatalogInv', Regular, NEW r \in Refresh,
         Request(r) \/ Load(r) \/ AskLease(r) \/ ReleasePublisher(r) \/ Finish(r)
  PROVE  Regular'
<1>1. /\ Busy /\ Undecided /\ Swapped /\ Kept /\ OneByOne /\ Newer /\ Fresh
      /\ InstantiationIsFresh
  BY DEF CatalogInv, Regular
<1>2. /\ chain \in Seq(Refresh) /\ outcome \in [Refresh -> {"none", "ok", "failed"}]
      /\ loaded \in [Refresh -> 0 .. MaxVersion] /\ asked \in [Refresh -> 0 .. MaxVersion]
      /\ version \in 1 .. MaxVersion /\ MaxVersion \in Nat
      /\ seen \in [Consumer -> SUBSET [dir : Dir, version : Nat]]
  BY CatalogAssumption DEF CatalogInv, TypeInv, TypeOK
<1>3. /\ version \in Nat /\ \A q \in Refresh : asked[q] \in Nat /\ loaded[q] \in Nat
      /\ \A c \in Consumer : RefreshOf[c] # None => RefreshOf[c] \in Refresh
  BY <1>2, CatalogAssumption
<1>4. CASE Request(r)
  <2>1. /\ UNCHANGED <<version, accepting, loaded, outcome, seen, status, dir, backup, pub,
                       saved>>
        /\ chain' = Append(chain, r) /\ asked' = [asked EXCEPT ![r] = version]
        /\ accepting /\ asked[r] = 0
    BY <1>4 DEF Request, leaseVars
  <2>2. chain' # <<>> /\ (chain # <<>> => Head(chain') = Head(chain))
        /\ (chain = <<>> => Head(chain') = r)
    BY <1>2, <2>1
  <2>3. loaded[r] = 0 /\ outcome[r] = "none" BY <1>1, <2>1 DEF OneByOne
  <2>4. Swapped' /\ Kept' /\ \A d \in Dir : Before(d)' = Before(d)
    BY <1>1, <2>1, <2>2, AsideKeepsPlaces DEF Aside, Busy
  <2>5. OneByOne'
    <3>1. \A i \in 1 .. Len(chain) : chain[i] # r BY <1>1, <2>1 DEF OneByOne
    <3>2. \A i \in 1 .. Len(chain') : \/ i \in 1 .. Len(chain) /\ chain'[i] = chain[i]
                                      \/ i = Len(chain) + 1 /\ chain'[i] = r
      BY <1>2, <2>1
    <3>3. \A i, j \in 1 .. Len(chain') : chain'[i] = chain'[j] => i = j
      BY <1>1, <3>1, <3>2 DEF OneByOne
    <3>4. \A i \in 1 .. Len(chain') :
            asked'[chain'[i]] # 0 /\ (i # 1 => loaded'[chain'[i]] = 0)
      <4>1. version # 0 /\ asked'[r] = version /\ \A q \in Refresh \ {r} : asked'[q] = asked[q]
        BY <1>2, <2>1
      <4>2. \A i \in 1 .. Len(chain) : chain[i] \in Refresh \ {r} BY <1>2, <3>1
      <4> QED BY <1>1, <2>1, <2>3, <3>2, <4>1, <4>2 DEF OneByOne
    <3>5. \A q \in Refresh : asked'[q] = 0 => loaded'[q] = 0 /\ outcome'[q] = "none"
      BY <1>1, <1>2, <2>1 DEF OneByOne
    <3> QED BY <3>3, <3>4, <3>5 DEF OneByOne
  <2>6. Newer' BY <1>1, <1>2, <1>3, <2>1, <2>2, <2>3, <2>4 DEF Newer
  <2>7. Fresh'
    <3>1. pub'.at \in {"cleanup", "done"} => Head(chain') = Head(chain)
      BY <1>1, <2>1, <2>2 DEF Busy
    <3> QED BY <1>1, <1>2, <1>3, <2>1, <2>3, <2>4, <3>1 DEF Fresh
  <2>8. InstantiationIsFresh' BY <1>1, <1>2, <1>3, <2>1, <2>3 DEF InstantiationIsFresh
  <2> QED BY <2>4, <2>5, <2>6, <2>7, <2>8 DEF Regular
<1>5. CASE Load(r)
  <2>1. /\ UNCHANGED <<version, accepting, chain, asked, seen, status, dir, backup, pub,
                       saved>>
        /\ chain # <<>> /\ Head(chain) = r /\ loaded[r] = 0 /\ outcome[r] = "none"
        /\ \/ loaded' = [loaded EXCEPT ![r] = version] /\ outcome' = outcome
           \/ loaded' = loaded /\ outcome' = [outcome EXCEPT ![r] = "failed"]
    BY <1>5 DEF Load, Current, Ends, leaseVars
  <2>2. status[r] \notin {"waiting", "admitted"} BY <1>1, <2>1 DEF Undecided
  <2>3. pub.at = "idle" BY <1>1, <2>1, <2>2 DEF Busy
  <2>4. Swapped' /\ Kept' /\ \A d \in Dir : Before(d)' = Before(d)
    BY <1>1, <2>1, <2>3, AsideKeepsPlaces DEF Aside
  <2>5. OneByOne'
    <3>1. 1 \in 1 .. Len(chain) /\ chain[1] = r /\ Len(chain) \in Nat BY <1>2, <2>1
    <3>2. \A i \in 1 .. Len(chain) : chain[i] \in Refresh /\ (i # 1 => chain[i] # r)
      BY <1>1, <1>2, <3>1 DEF OneByOne
    <3> QED BY <1>1, <1>2, <2>1, <3>1, <3>2 DEF OneByOne
  <2>6. Newer'
    <3>1. CASE loaded' = [loaded EXCEPT ![r] = version]
      <4>1. \A q \in Refresh : loaded'[q] = IF q = r THEN version ELSE loaded[q]
        BY <1>2, <3>1
      <4> QED BY <1>1, <1>3, <2>1, <2>4, <4>1 DEF Newer
    <3>2. CASE loaded' = loaded BY <1>1, <2>1, <2>4, <3>2 DEF Newer
    <3> QED BY <2>1, <3>1, <3>2
  <2>7. Fresh'
    <3>1. \A q \in Refresh : /\ outcome[q] # "none" => outcome'[q] # "none"
                             /\ outcome'[q] = "ok" => outcome[q] = "ok"
      BY <1>2, <2>1
    <3> QED BY <1>1, <1>3, <2>1, <2>3, <2>4, <3>1 DEF Fresh
  <2>8. InstantiationIsFresh'
    <3>1. CASE outcome' = outcome BY <1>1, <2>1, <3>1 DEF InstantiationIsFresh
    <3>2. CASE outcome' = [outcome EXCEPT ![r] = "failed"]
      BY <1>2, <2>1, <3>2, DecisionKeepsFresh
    <3> QED BY <2>1, <3>1, <3>2
  <2> QED BY <2>4, <2>5, <2>6, <2>7, <2>8 DEF Regular
<1>6. CASE AskLease(r)
  <2>1. /\ UNCHANGED <<version, accepting, chain, asked, loaded, seen, dir, backup, pub,
                       saved>>
        /\ chain # <<>> /\ Head(chain) = r /\ loaded[r] # 0 /\ status[r] = "idle"
        /\ outcome' \in {outcome, [outcome EXCEPT ![r] = "failed"]}
    BY <1>6 DEF AskLease, Current, Ends, Acquire, Refuse
  <2>2. Aside /\ outcome[r] = "none" BY <1>1, <2>1 DEF Undecided, Aside
  <2>3. Swapped' /\ Kept' /\ \A d \in Dir : Before(d)' = Before(d)
    BY <1>1, <2>1, <2>2, AsideKeepsPlaces
  <2>4. OneByOne' /\ Newer'
    <3>1. asked[r] # 0
      <4>1. 1 \in 1 .. Len(chain) /\ chain[1] = r BY <1>2, <2>1
      <4> QED BY <1>1, <4>1 DEF OneByOne
    <3>2. \A q \in Refresh : outcome'[q] = outcome[q] \/ q = r BY <1>2, <2>1
    <3> QED BY <1>1, <2>1, <2>3, <3>1, <3>2 DEF OneByOne, Newer
  <2>5. Moves(r) /\ Refresh \cap Consumer = {} /\ Consumer \subseteq Op
    BY <1>6, LeaseMoves, CatalogAssumption, LeaseAssumption DEF AskLease
  <2>6. \A c \in Consumer : status'[c] = "idle" \/ status[c] # "idle"
    BY <2>5 DEF Moves, GetsIn
  <2>7. \A q \in Refresh : /\ outcome[q] # "none" => outcome'[q] # "none"
                           /\ outcome'[q] = "ok" => outcome[q] = "ok"
    BY <1>2, <2>1, <2>2
  <2>8. Fresh' BY <1>1, <1>3, <2>1, <2>3, <2>6, <2>7 DEF Fresh
  <2>9. InstantiationIsFresh' BY <1>1, <1>3, <2>1, <2>7 DEF InstantiationIsFresh
  <2> QED BY <2>3, <2>4, <2>8, <2>9 DEF Regular
<1>7. CASE ReleasePublisher(r)
  <2>1. /\ UNCHANGED <<version, accepting, chain, asked, loaded, seen, dir, backup, saved>>
        /\ chain # <<>> /\ Head(chain) = r /\ status[r] = "admitted" /\ pub' = IdlePub
        /\ \/ pub.at \in {"idle", "failed"} /\ outcome' = [outcome EXCEPT ![r] = "failed"]
           \/ pub.at = "done" /\ outcome' = [outcome EXCEPT ![r] = "ok"]
    BY <1>7 DEF ReleasePublisher, Publishing, Current, Ends
  <2>2. outcome[r] = "none" /\ loaded[r] # 0 /\ pub.at \in {"idle", "failed", "done"}
    BY <1>1, <2>1 DEF Undecided
  <2>3. pub'.at = "idle" BY <2>1 DEF IdlePub
  <2>4. Swapped' /\ Kept' /\ \A d \in Dir : Before(d)' = Before(d)
    BY <1>1, <2>1, <2>2, <2>3
    DEF Swapped, Kept, Installed, Removed, Replaced, Before, MovedAway
  <2>5. asked[r] # 0
    <3>1. 1 \in 1 .. Len(chain) /\ chain[1] = r BY <1>2, <2>1
    <3> QED BY <1>1, <3>1 DEF OneByOne
  <2>6. OneByOne' /\ Newer'
    <3>1. \A q \in Refresh : outcome'[q] = outcome[q] \/ q = r BY <1>2, <2>1
    <3> QED BY <1>1, <2>1, <2>4, <2>5, <3>1 DEF OneByOne, Newer
  <2>7. Fresh'
    <3>1. Moves(r) /\ Refresh \cap Consumer = {} /\ Consumer \subseteq Op
      BY <1>7, LeaseMoves, CatalogAssumption, LeaseAssumption DEF ReleasePublisher
    <3>2. \A c \in Consumer : status'[c] = "idle" \/ status[c] # "idle"
      BY <3>1 DEF Moves, GetsIn
    <3>3. \A q \in Refresh : outcome[q] # "none" => outcome'[q] # "none"
      BY <1>2, <2>1, <2>2
    <3>4. outcome'[r] = "ok" => \A d \in Dir : asked[r] <= Before(d)
      <4> SUFFICES ASSUME pub.at = "done" PROVE \A d \in Dir : asked[r] <= Before(d)
        BY <1>2, <2>1
      <4>1. \A d \in Dir : Before(d) = loaded[r]
        BY <1>1, <2>1 DEF Fresh, Before, MovedAway
      <4> QED BY <1>1, <2>2, <4>1 DEF Newer
    <3>5. \A q \in Refresh : outcome'[q] = "ok" => \A d \in Dir : asked[q] <= Before(d)
      BY <1>1, <1>2, <2>1, <3>4 DEF Fresh
    <3> QED BY <1>1, <1>3, <2>1, <2>3, <2>4, <3>2, <3>3, <3>5 DEF Fresh
  <2>8. InstantiationIsFresh'
    BY <2>1, <2>2, DecisionKeepsFresh
  <2> QED BY <2>4, <2>6, <2>7, <2>8 DEF Regular
<1>8. CASE Finish(r)
  <2>1. /\ UNCHANGED <<version, asked, loaded, outcome, seen, status, dir, backup, pub, saved>>
        /\ chain # <<>> /\ Head(chain) = r /\ outcome[r] # "none" /\ chain' = Tail(chain)
        /\ accepting' => accepting
    BY <1>8 DEF Finish, Current, leaseVars
  <2>2. pub.at = "idle" BY <1>1, <2>1 DEF Busy, Undecided
  <2>3. Swapped' /\ Kept' /\ \A d \in Dir : Before(d)' = Before(d)
    BY <1>1, <2>1, <2>2, AsideKeepsPlaces DEF Aside
  <2>4. /\ Len(chain) \in Nat
        /\ \A i \in 1 .. Len(chain') : i + 1 \in 1 .. Len(chain) /\ chain'[i] = chain[i + 1]
    BY <1>2, <2>1
  <2>5. OneByOne'
    <3>1. \A i \in 1 .. Len(chain') : asked'[chain'[i]] # 0 /\ loaded'[chain'[i]] = 0
      BY <1>1, <2>1, <2>4 DEF OneByOne
    <3>2. \A i, j \in 1 .. Len(chain') : chain'[i] = chain'[j] => i = j
      BY <1>1, <2>4 DEF OneByOne
    <3> QED BY <1>1, <2>1, <3>1, <3>2 DEF OneByOne
  <2>6. chain' # <<>> => loaded'[Head(chain')] = 0
    <3> SUFFICES ASSUME chain' # <<>> PROVE loaded'[Head(chain')] = 0 OBVIOUS
    <3>1. 1 \in 1 .. Len(chain') /\ Head(chain') = chain'[1] BY <1>2, <2>1
    <3> QED BY <1>1, <2>1, <2>4, <3>1 DEF OneByOne
  <2>7. Newer' BY <1>1, <2>1, <2>3, <2>6 DEF Newer
  <2>8. Fresh' BY <1>1, <1>3, <2>1, <2>2, <2>3 DEF Fresh
  <2>9. InstantiationIsFresh' BY <1>1, <2>1 DEF InstantiationIsFresh
  <2> QED BY <2>3, <2>5, <2>7, <2>8, <2>9 DEF Regular
<1> QED BY <1>4, <1>5, <1>6, <1>7, <1>8
\* A consumer reads, a user's template is written.
LEMMA UseKeepsRegular ==
  ASSUME CatalogInv, Regular,
         \/ \E c \in Consumer, d \in Dir : Consume(c, d)
         \/ \E s \in Save : WriteTemplate(s)
  PROVE  Regular'
<1>1. /\ Busy /\ Swapped /\ Kept /\ OneByOne /\ Newer /\ Fresh /\ InstantiationIsFresh
      /\ dir \in [Dir -> Content] /\ chain \in Seq(Refresh) /\ saved \subseteq Save
      /\ seen \in [Consumer -> SUBSET [dir : Dir, version : Nat]]
  BY DEF CatalogInv, Regular, TypeInv, TypeOK
<1>2. UNCHANGED <<status, version, accepting, chain, asked, loaded, outcome, backup, pub>>
  BY DEF Consume, WriteTemplate, leaseVars
<1>3. /\ version \in Nat /\ \A q \in Refresh : asked[q] \in Nat /\ loaded[q] \in Nat
      /\ \A d \in Dir : Before(d) \in Nat
  <2>1. /\ backup \in [Dir -> Content] /\ version \in 1 .. MaxVersion
        /\ loaded \in [Refresh -> 0 .. MaxVersion] /\ asked \in [Refresh -> 0 .. MaxVersion]
    BY DEF CatalogInv, TypeInv, TypeOK
  <2> QED BY <1>1, <2>1, CatalogAssumption DEF Content, Before
<1>4. ASSUME NEW c \in Consumer, NEW d \in Dir, Consume(c, d) PROVE Regular'
  <2>1. /\ dir' = dir /\ saved' = saved /\ dir[d].version # 0
        /\ seen' = [seen EXCEPT ![c] = @ \cup {[dir |-> d, version |-> dir[d].version]}]
    BY <1>4 DEF Consume
  <2>2. Swapped' /\ Kept' /\ \A e \in Dir : Before(e)' = Before(e)
    BY <1>1, <1>2, <2>1, AsideKeepsPlaces DEF Aside
  <2>3. OneByOne' /\ Newer' /\ Fresh'
    BY <1>1, <1>2, <2>1, <2>2 DEF OneByOne, Newer, Fresh
  <2>4. InstantiationIsFresh'
    <3> SUFFICES ASSUME NEW b \in Consumer, NEW x \in seen'[b], RefreshOf[b] # None,
                        outcome[RefreshOf[b]] = "ok"
                 PROVE  x.version >= asked[RefreshOf[b]]
      BY <1>2 DEF InstantiationIsFresh
    <3>1. CASE x \in seen[b] BY <1>1, <3>1 DEF InstantiationIsFresh
    <3>2. CASE x \notin seen[b]
      <4>1. b = c /\ x.version = dir[d].version BY <1>1, <2>1, <3>2
      <4>2. RefreshOf[b] \in Refresh BY CatalogAssumption
      <4>3. asked[RefreshOf[b]] <= Before(d) BY <1>1, <4>2 DEF Fresh
      <4>4. CASE ~MovedAway(d)
        <5>1. Before(d) = dir[d].version BY <4>4 DEF Before
        <5> QED BY <1>3, <4>1, <4>2, <4>3, <5>1
      <4>5. CASE MovedAway(d)
        <5>1. Installed(d)
          <6>1. ~Removed(d) BY <1>1, <2>1 DEF Swapped, Missing
          <6>2. pub.i \in 0 .. 3 BY DEF CatalogInv, TypeInv, InPlace
          <6> QED BY <4>5, <6>1, <6>2 DEF MovedAway, Removed, Installed, Dir
        <5>2. dir[d].version = loaded[Head(chain)] BY <1>1, <5>1 DEF Swapped, Staged
        <5>3. chain # <<>> /\ Head(chain) \in Refresh
          BY <1>1, <4>5 DEF Busy, MovedAway
        <5>4. Before(d) <= loaded[Head(chain)] BY <1>1, <2>1, <5>2, <5>3 DEF Newer
        <5> QED BY <1>3, <4>1, <4>2, <4>3, <5>2, <5>3, <5>4
      <4> QED BY <4>4, <4>5
    <3> QED BY <3>1, <3>2
  <2> QED BY <2>2, <2>3, <2>4 DEF Regular
<1>5. ASSUME NEW s \in Save, WriteTemplate(s) PROVE Regular'
  <2>1. /\ seen' = seen /\ dir' = [dir EXCEPT ![Teams].own = @ \cup {s}]
        /\ saved' = saved \cup {s} /\ status[s] = "admitted"
    BY <1>5 DEF WriteTemplate
  <2>2. /\ \A d \in Dir : dir'[d].version = dir[d].version
        /\ dir'[Teams].own = dir[Teams].own \cup {s}
    BY <1>1, <2>1 DEF Content, Dir, Teams
  <2>9. pub.at = "idle"
    <3> SUFFICES ASSUME pub.at # "idle" PROVE FALSE OBVIOUS
    <3>1. Head(chain) \in Refresh /\ status[Head(chain)] = "admitted" BY <1>1 DEF Busy
    <3>2. Exclusion BY BooksGiveExclusion DEF CatalogInv
    <3> QED BY <2>1, <3>1, <3>2, CatalogAssumption, LeaseAssumption DEF Exclusion
  <2>3. Swapped' /\ \A e \in Dir : Before(e)' = Before(e)
    BY <1>1, <1>2, <2>9, <2>1, <2>2 DEF Swapped, Installed, Removed, Before, MovedAway
  <2>4. Kept' BY <1>1, <1>2, <2>9, <2>1, <2>2 DEF Kept, Replaced, MovedAway
  <2>5. OneByOne' /\ Newer' /\ Fresh' /\ InstantiationIsFresh'
    BY <1>1, <1>2, <2>9, <2>1, <2>3 DEF OneByOne, Newer, Fresh, InstantiationIsFresh
  <2> QED BY <2>3, <2>4, <2>5 DEF Regular
<1> QED BY <1>4, <1>5

\* Without restarts every step keeps this too.
AtomicInv == CatalogInv /\ Regular
LEMMA SteadyKeepsAtomicInv == ASSUME AtomicInv, [Steady]_vars PROVE AtomicInv'
<1>1. CatalogInv /\ Regular /\ CatalogInv' BY SteadyKeepsInv DEF AtomicInv
<1>2. SUFFICES Regular' BY <1>1 DEF AtomicInv
<1>3. CASE BackendChanges \/ Dispose \/ CloseLease \/ UNCHANGED vars
  <2>1. /\ UNCHANGED <<status, chain, asked, loaded, outcome, dir, backup, pub, seen, saved>>
        /\ version' \in {version, version + 1} /\ (accepting' => accepting)
    BY <1>3 DEF BackendChanges, Dispose, CloseLease, Close, leaseVars, catalogVars, vars
  <2>2. Swapped' /\ Kept' /\ \A d \in Dir : Before(d)' = Before(d)
    BY <1>1, <2>1, AsideKeepsPlaces DEF Regular, Aside
  <2>3. /\ dir \in [Dir -> Content] /\ backup \in [Dir -> Content]
        /\ loaded \in [Refresh -> 0 .. MaxVersion] /\ asked \in [Refresh -> 0 .. MaxVersion]
        /\ version \in 1 .. MaxVersion
    BY <1>1 DEF CatalogInv, TypeInv, TypeOK
  <2>4. /\ version \in Nat /\ \A q \in Refresh : asked[q] \in Nat /\ loaded[q] \in Nat
        /\ \A d \in Dir : Before(d) \in Nat
    BY <2>3, CatalogAssumption DEF Content, Before
  <2>5. Newer' BY <1>1, <2>1, <2>2, <2>4 DEF Regular, Newer
  <2>6. OneByOne' /\ Fresh' /\ InstantiationIsFresh'
    BY <1>1, <2>1, <2>2, CatalogAssumption DEF Regular, OneByOne, Fresh, InstantiationIsFresh
  <2> QED BY <2>2, <2>5, <2>6 DEF Regular
<1>4. ASSUME NEW r \in Refresh, Request(r) \/ Publisher(r) PROVE Regular'
  BY <1>1, <1>4, RefreshKeepsRegular, PublicationKeepsRegular DEF Publisher
<1>5. ASSUME NEW op \in Op \ Refresh, Acquire(op) \/ Refuse(op) \/ Release(op),
             UNCHANGED catalogVars, op \in Consumer /\ status[op] = "idle" => AskConsumer(op)
      PROVE  Regular'
  BY <1>1, <1>5, OthersKeepRegular
<1>6. Consumer \subseteq Op \ Refresh /\ Save \subseteq Op \ Refresh
      /\ Foreign \subseteq Op \ Refresh /\ Consumer \cap Save = {} /\ Consumer \cap Foreign = {}
  BY CatalogAssumption, LeaseAssumption DEF Foreign
<1>7. ASSUME NEW c \in Consumer, AskConsumer(c) PROVE Regular'
  BY <1>5, <1>6, <1>7 DEF AskConsumer
<1>8. ASSUME NEW s \in Save, AskSave(s) PROVE Regular'
  BY <1>5, <1>6, <1>8 DEF AskSave
<1>9. ASSUME NEW o \in Op \ Refresh, Leave(o) PROVE Regular'
  BY <1>5, <1>9 DEF Leave, Release
<1>10. ASSUME NEW o \in Foreign, AskForeign(o) PROVE Regular'
  BY <1>5, <1>6, <1>10 DEF AskForeign
<1>11. CASE \/ \E c \in Consumer, d \in Dir : Consume(c, d)
            \/ \E s \in Save : WriteTemplate(s)
  BY <1>1, <1>11, UseKeepsRegular
<1> QED BY <1>3, <1>4, <1>7, <1>8, <1>9, <1>10, <1>11 DEF Steady

\* Before anything runs.
LEMMA AtomicInvInit == Init => AtomicInv
<1> SUFFICES ASSUME Init PROVE AtomicInv OBVIOUS
<1>1. TypeInv /\ LeaseInv BY TypeInvInit, LeaseInvInit DEF Init
<1>2. Busy /\ Whole BY DEF Init, Busy, Whole, Before, MovedAway, IdlePub
<1>3. Undecided BY CatalogAssumption, LeaseAssumption DEF Init, LeaseInit, Undecided
<1>4. Served BY DEF Init, Served, UnderLease
<1>5. Swapped /\ Kept
  BY DEF Init, Swapped, Kept, Installed, Removed, Replaced, MovedAway, IdlePub, Missing,
         Teams, Dir
<1>6. OneByOne BY DEF Init, OneByOne
<1>7. Newer BY DEF Init, Newer, Before, MovedAway, Missing, IdlePub
<1>8. Fresh
  BY CatalogAssumption, LeaseAssumption DEF Init, LeaseInit, Fresh, IdlePub
<1>9. InstantiationIsFresh BY DEF Init, InstantiationIsFresh
<1> QED
  BY <1>1, <1>2, <1>3, <1>4, <1>5, <1>6, <1>7, <1>8, <1>9 DEF AtomicInv, CatalogInv, Regular

\* The places of a publication, the queue of refreshes and the versions are as
\* the properties below need them.
THEOREM CatalogAtomicInvariant == SteadySpec => []AtomicInv
<1>1. AtomicInv /\ [Steady]_vars => AtomicInv' BY SteadyKeepsAtomicInv
<1> QED BY <1>1, AtomicInvInit, PTL DEF SteadySpec

\* Whatever is published, rolled back, saved or closed meanwhile, a consumer that
\* reads under the lease gets one generation.
THEOREM CatalogOneGeneration ==
  ASSUME Root = {} PROVE SteadySpec => []OneGenerationPerConsumer
<1>1. AtomicInv => OneGenerationPerConsumer
  BY DEF AtomicInv, CatalogInv, Served, UnderLease, OneGenerationPerConsumer
<1> QED BY <1>1, CatalogAtomicInvariant, PTL

\* A consumer whose own refresh has succeeded reads resources at least as new as
\* those at the time of its request, whichever refreshes run in between.
THEOREM CatalogFresh == SteadySpec => []InstantiationIsFresh
<1>1. AtomicInv => InstantiationIsFresh BY DEF AtomicInv, Regular
<1> QED BY <1>1, CatalogAtomicInvariant, PTL

\* No publication and no rollback, wherever it fails, loses a template that a
\* user has saved.
THEOREM CatalogKeepsTemplates == SteadySpec => []SavedTemplatesKept
<1>1. AtomicInv => SavedTemplatesKept
  BY DEF AtomicInv, Regular, Kept, Replaced, MovedAway, SavedTemplatesKept
<1> QED BY <1>1, CatalogAtomicInvariant, PTL
--------------------------------------------------------------------------------
(* The refinement of AtomicCatalog.                                          *)

\* What lookers-on see of the three directories is the generation in force and
\* the templates saved, at every step of a publication and of a rollback.
LEMMA LiveIsAtomic ==
  AtomicInv => Live(Agents).version = Before(Agents) /\ Live(Teams).own = saved
<1> SUFFICES ASSUME AtomicInv
             PROVE  Live(Agents).version = Before(Agents) /\ Live(Teams).own = saved
  OBVIOUS
<1>1. /\ Busy /\ Undecided /\ Swapped /\ Kept /\ chain \in Seq(Refresh)
      /\ pub.i \in 0 .. 3 /\ Agents \in Dir /\ Teams \in Dir
  BY DEF AtomicInv, CatalogInv, Regular, TypeInv, TypeOK, InPlace, Agents, Teams, Dir
<1>2. ASSUME NEW d \in Dir
      PROVE  \/ Installed(d) /\ Live(d) = Staged(Head(chain), d)
             \/ ~Installed(d) /\ Live(d) = Replaced(d)
  <2>1. CASE Installed(d)
    <3>1. pub.at # "idle" /\ dir[d] = Staged(Head(chain), d)
      BY <1>1, <2>1 DEF Swapped, Installed
    <3>2. Head(chain) \in Refresh /\ loaded[Head(chain)] # 0
      BY <1>1, <3>1 DEF Busy, Undecided
    <3>3. dir[d] # Missing
      <4>1. dir[d].version # 0 BY <3>1, <3>2 DEF Staged
      <4> QED BY <4>1 DEF Missing
    <3> QED BY <2>1, <3>1, <3>3 DEF Live
  <2>2. CASE Removed(d)
    <3>1. pub.at # "idle" /\ dir[d] = Missing /\ MovedAway(d) /\ ~Installed(d)
      BY <1>1, <2>2 DEF Swapped, Removed, MovedAway, Installed
    <3> QED BY <3>1 DEF Live, Replaced
  <2>3. CASE ~Installed(d) /\ ~Removed(d)
    <3>1. ~MovedAway(d) /\ pub.at # "cleanup"
      BY <1>1, <2>3 DEF MovedAway, Installed, Removed, Dir
    <3>2. backup[d] = Missing BY <1>1, <3>1 DEF Swapped
    <3> QED BY <2>3, <3>1, <3>2 DEF Live, Replaced
  <2> QED BY <2>1, <2>2, <2>3
<1>3. Live(Agents).version = Before(Agents)
  <2>1. CASE Installed(Agents)
    <3>1. pub.at = "cleanup"
      BY <1>1, <2>1 DEF Swapped, Installed, Agents
    <3> QED BY <1>1, <2>1, <3>1, <1>2 DEF Swapped, Before, MovedAway
  <2>2. CASE ~Installed(Agents) BY <1>1, <1>2, <2>2 DEF Replaced, Before
  <2> QED BY <2>1, <2>2
<1>4. Live(Teams).own = saved
  <2>1. CASE Installed(Teams)
    <3>1. pub.at # "idle" BY <2>1 DEF Installed
    <3> QED BY <1>1, <1>2, <2>1, <3>1 DEF Kept, Staged
  <2>2. CASE ~Installed(Teams) BY <1>1, <1>2, <2>2 DEF Kept
  <2> QED BY <2>1, <2>2
<1> QED BY <1>3, <1>4

\* What the consumers have seen, as the register has it.
ViewOf(read) == IF read = {} THEN 0 ELSE (CHOOSE x \in read : TRUE).version
Views == [c \in Consumer |-> ViewOf(seen[c])]
\* So it is before and after a step.
LEMMA NextLive ==
  ASSUME AtomicInv, AtomicInv'
  PROVE  /\ Live(Agents).version = Before(Agents) /\ Live(Teams).own = saved
         /\ Live(Agents)'.version = Before(Agents)' /\ Live(Teams)'.own = saved'
<1>1. AtomicInv' => (Live(Agents).version = Before(Agents) /\ Live(Teams).own = saved)'
  BY LiveIsAtomic, PTL
<1> QED BY <1>1, LiveIsAtomic

\* Nothing published, saved or read: the register does not move.
LEMMA StutterStep ==
  ASSUME AtomicInv, AtomicInv', Before(Agents)' = Before(Agents), UNCHANGED <<saved, seen>>
  PROVE  UNCHANGED Catalog!vars
<1>1. UNCHANGED Views BY DEF Views
<1> QED BY <1>1, NextLive DEF Views, ViewOf, Catalog!vars

\* A newer generation in force is a publication ...
LEMMA PublishStep ==
  ASSUME AtomicInv, AtomicInv', UNCHANGED <<saved, seen>>,
         Before(Agents)' \in Nat \ {0}, Before(Agents)' >= Before(Agents)
  PROVE  Catalog!Publish
<1>1. UNCHANGED Views BY DEF Views
<1> QED BY <1>1, NextLive DEF Views, ViewOf, Catalog!Publish

\* ... one template more is a save ...
LEMMA KeepStep ==
  ASSUME AtomicInv, AtomicInv', NEW s \in Save, saved' = saved \cup {s},
         Before(Agents)' = Before(Agents), UNCHANGED seen
  PROVE  Catalog!Keep(s)
<1>1. UNCHANGED Views BY DEF Views
<1> QED BY <1>1, NextLive DEF Views, ViewOf, Catalog!Keep

\* ... and a consumer that reads what is in force is served.
LEMMA ServeStep ==
  ASSUME AtomicInv, AtomicInv', NEW c \in Consumer,
         Before(Agents) # 0, Views[c] \in {0, Before(Agents)},
         Views' = [Views EXCEPT ![c] = Before(Agents)],
         Before(Agents)' = Before(Agents), UNCHANGED saved
  PROVE  Catalog!Serve(c)
BY NextLive DEF Views, ViewOf, Catalog!Serve

\* What every step of the system is to those who look on.
LEMMA StepRefines ==
  ASSUME Root = {}, AtomicInv, AtomicInv', [Steady]_vars
  PROVE  [Catalog!Next]_(Catalog!vars)
<1>1. /\ CatalogInv /\ Regular /\ Busy /\ Whole /\ Served /\ chain \in Seq(Refresh)
      /\ dir \in [Dir -> Content] /\ backup \in [Dir -> Content]
      /\ seen \in [Consumer -> SUBSET [dir : Dir, version : Nat]]
      /\ loaded \in [Refresh -> 0 .. MaxVersion] /\ Agents \in Dir
  BY DEF AtomicInv, CatalogInv, TypeInv, TypeOK, Agents, Dir
<1>2. /\ Before(Agents) \in Nat /\ \A r \in Refresh : loaded[r] \in Nat
      /\ \A d \in Dir : Before(d) = Before(Agents)
  BY <1>1, CatalogAssumption DEF Before, Content, Whole
<1>3. CASE UNCHANGED <<dir, backup, pub, saved, seen>>
  <2>1. Before(Agents)' = Before(Agents) BY <1>3 DEF Before, MovedAway
  <2> QED BY <1>3, <2>1, StutterStep
<1>4. ASSUME NEW r \in Refresh,
             \/ Stage(r) \/ MoveAway(r) \/ MoveIn(r) \/ PutBack(r)
             \/ Unpublish(r) \/ Restore(r) \/ CleanUp(r)
      PROVE  [Catalog!Next]_(Catalog!vars)
  <2>1. Before(Agents)' \in {Before(Agents), loaded[r]}
    BY <1>1, <1>4, PublicationKeepsPlaces DEF Regular, Replaces
  <2>2. UNCHANGED <<saved, seen>> /\ chain # <<>> /\ Head(chain) = r /\ status[r] = "admitted"
    BY <1>4
    DEF Stage, MoveAway, MoveIn, PutBack, Unpublish, Restore, CleanUp, Publishing, Current
  <2>3. loaded[r] # 0 BY <1>1, <2>2 DEF CatalogInv, Undecided
  <2>4. loaded[r] >= Before(Agents) BY <1>1, <1>2, <2>2, <2>3 DEF Regular, Newer
  <2>5. CASE Before(Agents)' = Before(Agents) BY <2>2, <2>5, StutterStep
  <2>6. CASE Before(Agents)' = loaded[r]
    <3>1. Before(Agents)' \in Nat \ {0} /\ Before(Agents)' >= Before(Agents)
      BY <1>2, <2>3, <2>4, <2>6
    <3> QED BY <2>2, <3>1, PublishStep DEF Catalog!Next
  <2> QED BY <2>1, <2>5, <2>6
<1>5. ASSUME NEW r \in Refresh, ReleasePublisher(r) PROVE [Catalog!Next]_(Catalog!vars)
  <2>1. /\ UNCHANGED <<dir, backup, saved, seen>> /\ pub' = IdlePub
        /\ pub.at \in {"idle", "failed", "done"}
    BY <1>5 DEF ReleasePublisher, Publishing
  <2>2. Before(Agents)' = Before(Agents) BY <2>1 DEF Before, MovedAway, IdlePub
  <2> QED BY <2>1, <2>2, StutterStep
<1>6. ASSUME NEW c \in Consumer, NEW d \in Dir, Consume(c, d)
      PROVE  [Catalog!Next]_(Catalog!vars)
  <2>1. /\ UNCHANGED <<dir, backup, pub, saved>> /\ status[c] = "admitted"
        /\ dir[d].version # 0
        /\ seen' = [seen EXCEPT ![c] = @ \cup {[dir |-> d, version |-> dir[d].version]}]
    BY <1>6 DEF Consume
  <2>2. pub.at = "idle"
    <3> SUFFICES ASSUME pub.at # "idle" PROVE FALSE OBVIOUS
    <3>1. Head(chain) \in Refresh /\ status[Head(chain)] = "admitted" BY <1>1 DEF Busy
    <3> QED BY <1>1, <2>1, <3>1, PublisherAlone
  <2>3. dir[d].version = Before(Agents) /\ dir[Agents].version = Before(Agents)
    BY <1>1, <1>2, <2>2 DEF Before, MovedAway
  <2>4. Before(Agents)' = Before(Agents) BY <2>1 DEF Before, MovedAway
  <2>5. \A x \in seen[c] : x.version = Before(Agents)
    BY <1>1, <2>1, <2>3 DEF Served, UnderLease
  <2>6. \A x \in seen'[c] : x.version = Before(Agents)
    BY <1>1, <2>1, <2>3, <2>5
  <2>7. seen'[c] # {} BY <1>1, <2>1
  <2>8. Views[c] \in {0, Before(Agents)}
    <3>1. CASE seen[c] = {} BY <3>1 DEF Views, ViewOf
    <3>2. CASE seen[c] # {}
      <4>1. (CHOOSE x \in seen[c] : TRUE) \in seen[c] BY <3>2
      <4>2. Views[c] = (CHOOSE x \in seen[c] : TRUE).version BY <3>2 DEF Views, ViewOf
      <4> QED BY <2>5, <4>1, <4>2
    <3> QED BY <3>1, <3>2
  <2>9. Views' = [Views EXCEPT ![c] = Before(Agents)]
    <3> DEFINE new == CHOOSE x \in seen'[c] : TRUE
    <3>1. new \in seen'[c] BY <2>7
    <3>2. new.version = Before(Agents) BY <2>6, <3>1
    <3>3. \A b \in Consumer \ {c} : seen'[b] = seen[b] BY <1>1, <2>1
    <3>4. Views' = [b \in Consumer |-> ViewOf(seen'[b])] BY DEF Views
    <3>5. \A b \in Consumer : Views'[b] = IF b = c THEN Before(Agents) ELSE Views[b]
      <4>1. Views'[c] = new.version BY <2>7, <3>4 DEF ViewOf
      <4>2. ASSUME NEW b \in Consumer \ {c} PROVE Views'[b] = Views[b]
        BY <3>3, <3>4 DEF Views
      <4> QED BY <3>2, <4>1, <4>2
    <3>6. Views' = [b \in Consumer |-> Views'[b]] BY <3>4
    <3>7. Views = [b \in Consumer |-> Views[b]] BY DEF Views
    <3> HIDE DEF new, Views
    <3> QED BY <3>5, <3>6, <3>7
  <2> QED BY <2>1, <2>3, <2>4, <2>8, <2>9, ServeStep DEF Catalog!Next
<1>7. ASSUME NEW s \in Save, WriteTemplate(s) PROVE [Catalog!Next]_(Catalog!vars)
  <2>1. /\ UNCHANGED <<backup, pub, seen>> /\ saved' = saved \cup {s}
        /\ dir' = [dir EXCEPT ![Teams].own = @ \cup {s}]
    BY <1>7 DEF WriteTemplate
  <2>2. Before(Agents)' = Before(Agents)
    BY <1>1, <2>1 DEF Before, MovedAway, Content, Teams, Agents, Dir
  <2> QED BY <2>1, <2>2, KeepStep DEF Catalog!Next
<1>8. CASE BackendChanges \/ Dispose \/ CloseLease \/ UNCHANGED vars
  BY <1>3, <1>8 DEF BackendChanges, Dispose, CloseLease, catalogVars, vars
<1>9. ASSUME NEW r \in Refresh, Request(r) \/ Load(r) \/ AskLease(r) \/ Finish(r)
      PROVE  [Catalog!Next]_(Catalog!vars)
  BY <1>3, <1>9 DEF Request, Load, AskLease, Finish
<1>10. ASSUME UNCHANGED catalogVars PROVE [Catalog!Next]_(Catalog!vars)
  BY <1>3, <1>10 DEF catalogVars
<1> QED
  BY <1>4, <1>5, <1>6, <1>7, <1>8, <1>9, <1>10
  DEF Steady, Publisher, AskConsumer, AskSave, Leave, AskForeign

\* The three directories, renamed one after another, are to their consumers one
\* atomic register that never goes back and never loses a saved template.
THEOREM CatalogIsAtomic == ASSUME Root = {} PROVE SteadySpec => KeepsCatalog
<1>1. Init => Catalog!Init
  BY DEF Init, Catalog!Init, Live, IdlePub, Missing, Agents, Teams, Dir
<1>2. AtomicInv /\ AtomicInv' /\ [Steady]_vars => [Catalog!Next]_(Catalog!vars)
  BY StepRefines
<1> QED BY <1>1, <1>2, CatalogAtomicInvariant, PTL DEF SteadySpec, KeepsCatalog, Catalog!Spec
================================================================================
