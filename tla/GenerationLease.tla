---------------------------- MODULE GenerationLease ----------------------------
(*****************************************************************************)
(* ByClawGenerationLease: process-local admission to the template catalogs.  *)
(* A consumer (template instantiation, team creation from a template,        *)
(* template listing) reads one generation, a publisher or a template save    *)
(* replaces it; each is one operation here, run at most once.                *)
(*                                                                           *)
(* Abstractions.  The readers count is the set of the readers counted, and   *)
(* the writer flag is the operation that set it: run() calls each release    *)
(* function once, and the function ignores a second call.  The microtask     *)
(* between the resolution of an acquisition and the start of its operation   *)
(* is not a step, for the admission is over by then.                         *)
(*                                                                           *)
(* Operators introduced by "Mutation:" are wrong versions of the definition  *)
(* that follows them and not part of the specification.                      *)
(*****************************************************************************)
EXTENDS Naturals, Sequences

CONSTANTS
  Op,     \* the operations ever run under the lease
  Writer, \* those that write, the others read
  Key,    \* the catalog directories
  KeyOf,  \* the directory of each operation
  None    \* no writer

ASSUME LeaseAssumption ==
  /\ Writer \subseteq Op /\ KeyOf \in [Op -> Key] /\ None \notin Op

VARIABLES
  status,  \* how far run() of each operation has come
  entry,   \* the GenerationState of each key, empty if it has none
  present, \* the keys of the generations map
  closed   \* closeTask: not asked for, pending or resolved

leaseVars == <<status, entry, present, closed>>

Entry == [readers : SUBSET Op, writer : Op \cup {None}, waiters : Seq(Op)]
IdleEntry == [readers |-> {}, writer |-> None, waiters |-> <<>>]
closing == closed # "open"

LeaseInit ==
  /\ status = [op \in Op |-> "idle"]
  /\ entry = [k \in Key |-> IdleEntry]
  /\ present = {} /\ closed = "open"

\* Mutation: a writer does not wait for the readers that are in.
AdmitsEager(e, n) ==
  LET w == e.waiters IN
    \/ n = 0 /\ (w # <<>> => e.writer # None)
    \/ n = 1 /\ e.writer = None /\ w # <<>> /\ w[1] \in Writer
    \/ /\ n > 0 /\ e.writer = None
       /\ \A i \in 1 .. n : w[i] \notin Writer
       /\ n < Len(w) => w[n + 1] \in Writer
\* drain() lets in the first n waiters: none while a writer is in, the writer
\* at the head when no reader is in, or else all the readers at the head.
Admits(e, n) ==
  LET w == e.waiters IN
    \/ n = 0 /\ (w # <<>> => e.writer # None \/ (w[1] \in Writer /\ e.readers # {}))
    \/ n = 1 /\ e.writer = None /\ w # <<>> /\ w[1] \in Writer /\ e.readers = {}
    \/ /\ n > 0 /\ e.writer = None
       /\ \A i \in 1 .. n : w[i] \notin Writer
       /\ n < Len(w) => w[n + 1] \in Writer

\* drain(key, state) for the state e, the operations being as far as st says
Drain(k, e, st) ==
  \E n \in {m \in 0 .. Len(e.waiters) : Admits(e, m)} :
    LET in == {e.waiters[i] : i \in 1 .. n} IN
      /\ entry' = [entry EXCEPT ![k] =
           [readers |-> e.readers \cup (in \ Writer),
            writer  |-> IF in \cap Writer = {} THEN e.writer ELSE e.waiters[1],
            waiters |-> SubSeq(e.waiters, n + 1, Len(e.waiters))]]
      /\ status' = [op \in Op |-> IF op \in in THEN "admitted" ELSE st[op]]

\* Mutation: readers go to the front of the queue.
AcquireFirst(op) ==
  /\ status[op] = "idle" /\ ~closing
  /\ LET k == KeyOf[op] IN
       /\ Drain(k, [entry[k] EXCEPT !.waiters =
                      IF op \in Writer THEN Append(@, op) ELSE <<op>> \o @],
                [status EXCEPT ![op] = "waiting"])
       /\ present' = present \cup {k}
  /\ UNCHANGED closed
\* acquire(): the operation joins the queue of its key.
Acquire(op) ==
  /\ status[op] = "idle" /\ ~closing
  /\ LET k == KeyOf[op] IN
       /\ Drain(k, [entry[k] EXCEPT !.waiters = Append(@, op)],
                [status EXCEPT ![op] = "waiting"])
       /\ present' = present \cup {k}
  /\ UNCHANGED closed

Refuse(op) ==
  /\ status[op] = "idle" /\ closing
  /\ status' = [status EXCEPT ![op] = "refused"]
  /\ UNCHANGED <<entry, present, closed>>

\* Mutation: whoever waits is not let in.
ReleaseOnly(op) ==
  /\ status[op] = "admitted"
  /\ LET k == KeyOf[op]
         e == [entry[k] EXCEPT !.readers = @ \ {op},
                               !.writer = IF @ = op THEN None ELSE @] IN
       /\ entry' = [entry EXCEPT ![k] = e]
       /\ status' = [status EXCEPT ![op] = "settled"]
       /\ present' = IF e = IdleEntry THEN present \ {k} ELSE present
       /\ closed' = IF closed = "pending" /\ present' = {} THEN "resolved" ELSE closed
\* The operation has settled, in whatever way: it leaves, and an entry that
\* falls idle is retired, the last one ending a close() that waits for it.
Release(op) ==
  /\ status[op] = "admitted"
  /\ LET k == KeyOf[op]
         e == [entry[k] EXCEPT !.readers = @ \ {op},
                               !.writer = IF @ = op THEN None ELSE @] IN
       /\ Drain(k, e, [status EXCEPT ![op] = "settled"])
       /\ present' = IF e = IdleEntry THEN present \ {k} ELSE present
       /\ closed' = IF closed = "pending" /\ present' = {} THEN "resolved" ELSE closed
Close ==
  /\ closed = "open"
  /\ closed' = IF present = {} THEN "resolved" ELSE "pending"
  /\ UNCHANGED <<status, entry, present>>

LeaseNext == Close \/ \E op \in Op : Acquire(op) \/ Refuse(op) \/ Release(op)

LeaseSpec == LeaseInit /\ [][LeaseNext]_leaseVars

--------------------------------------------------------------------------------
(* Properties.                                                               *)

LeaseTypeOK ==
  /\ status \in [Op -> {"idle", "waiting", "admitted", "settled", "refused"}]
  /\ entry \in [Key -> Entry] /\ present \subseteq Key
  /\ closed \in {"open", "pending", "resolved"}

\* A writer under the lease of a catalog is alone there.
Exclusion ==
  \A o, p \in Op :
    status[o] = "admitted" /\ status[p] = "admitted" /\ KeyOf[o] = KeyOf[p]
      /\ o \in Writer => o = p

\* close() resolves only after the last operation, admitted or waiting, is over,
\* and nobody gets in afterwards.
CloseDrains ==
  closed = "resolved" => \A o \in Op : status[o] \notin {"waiting", "admitted"}

\* p came to the queue of o later than o, or comes only now.
Ahead(o, p) ==
  /\ KeyOf[o] = KeyOf[p] /\ status[o] = "waiting"
  /\ LET w == entry[KeyOf[o]].waiters IN
       status[p] = "idle" \/ \E j \in 2 .. Len(w) : \E i \in 1 .. j - 1 : w[i] = o /\ w[j] = p

\* Nobody is admitted while an operation that came before it is left waiting: a
\* stream of readers cannot keep a writer out.
NoOvertaking ==
  [][\A o, p \in Op :
       Ahead(o, p) /\ status'[p] = "admitted" => status'[o] # "waiting"]_leaseVars
================================================================================
