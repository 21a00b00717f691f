------------------------------ MODULE TrellisTasks ------------------------------
(*****************************************************************************)
(* The tasks of one Trellis project: the tools trellis_task_create, _update  *)
(* and _archive, the bind route and the board route, each a sequence of      *)
(* reads and writes of files between which other calls run.  Nothing locks   *)
(* the project.                                                              *)
(*                                                                           *)
(* Abstractions.  Of task.json only the status is kept, and planning and     *)
(* in_progress are both "open"; of a pointer file only current_task.  The    *)
(* archive is one bucket: the tasks have the same month.  The templates a    *)
(* new task is seeded with, the tracks of stages and the summaries cached    *)
(* for the chip are left out.  The git check answers anything.               *)
(*****************************************************************************)
EXTENDS Naturals, FiniteSets

CONSTANTS
  Caller,     \* tool calls and requests that may be under way at once
  TaskSession,
  Slug,
  NoTask,     \* current_task is null
  NoFile,     \* the session has no pointer file
  MaxCalls    \* bound: calls made

ASSUME TrellisAssumption == MaxCalls \in Nat /\ NoTask \notin Slug /\ NoFile \notin Slug

Status == {"open", "completed"}

VARIABLES
  record,    \* status in .trellis/tasks/<slug>/task.json, "none" without the file
  archived,  \* slugs in the archive bucket
  pointer,   \* current_task of each session's own pointer file
  bucket,    \* archiveBucketsCache: the slugs cached for the bucket, or NoBucket
  op,        \* what each caller does, or NoOp
  made,      \* calls made so far
  spoiled,   \* slugs on which calls other than boards overlapped, whose archiving was
             \* aborted or whose name was used again after it
  raced      \* slugs that moved to the archive while a board was being built, or
             \* whose archiving was aborted before it dropped the cached bucket

trellisVars == <<record, archived, pointer, bucket, op, made, spoiled, raced>>

NoOp == [name |-> "none"]
NoBucket == [cached |-> FALSE]
Cached(tasks) == [cached |-> TRUE, tasks |-> tasks]

TrellisInit ==
  /\ record = [x \in Slug |-> "none"] /\ archived = {}
  /\ pointer = [s \in TaskSession |-> NoFile]
  /\ bucket = NoBucket /\ op = [c \in Caller |-> NoOp] /\ made = 0
  /\ spoiled = {} /\ raced = {}

Exists(x) == record[x] # "none" \/ x \in archived

\* The slug a call reads or writes; a board reads both trees and changes neither.
Touches(o) == {x \in Slug : o.name \notin {"none", "board"} /\ o.slug = x}

\* The task has moved and the cached bucket is not dropped yet.
Moving(o, x) == o.name = "archive" /\ o.slug = x /\ o.step \in {"list", "scan", "unbind"}

\* Caller c goes on with o, and a board meets the tasks that are moving.
NextOp(c, o) ==
  /\ op' = [op EXCEPT ![c] = o]
  /\ raced' = raced \cup {x \in Slug : /\ \E d \in Caller : Moving(op'[d], x)
                                       /\ \E d \in Caller : op'[d].name = "board"}

\* The slugs it shares with another call are spoiled.
Proceeds(c, o) ==
  /\ NextOp(c, o)
  /\ spoiled' = spoiled \cup
       (Touches(o) \cap UNION {Touches(op[d]) : d \in Caller \ {c}})

At(c, name, step) == op[c].name = name /\ op[c].step = step
Goes(c, step) == Proceeds(c, [op[c] EXCEPT !.step = step])
Ends(c) == Proceeds(c, NoOp)

Begins(c, o) == op[c] = NoOp /\ made < MaxCalls /\ made' = made + 1 /\ Proceeds(c, o)

-----------------------------------------------------------------------------
(* createTaskRecord *)

Create(c, s, x, st) ==
  /\ Begins(c, [name |-> "create", session |-> s, slug |-> x, status |-> st, step |-> "stat"])
  /\ UNCHANGED <<record, archived, pointer, bucket>>

\* Only the active directory is looked at.
CreateStats(c) ==
  /\ At(c, "create", "stat")
  /\ IF record[op[c].slug] # "none" THEN Ends(c) ELSE Goes(c, "write")
  /\ UNCHANGED <<record, archived, pointer, bucket, made>>

CreateWrites(c) ==
  /\ At(c, "create", "write")
  /\ record' = [record EXCEPT ![op[c].slug] = op[c].status]
  /\ NextOp(c, [op[c] EXCEPT !.step = "point"])
  /\ spoiled' = spoiled \cup ({op[c].slug} \cap archived)
  /\ UNCHANGED <<archived, pointer, bucket, made>>

\* writePointerFile, of the session's own file
Point(s, x) == pointer' = [pointer EXCEPT ![s] = x]

\* The last step of create, update and bind.
Points(c) ==
  /\ op[c].name \in {"create", "update", "bind"} /\ op[c].step = "point"
  /\ Point(op[c].session, op[c].slug)
  /\ Ends(c)
  /\ UNCHANGED <<record, archived, bucket, made>>

\* A write of create, update or bind is aborted or refused: what was written stays.
WriteFails(c) ==
  /\ op[c].name \in {"create", "update", "bind"} /\ op[c].step \in {"write", "point"}
  /\ Ends(c)
  /\ UNCHANGED <<record, archived, pointer, bucket, made>>

-----------------------------------------------------------------------------
(* updateTaskRecord; "keep" changes other fields than the status *)

Update(c, s, x, st) ==
  /\ Begins(c, [name |-> "update", session |-> s, slug |-> x, status |-> st,
                step |-> IF x = NoTask THEN "find" ELSE "read"])
  /\ UNCHANGED <<record, archived, pointer, bucket>>

\* findActiveTaskSlug, of the session's own pointer
Finds(c) ==
  IF pointer[op[c].session] \in Slug
  THEN Proceeds(c, [op[c] EXCEPT !.slug = pointer[op[c].session], !.step = "read"])
  ELSE Ends(c)

UpdateFinds(c) ==
  /\ At(c, "update", "find") /\ Finds(c)
  /\ UNCHANGED <<record, archived, pointer, bucket, made>>

\* The status that will be written is settled here; the git check may refuse it.
UpdateReads(c) ==
  /\ At(c, "update", "read")
  /\ LET now == record[op[c].slug] IN
     \/ (now = "none" \/ op[c].status = "completed") /\ Ends(c)
     \/ /\ now # "none"
        /\ Proceeds(c, [op[c] EXCEPT !.step = "write", !.status = IF @ = "keep" THEN now ELSE @])
  /\ UNCHANGED <<record, archived, pointer, bucket, made>>

UpdateWrites(c) ==
  /\ At(c, "update", "write")
  /\ record' = [record EXCEPT ![op[c].slug] = op[c].status]
  /\ Goes(c, "point")
  /\ UNCHANGED <<archived, pointer, bucket, made>>

-----------------------------------------------------------------------------
(* archiveTaskRecord *)

Archive(c, x) ==
  /\ Begins(c, [name |-> "archive", slug |-> x, step |-> "read", todo |-> {}])
  /\ UNCHANGED <<record, archived, pointer, bucket>>

\* A task that is not completed, or a working tree that is not clean, is refused.
ArchiveReads(c) ==
  /\ At(c, "archive", "read")
  /\ \/ Ends(c)
     \/ record[op[c].slug] = "completed" /\ Goes(c, "move")
  /\ UNCHANGED <<record, archived, pointer, bucket, made>>

\* Mutation: the source is removed before the target is there.
MoveLate(x) == record' = [record EXCEPT ![x] = "none"] /\ UNCHANGED archived

\* renameSync
Move(x) == record' = [record EXCEPT ![x] = "none"] /\ archived' = archived \cup {x}

\* The target must be free and the source still there.
ArchiveMoveFails(c) ==
  /\ At(c, "archive", "move")
  /\ op[c].slug \in archived \/ record[op[c].slug] = "none"
  /\ Ends(c)
  /\ UNCHANGED <<record, archived, pointer, bucket, made>>

ArchiveMoves(c) ==
  /\ At(c, "archive", "move")
  /\ op[c].slug \notin archived /\ record[op[c].slug] # "none"
  /\ Move(op[c].slug)
  /\ Goes(c, "list")
  /\ UNCHANGED <<pointer, bucket, made>>

\* An abort, after the move or at a write that is then skipped.
Aborted(c) ==
  /\ op[c].name = "archive" /\ op[c].step \in {"list", "unbind"}
  /\ IF op[c].step = "list"
     THEN op' = [op EXCEPT ![c] = NoOp] /\ raced' = raced \cup {op[c].slug}
     ELSE NextOp(c, [op[c] EXCEPT !.step = "scan", !.todo = @ \ {op[c].file}])
  /\ spoiled' = spoiled \cup {op[c].slug}
  /\ UNCHANGED <<record, archived, pointer, bucket, made>>

ArchiveLists(c) ==
  /\ At(c, "archive", "list")
  /\ Proceeds(c, [name |-> "archive", slug |-> op[c].slug, step |-> "scan",
                  todo |-> {s \in TaskSession : pointer[s] # NoFile}, file |-> NoFile])
  /\ UNCHANGED <<record, archived, pointer, bucket, made>>

BoundTo(s, x) == pointer[s] = x

ArchiveReadsPointer(c, s) ==
  /\ At(c, "archive", "scan") /\ s \in op[c].todo
  /\ IF BoundTo(s, op[c].slug)
     THEN Proceeds(c, [op[c] EXCEPT !.step = "unbind", !.file = s])
     ELSE Proceeds(c, [op[c] EXCEPT !.todo = @ \ {s}])
  /\ UNCHANGED <<record, archived, pointer, bucket, made>>

ArchiveUnbinds(c) ==
  /\ At(c, "archive", "unbind")
  /\ pointer' = [pointer EXCEPT ![op[c].file] = NoTask]
  /\ Proceeds(c, [op[c] EXCEPT !.step = "scan", !.todo = @ \ {op[c].file}])
  /\ UNCHANGED <<record, archived, bucket, made>>

\* Mutation: the cached bucket is kept.
InvalidateNone == UNCHANGED bucket

\* invalidateArchiveBucket
Invalidate == bucket' = NoBucket

ArchiveEnds(c) ==
  /\ At(c, "archive", "scan") /\ op[c].todo = {}
  /\ Invalidate /\ Ends(c)
  /\ UNCHANGED <<record, archived, pointer, made>>

-----------------------------------------------------------------------------
(* The bind route *)

Bind(c, s, x) ==
  /\ Begins(c, [name |-> "bind", session |-> s, slug |-> x, step |-> IF x = NoTask THEN "point" ELSE "stat"])
  /\ UNCHANGED <<record, archived, pointer, bucket>>

\* Mutation: a task that has been archived can be bound.
BindableAny(x) == Exists(x)

Bindable(x) == record[x] # "none"

BindStats(c) ==
  /\ At(c, "bind", "stat")
  /\ IF Bindable(op[c].slug) THEN Goes(c, "point") ELSE Ends(c)
  /\ UNCHANGED <<record, archived, pointer, bucket, made>>

-----------------------------------------------------------------------------
(* buildBoard: the active tasks and the archive are read at once *)

Unread == [read |-> FALSE]
Found(tasks) == [read |-> TRUE, tasks |-> tasks]

\* "there" keeps the tasks that existed when the board was asked for.
Board(c) ==
  /\ Begins(c, [name |-> "board", active |-> Unread, archive |-> Unread, step |-> "lookup",
                there |-> {x \in Slug : Exists(x)}])
  /\ UNCHANGED <<record, archived, pointer, bucket>>

BoardReadsActive(c) ==
  /\ op[c].name = "board" /\ op[c].active = Unread
  /\ Proceeds(c, [op[c] EXCEPT !.active = Found({x \in Slug : record[x] # "none"})])
  /\ UNCHANGED <<record, archived, pointer, bucket, made>>

\* A cached bucket serves without a read.
BoardLooksUp(c) ==
  /\ At(c, "board", "lookup")
  /\ IF bucket # NoBucket
     THEN Proceeds(c, [op[c] EXCEPT !.step = "done", !.archive = Found(bucket.tasks)])
     ELSE Proceeds(c, [op[c] EXCEPT !.step = "cache", !.archive = Found(archived)])
  /\ UNCHANGED <<record, archived, pointer, bucket, made>>

\* What was read is cached, whatever happened since.  A bucket that does not exist
\* is not listed; a move that failed may have left it empty.
BoardCaches(c) ==
  /\ At(c, "board", "cache")
  /\ \/ bucket' = Cached(op[c].archive.tasks)
     \/ op[c].archive.tasks = {} /\ UNCHANGED bucket
  /\ Goes(c, "done")
  /\ UNCHANGED <<record, archived, pointer, made>>

BoardEnds(c) ==
  /\ At(c, "board", "done") /\ op[c].active # Unread
  /\ Ends(c)
  /\ UNCHANGED <<record, archived, pointer, bucket, made>>

-----------------------------------------------------------------------------
TrellisNext == \E c \in Caller :
  \/ \E s \in TaskSession :
       \/ \E x \in Slug : Bind(c, s, x) \/ \E st \in Status : Create(c, s, x, st)
       \/ Bind(c, s, NoTask)
       \/ \E x \in Slug \cup {NoTask}, st \in Status \cup {"keep"} : Update(c, s, x, st)
       \/ ArchiveReadsPointer(c, s)
  \/ \E x \in Slug : Archive(c, x)
  \/ CreateStats(c) \/ CreateWrites(c) \/ Points(c) \/ WriteFails(c)
  \/ UpdateFinds(c) \/ UpdateReads(c) \/ UpdateWrites(c)
  \/ ArchiveReads(c) \/ ArchiveMoveFails(c) \/ ArchiveMoves(c) \/ Aborted(c)
  \/ ArchiveLists(c) \/ ArchiveUnbinds(c) \/ ArchiveEnds(c)
  \/ BindStats(c)
  \/ Board(c) \/ BoardReadsActive(c) \/ BoardLooksUp(c) \/ BoardCaches(c) \/ BoardEnds(c)

TrellisSpec == TrellisInit /\ [][TrellisNext]_trellisVars

TrellisTypeOK ==
  /\ record \in [Slug -> Status \cup {"none"}] /\ archived \subseteq Slug
  /\ pointer \in [TaskSession -> Slug \cup {NoTask, NoFile}]
  /\ bucket = NoBucket \/ bucket.tasks \subseteq Slug
  /\ made \in 0 .. MaxCalls /\ spoiled \subseteq Slug /\ raced \subseteq Slug
  /\ \A c \in Caller : op[c].name = "update" => op[c].slug \in Slug \/ op[c].step = "find"

\* No call loses a task: its record is in the active tree or in the archive at
\* every moment, and what is archived stays there (createTaskRecord, renameSync).
TaskSurvives ==
  [][/\ \A x \in Slug : Exists(x) => Exists(x)'
     /\ archived \subseteq archived']_trellisVars

Archiving(x) == \E c \in Caller : op[c].name = "archive" /\ op[c].slug = x

\* When no other call than a board met its archiving, no abort cut it short and
\* its name was not used again, an archived task is bound to no session and has
\* no active record (archiveTaskRecord, unbindPointersTo).
ArchivedIsClosed ==
  \A x \in archived \ spoiled : ~Archiving(x) =>
    record[x] = "none" /\ \A s \in TaskSession : pointer[s] # x

\* Whatever runs beside it, a board lists every task that was there when it was
\* asked for, as archived exactly when it is.  The exception is a task that moved
\* while a board was being built, this one or an earlier one: it may be missed in
\* both trees, and a bucket read before the move may be cached after it
\* (buildBoard, invalidateArchiveBucket).
BoardShowsAll ==
  [][\A c \in Caller : op[c].name = "board" /\ op'[c] = NoOp =>
       \A x \in op[c].there \ raced :
         IF x \in archived THEN x \in op[c].archive.tasks
         ELSE x \in op[c].active.tasks \ op[c].archive.tasks]_trellisVars
=============================================================================
