------------------------------ MODULE TaskList ------------------------------
(***************************************************************************)
(* The task list (internal/tools/tasks.go, server_sse.go): a file that the *)
(* tools of the agent process and the HTTP handlers of the server read,    *)
(* change and write as a whole.  TasksMu keeps the handlers of one process *)
(* apart; the two processes have a mutex each.                             *)
(*                                                                         *)
(* The file is a sequence of lines, most of which are a task each.  A      *)
(* task's id is a sequence of numbers ("2.1" is <<2, 1>>); of its          *)
(* description all that is kept is whether its first line is empty, and    *)
(* what its further lines look like, if there are any.                     *)
(***************************************************************************)
EXTENDS Naturals, SequencesExt, FiniteSetsExt

CONSTANTS
    Handlers,   \* requests that may be at work at the same time
    ProcessOf,  \* the process each of them is served by: "agent", or "server",
                \* which only deletes and clears
    Statuses,   \* "created", "in_progress", "completed", or some of them
    MoreLines,  \* what may follow the first line of a description
    MaxDepth,   \* bound: numbers in an id
    MaxChanges  \* bound: requests served

ASSUME TaskAssumption ==
    /\ ProcessOf \in [Handlers -> {"agent", "server"}]
    /\ "nobody" \notin Handlers
    /\ <<>> \in MoreLines
    /\ MaxChanges \in Nat

VARIABLES
    tasksFile,  \* tasks.txt
    tasksMu,    \* per process: the handler that holds TasksMu
    tpc,        \* per handler: "idle", "begin", "read", "write"
    request,    \* per handler: the request
    result,     \* per handler: the list it is about to write
    changes,    \* number of requests so far
    board,      \* history: what the requests come to, served one by one
    crossed,    \* history: a request of one process was served between the
                \* reading and the writing of the other
    emptied,    \* history: a task without a description was written
    forged,     \* history: a description with line breaks was written
    detached,   \* handlers whose open file has been removed under them
    overlaid    \* history: a list was written over another one

taskHist == <<crossed, emptied, forged, overlaid>>
taskVars == <<tasksFile, tasksMu, tpc, request, result, changes, board, detached,
              taskHist>>

Processes == {ProcessOf[h] : h \in Handlers}
Nobody == "nobody"
NoRequest == [kind |-> "none"]

TaskInit ==
    /\ tasksFile = <<>>
    /\ tasksMu = [p \in Processes |-> Nobody]
    /\ tpc = [h \in Handlers |-> "idle"]
    /\ request = [h \in Handlers |-> NoRequest]
    /\ result = [h \in Handlers |-> <<>>]
    /\ changes = 0
    /\ board = <<>>
    /\ crossed = FALSE /\ emptied = FALSE /\ forged = FALSE
    /\ detached = {} /\ overlaid = FALSE

-----------------------------------------------------------------------------
(* What a request makes of a list. *)

(* The entries of ts at the places in keep, appended one by one. *)
Kept(ts, keep) ==
    LET upTo[n \in 0 .. Len(ts)] ==
            IF n = 0 THEN <<>>
            ELSE IF n \in keep THEN Append(upTo[n - 1], ts[n]) ELSE upTo[n - 1]
    IN  upTo[Len(ts)]

(* ParseTaskLine wants four characters after the id, and a line is trimmed
   before: a task without a description is not read back.  Any other line that is
   no task counts as one without a description. *)
Parse(ts) == Kept(ts, {i \in DOMAIN ts : ~ts[i].empty})

Ids(ts) == {ts[i].id : i \in DOMAIN ts}

(* The order of SortTasks: number by number, a prefix first. *)
Before(a, b) ==
    \/ IsStrictPrefix(a, b)
    \/ \E k \in DOMAIN a \cap DOMAIN b :
          a[k] < b[k] /\ \A j \in 1 .. k - 1 : a[j] = b[j]

(* sort.Slice: the same entries, none before one that it should follow. *)
SortTasks(ts) ==
    LET perm == CHOOSE p \in Bijection(DOMAIN ts, DOMAIN ts) :
                   \A i, j \in DOMAIN ts : i < j => ~Before(ts[p[j]].id, ts[p[i]].id)
    IN  [i \in DOMAIN ts |-> ts[perm[i]]]

(* NextTopLevelID, NextChildID: one more than the highest number among the
   children of parent (<<>> for the top level). *)
NextId(ts, parent) ==
    LET children == {id \in Ids(ts) :
                        Len(id) = Len(parent) + 1 /\ IsPrefix(parent, id)}
    IN Append(parent, Max({0} \cup {Last(id) : id \in children}) + 1)

Insert(ts, t) == SortTasks(Append(ts, t))

Create(ts, parent, status, empty) ==
    IF parent = <<>> \/ parent \in Ids(ts)
    THEN Insert(ts, [id |-> NextId(ts, parent), status |-> status, empty |-> empty])
    ELSE ts

(* The first task with the id. *)
SetStatus(ts, id, status) ==
    [i \in DOMAIN ts |->
        IF ts[i].id = id /\ \A j \in 1 .. i - 1 : ts[j].id # id
        THEN [ts[i] EXCEPT !.status = status] ELSE ts[i]]

(* Bug: the children stay. *)
DeleteAlone(ts, id) == Kept(ts, {i \in DOMAIN ts : ts[i].id # id})

Delete(ts, id) == Kept(ts, {i \in DOMAIN ts : ~IsPrefix(id, ts[i].id)})

Outcome(ts, r) ==
    CASE r.kind = "create" -> Create(ts, r.id, r.status, r.empty)
      [] r.kind = "status" -> SetStatus(ts, r.id, r.status)
      [] r.kind = "delete" -> Delete(ts, r.id)
      [] r.kind = "clear"  -> <<>>

(* FormatTasks: a line for each task; of a new one whose description has line
   breaks, the further lines follow, and will be read as any others are. *)
Breaks(r) == r.kind = "create" /\ r.more # <<>>

Written(ts, r) ==
    IF ~Breaks(r) THEN Outcome(ts, r)
    ELSE LET out == Outcome(ts, r)
             new == CHOOSE i \in DOMAIN out : out[i].id = NextId(ts, r.id)
         IN SubSeq(out, 1, new) \o r.more \o SubSeq(out, new + 1, Len(out))

(* What is left of the lines ts when others are written over them from the start
   of the file: all of them, if there is nothing to write; or some of the last
   ones, of which the first may be cut, and is then no task, or has lost the
   beginning of its id. *)
LeftOf(ts, written) ==
    IF ts = <<>> \/ written = <<>> THEN {ts}
    ELSE {SubSeq(ts, k, Len(ts)) : k \in 2 .. Len(ts) + 1}
         \cup {<<[ts[k] EXCEPT !.id = Tail(@)]>> \o SubSeq(ts, k + 1, Len(ts)) :
                  k \in {i \in DOMAIN ts : Len(ts[i].id) > 1}}

-----------------------------------------------------------------------------
(* A handler: lock, read, truncate and write (os.WriteFile), unlock; or lock,
   remove the file, unlock. *)

TaskGoto(h, from, to) == tpc[h] = from /\ tpc' = [tpc EXCEPT ![h] = to]

(* Bound: nothing more is created after a description with line breaks. *)
Asked(h) ==
    LET known == Ids(board) \cup {<<1>>}
        parents == {<<>>} \cup {id \in known : Len(id) < MaxDepth}
    IN {[kind |-> "delete", id |-> id] : id \in known} \cup {[kind |-> "clear"]}
       \cup IF ProcessOf[h] = "server" THEN {}
            ELSE [kind : {"status"}, id : known, status : Statuses]
                 \cup IF forged THEN {}
                      ELSE [kind : {"create"}, id : parents, status : Statuses,
                            empty : BOOLEAN, more : MoreLines]

RequestArrives(h) ==
    /\ changes < MaxChanges
    /\ changes' = changes + 1
    /\ TaskGoto(h, "idle", "begin")
    /\ \E r \in Asked(h) : request' = [request EXCEPT ![h] = r]
    /\ UNCHANGED <<tasksFile, tasksMu, result, board, detached, taskHist>>

(* Bug: the list is read before the lock is taken. *)
ReadTasksUnlocked(h) ==
    /\ TaskGoto(h, "begin", "read")
    /\ result' = [result EXCEPT ![h] = Parse(tasksFile)]
    /\ UNCHANGED <<tasksFile, tasksMu, request, changes, board, detached, taskHist>>

(* TasksMu.Lock, ReadTasks: no file is an empty list.  (What a handler that
   clears the list has read it does not use.) *)
ReadTasks(h) ==
    /\ tasksMu[ProcessOf[h]] = Nobody
    /\ tasksMu' = [tasksMu EXCEPT ![ProcessOf[h]] = h]
    /\ TaskGoto(h, "begin", "read")
    /\ result' = [result EXCEPT ![h] = Parse(tasksFile)]
    /\ UNCHANGED <<tasksFile, request, changes, board, detached, taskHist>>

OtherInside(h) ==
    \E other \in Handlers :
        /\ ProcessOf[other] # ProcessOf[h]
        /\ tpc[other] \in {"read", "write"}
        /\ request[other].kind # "clear"

(* What is not found is answered without a write: a task, or for a deletion also
   anything that is below it. *)
NotFound(h) ==
    LET r == request[h]
    IN \/ /\ r.kind \in {"create", "status"} /\ r.id # <<>>
          /\ r.id \notin Ids(result[h])
       \/ /\ r.kind = "delete"
          /\ \A id \in Ids(result[h]) : ~IsPrefix(r.id, id)

Unlock(h) == tasksMu' = [p \in Processes |-> IF tasksMu[p] = h THEN Nobody
                                             ELSE tasksMu[p]]

Done(h) ==
    /\ request' = [request EXCEPT ![h] = NoRequest]
    /\ result' = [result EXCEPT ![h] = <<>>]

AnswerNotFound(h) ==
    /\ TaskGoto(h, "read", "idle")
    /\ NotFound(h)
    /\ board' = Outcome(board, request[h])
    /\ crossed' = (crossed \/ OtherInside(h))
    /\ Unlock(h)
    /\ Done(h)
    /\ UNCHANGED <<tasksFile, changes, detached, emptied, forged, overlaid>>

(* TasksClearHandler, handleTasksClear: os.Remove.  Whoever has the file open
   writes to the removed one. *)
TasksClear(h) ==
    /\ TaskGoto(h, "read", "idle")
    /\ request[h].kind = "clear"
    /\ tasksFile' = <<>>
    /\ detached' = detached \cup {g \in Handlers : tpc[g] = "write"}
    /\ board' = Outcome(board, request[h])
    /\ crossed' = (crossed \/ OtherInside(h))
    /\ Unlock(h)
    /\ Done(h)
    /\ UNCHANGED <<changes, emptied, forged, overlaid>>

(* os.WriteFile opens with O_TRUNC. *)
Truncate(h) ==
    /\ TaskGoto(h, "read", "write")
    /\ request[h].kind # "clear"
    /\ ~NotFound(h)
    /\ result' = [result EXCEPT ![h] = Written(@, request[h])]
    /\ tasksFile' = <<>>
    /\ crossed' = (crossed \/ OtherInside(h))
    /\ forged' = (forged \/ Breaks(request[h]))
    /\ UNCHANGED <<tasksMu, request, changes, board, detached, emptied, overlaid>>

(* It then writes from the start of what it has opened, which may by now hold the
   list of the other process, or be removed. *)
WriteTasks(h) ==
    /\ TaskGoto(h, "write", "idle")
    /\ \/ /\ h \notin detached
          /\ \E left \in LeftOf(tasksFile, result[h]) :
                tasksFile' = result[h] \o left
          /\ overlaid' = (overlaid \/ tasksFile # <<>>)
       \/ /\ h \in detached
          /\ UNCHANGED <<tasksFile, overlaid>>
    /\ detached' = detached \ {h}
    /\ board' = Outcome(board, request[h])
    /\ crossed' = (crossed \/ OtherInside(h))
    /\ emptied' = (emptied \/ Parse(result[h]) # result[h])
    /\ Unlock(h)
    /\ Done(h)
    /\ UNCHANGED <<changes, forged>>

TaskNext ==
    \E h \in Handlers :
        \/ RequestArrives(h) \/ ReadTasks(h)
        \/ AnswerNotFound(h) \/ TasksClear(h)
        \/ Truncate(h) \/ WriteTasks(h)

TaskSpec == TaskInit /\ [][TaskNext]_taskVars

-----------------------------------------------------------------------------
(* Task ids are unique and in order, and the parent of a task is in the list: at
   every moment, though the two processes undo each other's changes, as long as no
   list was written over another one and no description had line breaks.
   (ParseTasks, NextChildID and the panel of the web client rely on it.) *)
ListWellFormed ==
    ~overlaid /\ ~forged =>
        /\ \A i, j \in DOMAIN tasksFile :
              i < j => Before(tasksFile[i].id, tasksFile[j].id)
        /\ \A id \in Ids(tasksFile) :
              Len(id) > 1 => Front(id) \in Ids(tasksFile)

(* As long as no request of one process falls between the reading and the
   writing of the other, no task is without a description, and no description has
   line breaks, the file is what the requests come to: within a process TasksMu
   loses no change.  (tasks.go:17.) *)
ChangesKept ==
    (~crossed /\ ~emptied /\ ~forged /\ \A h \in Handlers : tpc[h] # "write")
        => tasksFile = board

(* The types, and that a handler has read and not yet answered if and only if it
   holds the TasksMu of its process (Lock and deferred Unlock of tasks.go).  Lists
   are only written over each other, or to a file that has been removed, when a
   request of one process was served inside one of the other. *)
TaskTypeOK ==
    /\ \A h \in Handlers : tpc[h] \in {"idle", "begin", "read", "write"}
    /\ \A p \in Processes : tasksMu[p] \in {Nobody} \cup Handlers
    /\ \A h \in Handlers :
          tpc[h] \in {"read", "write"} <=> tasksMu[ProcessOf[h]] = h
    /\ ~overlaid /\ ~forged =>
          \A i \in DOMAIN tasksFile : tasksFile[i].status \in Statuses
    /\ changes \in 0 .. MaxChanges
    /\ {crossed, emptied, forged, overlaid} \subseteq BOOLEAN
    /\ detached \subseteq Handlers
    /\ overlaid \/ detached # {} => crossed
=============================================================================
