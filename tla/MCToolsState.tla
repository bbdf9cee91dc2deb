---------------------------- MODULE MCToolsState ----------------------------
(* Small instances for TLC of the components that keep state for the tools and
   the pages, and of what the index makes of a file and of a query.  They share
   nothing: in a behaviour one of them moves. *)
EXTENDS TaskList, MemoryStore, SedConfirm, ServerEvents, Chunker, CodeSearch

VARIABLE part

Parts == {"tasks", "memory", "sed", "events", "notifs", "chunks", "search"}

Init ==
    /\ part \in Parts
    /\ TaskInit /\ MemInit /\ SedInit /\ SEInit /\ ChunkerInit /\ SearchInit
    /\ part # "sed" => wouldChange = [s \in Sigs |-> "none"]
    /\ part # "notifs" => lastTimestamp = 0

vars == <<part, taskVars, memVars, sedVars, seVars, chunkVars, searchVars>>

Next ==
    /\ UNCHANGED part
    /\ \/ /\ part = "tasks" /\ TaskNext
          /\ UNCHANGED <<memVars, sedVars, seVars, chunkVars, searchVars>>
       \/ /\ part = "memory" /\ MemNext
          /\ UNCHANGED <<taskVars, sedVars, seVars, chunkVars, searchVars>>
       \/ /\ part = "sed" /\ SedNext
          /\ UNCHANGED <<taskVars, memVars, seVars, chunkVars, searchVars>>
       \/ /\ part = "events" /\ EventsNext
          /\ UNCHANGED <<taskVars, memVars, sedVars, chunkVars, searchVars>>
       \/ /\ part = "notifs" /\ NotifsNext
          /\ UNCHANGED <<taskVars, memVars, sedVars, chunkVars, searchVars>>
       \/ /\ part = "chunks" /\ ChunkerNext
          /\ UNCHANGED <<taskVars, memVars, sedVars, seVars, searchVars>>
       \/ /\ part = "search" /\ SearchNext
          /\ UNCHANGED <<taskVars, memVars, sedVars, seVars, chunkVars>>

Spec == Init /\ [][Next]_vars

(* Two handlers of the agent's tools and one of the server. *)
MCHandlers  == {"h1", "h2", "h3"}
MCProcessOf == [h1 |-> "agent", h2 |-> "agent", h3 |-> "server"]

(* Line breaks in a description: none, or one before what reads like a task. *)
MCMoreLines == {<<>>, <<[id |-> <<1>>, status |-> "created", empty |-> FALSE]>>}

(* Fact b is nearly a, and like c; both extractions run in process p. *)
MCNear   == {<<"a", "b">>}
MCAlike  == {<<"b", "c">>}
MCHomeOf == [e1 |-> "p", e2 |-> "p"]

(* The reranker's scores are on both sides of zero. *)
MCScores == -1 .. 1
=============================================================================
