------------------------------ MODULE CommandRun ------------------------------
(***************************************************************************)
(* Commands and the files their output goes to (internal/tools/command.go, *)
(* exec_output.go, the ask_exec part of server_sse.go).  run_command is    *)
(* served by the process of the tools, ask_exec by the server; each counts *)
(* its runs from 1 and empties .llmdevkit/execs before its first one, and  *)
(* both use the same directory.                                            *)
(*                                                                         *)
(* Of the output only this is kept: of which runs the files of a directory *)
(* hold the output.                                                        *)
(***************************************************************************)
EXTENDS Naturals, FiniteSets

CONSTANTS
    Runs,        \* commands that may be run
    RunsIn,      \* the process that each is run by: "tools" or "server"
    MaxRestarts  \* bound: restarts of a process

VARIABLES
    execDirInit, execCounter, \* per process
    runDirs,     \* the run-<n> directories that are there
    output,      \* per number: the runs whose output the files of run-<n> hold
    rpc,         \* per run: "idle", "named", "wait", "term", "kill", "done"
                 \* or, without an answer that names
                 \* its files, "lost"
    runNum,      \* per run: its number
    child,       \* per run: "none", "running", "exited"
    held,        \* per run: a process that the child has left behind keeps
                 \* the pipe to the files open
    restarts,    \* number of restarts so far
    callers      \* history: the processes, with their restarts, that have run
                 \* a command

runVars == <<execDirInit, execCounter, runDirs, output, rpc, runNum, child, held,
             restarts, callers>>

RunProcesses == {"tools", "server"}
Numbers == 1 .. Cardinality(Runs)

ASSUME RunAssumption ==
    /\ IsFiniteSet(Runs)
    /\ RunsIn \in [Runs -> RunProcesses]
    /\ MaxRestarts \in Nat

RunInit ==
    /\ execDirInit = [p \in RunProcesses |-> FALSE]
    /\ execCounter = [p \in RunProcesses |-> 0]
    /\ runDirs = {}
    /\ output = [n \in Numbers |-> {}]
    /\ rpc = [r \in Runs |-> "idle"]
    /\ runNum = [r \in Runs |-> 0]
    /\ child = [r \in Runs |-> "none"]
    /\ held = [r \in Runs |-> FALSE]
    /\ restarts = [p \in RunProcesses |-> 0]
    /\ callers = {}

RunGoto(r, from, to) == rpc[r] \in from /\ rpc' = [rpc EXCEPT ![r] = to]

(* Runs whose output is still copied to the files of run-<n>. *)
Writing(n) == {r \in output[n] : rpc[r] \in {"wait", "term", "kill"}}

-----------------------------------------------------------------------------
(* NextExecRunDir, under execDirMu. *)

(* Bug: execDirInit is never set. *)
NextExecRunDirEmpties(r) ==
    LET p == RunsIn[r]
        num == execCounter[p] + 1
    IN /\ RunGoto(r, {"idle"}, "named")
       /\ execCounter' = [execCounter EXCEPT ![p] = num]
       /\ runNum' = [runNum EXCEPT ![r] = num]
       /\ runDirs' = {num}
       /\ output' = [n \in Numbers |-> {}]
       /\ callers' = callers \cup {<<p, restarts[p]>>}
       /\ UNCHANGED <<execDirInit, child, held, restarts>>

NextExecRunDir(r) ==
    LET p == RunsIn[r]
        num == execCounter[p] + 1
    IN /\ RunGoto(r, {"idle"}, "named")
       /\ execDirInit' = [execDirInit EXCEPT ![p] = TRUE]
       /\ execCounter' = [execCounter EXCEPT ![p] = num]
       /\ runNum' = [runNum EXCEPT ![r] = num]
       /\ \/ /\ execDirInit[p]
             /\ runDirs' = runDirs \cup {num}
             /\ UNCHANGED output
          \/ /\ ~execDirInit[p]
             /\ runDirs' = {num}
             /\ output' = [n \in Numbers |-> {}]
       /\ callers' = callers \cup {<<p, restarts[p]>>}
       /\ UNCHANGED <<child, held, restarts>>

(* CreateExecOutputFiles truncates files that are there, which other runs may
   go on writing to; cmd.Start. *)
StartCommand(r) ==
    /\ runNum[r] \in runDirs
    /\ RunGoto(r, {"named"}, "wait")
    /\ output' = [output EXCEPT ![runNum[r]] = {r} \cup Writing(runNum[r])]
    /\ child' = [child EXCEPT ![r] = "running"]
    /\ UNCHANGED <<execDirInit, execCounter, runDirs, runNum, held, restarts,
                   callers>>

(* The files cannot be created, as when the directory has been removed since,
   or the program cannot be started: an answer without output. *)
SetupFails(r) ==
    /\ RunGoto(r, {"named"}, "lost")
    /\ output' = IF runNum[r] \in runDirs
                 THEN [output EXCEPT ![runNum[r]] = Writing(runNum[r])]
                 ELSE output
    /\ UNCHANGED <<execDirInit, execCounter, runDirs, runNum, child, held,
                   restarts, callers>>

-----------------------------------------------------------------------------
(* The command, and the wait for it. *)

(* The child ends, of itself or by SIGTERM; what it has started may live on. *)
ChildExits(r) ==
    /\ child[r] = "running"
    /\ child' = [child EXCEPT ![r] = "exited"]
    /\ \E h \in BOOLEAN : held' = [held EXCEPT ![r] = h]
    /\ UNCHANGED <<execDirInit, execCounter, runDirs, output, rpc, runNum,
                   restarts, callers>>

HolderEnds(r) ==
    /\ held[r]
    /\ held' = [held EXCEPT ![r] = FALSE]
    /\ UNCHANGED <<execDirInit, execCounter, runDirs, output, rpc, runNum, child,
                   restarts, callers>>

(* The time is up: SIGTERM.  In the server the context of the command is then
   done, which is SIGKILL at once. *)
TimesOut(r) ==
    /\ RunsIn[r] = "tools"
    /\ RunGoto(r, {"wait"}, "term")
    /\ UNCHANGED <<execDirInit, execCounter, runDirs, output, runNum, child, held,
                   restarts, callers>>

(* Bug: the process is not killed. *)
KillGivesUp(r) ==
    /\ RunGoto(r, IF RunsIn[r] = "tools" THEN {"term"} ELSE {"wait"}, "kill")
    /\ UNCHANGED <<execDirInit, execCounter, runDirs, output, runNum, child, held,
                   restarts, callers>>

(* Five seconds later, SIGKILL, to the child alone. *)
Kill(r) ==
    /\ RunGoto(r, IF RunsIn[r] = "tools" THEN {"term"} ELSE {"wait"}, "kill")
    /\ child' = [child EXCEPT ![r] = "exited"]
    /\ \/ child[r] = "running" /\ held' = [held EXCEPT ![r] = TRUE]
       \/ UNCHANGED held
    /\ UNCHANGED <<execDirInit, execCounter, runDirs, output, runNum, restarts,
                   callers>>

(* cmd.Wait, which is also there until nothing has the pipe open; the header,
   and the answer that names the files. *)
WaitReturns(r) ==
    /\ child[r] = "exited" /\ ~held[r]
    /\ RunGoto(r, {"wait", "term", "kill"}, "done")
    /\ UNCHANGED <<execDirInit, execCounter, runDirs, output, runNum, child, held,
                   restarts, callers>>

(* A process ends and starts again; nothing is copied to the files any more. *)
RunnerRestarts(p) ==
    /\ restarts[p] < MaxRestarts
    /\ restarts' = [restarts EXCEPT ![p] = @ + 1]
    /\ execDirInit' = [execDirInit EXCEPT ![p] = FALSE]
    /\ execCounter' = [execCounter EXCEPT ![p] = 0]
    /\ rpc' = [r \in Runs |-> IF RunsIn[r] = p /\ rpc[r] \notin {"idle", "done"}
                              THEN "lost" ELSE rpc[r]]
    /\ UNCHANGED <<runDirs, output, runNum, child, held, callers>>

Timers(r) == TimesOut(r) \/ Kill(r)

RunNext ==
    \/ \E r \in Runs :
          \/ NextExecRunDir(r) \/ StartCommand(r) \/ SetupFails(r)
          \/ ChildExits(r) \/ HolderEnds(r)
          \/ Timers(r) \/ WaitReturns(r)
    \/ \E p \in RunProcesses : RunnerRestarts(p)

RunSpec == RunInit /\ [][RunNext]_runVars

-----------------------------------------------------------------------------
(* While one process alone runs commands, since it last started, the files
   that the answer of a command names hold its output and nobody else's,
   however many commands it runs at once: no two have a directory, and none is
   emptied under them.  (exec_output.go:37, command.go:167.) *)
OutputKept ==
    Cardinality(callers) <= 1 =>
        \A r \in Runs : rpc[r] = "done" => output[runNum[r]] = {r}

(* A command that has been started is answered, whatever it does of the
   signals, unless its process ends or something it has left behind keeps its
   output open for ever.  (command.go:192-203, where the wait after SIGKILL has no
   limit.) *)
CommandAnswered ==
    \A r \in Runs : (rpc[r] = "wait") ~> (rpc[r] \in {"done", "lost"} \/ [](held[r]))

(* The types, and that output is only in directories that are there
   (NextExecRunDir makes them, CreateExecOutputFiles writes to them). *)
RunTypeOK ==
    /\ execDirInit \in [RunProcesses -> BOOLEAN]
    /\ execCounter \in [RunProcesses -> 0 .. Cardinality(Runs)]
    /\ runDirs \subseteq Numbers
    /\ output \in [Numbers -> SUBSET Runs]
    /\ rpc \in [Runs -> {"idle", "named", "wait", "term", "kill", "done",
                      "lost"}]
    /\ runNum \in [Runs -> {0} \cup Numbers]
    /\ child \in [Runs -> {"none", "running", "exited"}]
    /\ held \in [Runs -> BOOLEAN]
    /\ restarts \in [RunProcesses -> 0 .. MaxRestarts]
    /\ callers \subseteq RunProcesses \X (0 .. MaxRestarts)
    /\ \A n \in Numbers : output[n] # {} => n \in runDirs
=============================================================================
