# llmdevkit in TLA+

A verification development for `llmdevkit`: TLA+ modules of the parts of the
program where several goroutines, processes or users meet, the TLC instances
that model-check them, and theorems about them checked by TLAPS.

Paths are relative to the repository; `server_acp.go` and the other `server_*`
and `cmd_*` files are in `src/cmd/llmdevkit/`. `PROJECT.json` maps every
definition of the modules to the lines it models, and lists runs, hazards,
findings and theorems.

Contents: [1 The system](#1-the-system) ·
[2 Modules](#2-modules-and-code) ·
[3 Runs](#3-runs) ·
[4 Fairness](#4-fairness) ·
[5 Proofs](#5-proofs) ·
[6 Findings](#6-findings) ·
[7 Abstractions](#7-abstractions-and-what-is-not-modelled) ·
[8 Plan](#8-plan)

## 1 The system

`llmdevkit server` is a web server for conversations with an LLM agent. It
starts one agent process, `llmdevkit acp`, and talks to it over the Agent
Client Protocol; the agent runs the LLM loop with the tools of
`llmdevkit mcp`. Tools that need the user, or the server's state, call back
into the server over HTTP (the *side channel*). The tools of a process share a
memory of facts, a task list, a directory of command output, and child processes:
the indexer, which keeps embeddings of the workspace, and llama servers.

```
 browser tabs --HTTP--> server  --ACP (stdio)--> agent process --HTTP--> LLM
      ^                 |  ^                        |   |
      |---SSE-----------|  |---/api/sidechannel-----|   |--> MCP servers, hooks
                        v                               |
        .llmdevkit/conversations/*.jsonl         tasks.txt, memory, index
```

| component | state | operations | what it shares, and with whom |
|---|---|---|---|
| conversation turns (`server_conversations.go`, `server_acp.go`) | `Conversation`: `Running`, `Queue`, `PromptCancel`, `ACPSessionID`, `Initialized`; `acpConnected` | init, prompt, enqueue, queue delete, cancel, undo, trim, rename, delete; `runACPPrompt` | one goroutine per request and one per turn, under `s.mu` (the conversations) and `s.acpMu` (the agent), which are released between the steps of one operation |
| conversation log (`server_sse.go`, `server_acp.go`) | `Messages`, title, and the JSONL file | `appendJSONL`, `rewriteJSONL`, `loadConversations`, the stream of `SessionUpdate` | memory changes under `s.mu`, the file without a lock; restart replaces the first by the second |
| agent session (`cmd_acp.go`, `internal/runner`) | `sd.Messages`, `sd.CancelFn`; per prompt the chat, the round and `tcIDMap` | Prompt, Cancel, `RunPrompt`, `callLLM`, hooks, tool calls | one goroutine per prompt, one per tool call of a round |
| side channel and asks (`server_sse.go`) | `askPends`, a channel per ask, the ask's bubble | `handleSideChannel`, `waitForAskAnswer`, `handleAskAnswer`, `ask_exec` | the agent's tools on one side, browser tabs on the other, the turns' `Running` in between |
| server events (`server_sse.go`, `server_types.go`, `js/`, `sw.js`) | a channel of 64 events per page, a ring of 100 notifications | `broadcastSSE`, `handleSSE`, `pushNotif`, `handleNotifications` | every writer of a conversation, every page, the service worker |
| task list (`internal/tools/tasks.go`, `server_sse.go`) | `tasks.txt`, `TasksMu` | list, create, set status, delete, clear | the agent process and the server rewrite one file, with a mutex each |
| memory (`internal/memory`, `internal/tools/memory.go`) | facts with their embedding, age and recall count | put, recall, extract | the tools of parallel calls, and every process, as each has a copy |
| code indexer (`internal/indexer`, `cmd_indexer.go`) | manifest, chunk store, signatures | scan, watch, reindex, search | the watcher, the commands, the user's edits |
| chunker (`internal/indexer/chunker.go`, `store.go`) | none | parse, split, add | - |
| pipe to the indexer (`internal/tools/indexer.go`) | a mutex and two streams of lines | send a command, read a line | parallel calls |
| llama servers (`internal/indexer/embed.go`, `internal/tools/llamasrv.go`) | a child and a port per model | start, poll, stop | other processes that look for a port |
| commands (`internal/tools/command.go`, `exec_output.go`) | a counter and a directory of outputs | `run_command`, `ask_exec`, time-outs | the tools and the server have a counter each and one directory |
| sed confirmation (`internal/tools/sed.go`) | the last replacement that wants a confirmation | sed | parallel calls of all sessions |
| configuration (`internal/cfg`, `llms`, `agents`) | global and local files | load, merge, save | read by every process |
| file tools, web tools, upstream MCP, MCP registration, tool definitions, setup, debug log | none between calls, or a library's | one file, process or request per call | - |

What makes each correct:

* *turns*: one turn of a conversation at a time; `Running` is cleared whatever
  fails; prompts are delivered in order and once; a cancel reaches its turn; a
  queued prompt is served; no prompt goes to a session of a dead process.
* *log*: a restart brings the conversation back; a crash costs at most the
  update in progress; the lines of concurrent writers do not destroy each other.
* *agent session*: what the LLM is sent is a well-formed chat; history grows by
  whole turns; the client sees each tool call opened and closed under one id;
  a cancelled prompt ends.
* *asks*: a question appears where it was asked; a waiting tool can always be
  answered; one of several answers counts; only what was approved is run.
* *events*: a page that has been sent all there was shows what is.
* *task list*: the list stays well-formed, and within a process no change is lost.
* *memory*: a text is not stored beside a nearly equal one; recalls are counted.
* *indexer*: at rest, manifest, store and signatures agree with the files, and
  when they do not it is one of the known ways.
* *chunker*: what is stored is where it says it is.
* *pipe*, *commands*: an answer is the caller's own, and comes.
* *llama servers*: a process works with its own children, and stops them.
* *sed*: a large replacement is carried out when it was asked for twice.

The hard behaviours are interleavings between critical sections, state kept
across RPCs, crashes between two writes, and answers that come late. There are
few timeouts (two hours per prompt, one per command) and hardly any retries.
`PROJECT.json` lists the hazards one by one under `hazards`, with the properties
that cover them.

## 2 Modules and code

| module | models | lines of TLA+ are mapped to |
|---|---|---|
| `ConvTurn` | one conversation's turns, handlers and the agent connection | `server_conversations.go`, `server_acp.go` |
| `PromptDelivery` | abstract: what the server promises about prompts | the handlers that accept prompts |
| `ConvLog` | one conversation in memory and on disk | `server_sse.go`, `server_acp.go`, `server_conversations.go` |
| `AgentSession` | one session of the agent process and its runner | `cmd_acp.go`, `runner.go` |
| `ChatHistory` | abstract: what a session's history looks like | `runner.go` |
| `AskChannel` | questions, answers and commands of several conversations | `server_sse.go` |
| `CodeIndex` | the index of the workspace, its scan, watcher and commands | `indexer.go`, `store.go` |
| `Chunker` | what becomes of a file | `chunker.go`, `store.go` |
| `CodeSearch` | what becomes of a query | `indexer.go`, `embed.go` |
| `IndexerPipe` | the tools' commands to the indexer | `internal/tools/indexer.go`, `cmd_indexer.go` |
| `LlamaServers` | the children of several processes | `embed.go`, `llamasrv.go`, `cmd_mcp.go` |
| `CommandRun` | commands and their output | `command.go`, `exec_output.go` |
| `TaskList` | two processes and one file of tasks | `tasks.go`, `server_sse.go` |
| `MemoryStore` | facts, and the copies of them | `memory.go` (both) |
| `SedConfirm` | the confirmation of large replacements | `sed.go` |
| `ServerEvents` | events and notifications, and the pages | `server_sse.go`, `server_types.go`, `js/`, `sw.js` |
| `ConvTurnProofs`, `ConvLogProofs`, `AgentSessionProofs`, `AskChannelProofs`, `CodeIndexProofs`, `TaskListProofs` | theorems about the module of that name | - |
| `ToolsStateProofs` | theorems about `MemoryStore`, `ServerEvents`, `SedConfirm`, `CodeSearch` and `Chunker` | - |
| `ToolsLiveProofs` | theorems about `IndexerPipe`, `CommandRun` and `LlamaServers` | - |
| `MCConvTurn`, `MCConvLog`, `MCAgentSession`, `MCAskChannel`, `MCCodeIndex`, `MCToolsState`, `MCToolsLive` | instances for TLC | - |

Each module also holds, just before the definition it changes, a few operators
marked `Bug:`. They are not used by any specification. Putting one in the place
of its neighbour shows that a property notices that bug (`mutants` in
`PROJECT.json`).

### ConvTurn

The grain is what another goroutine can get between: a critical section of
`s.mu` or `s.acpMu`, one RPC, or one unlocked access. Every request (`h` in
`Handlers`) and every turn (`t` in `Turns`) has a program counter.

| code | actions |
|---|---|
| `handleConvInit` | `ConvInit`, `InitConnect`, `InitNewSession`, then as a prompt |
| `handleConvPrompt` | `ConvPrompt`, `PromptCheckRunning`, `AppendUserMessage`, `ArmRunning`, `SpawnTurn` |
| `handleConvEnqueue`, `handleConvQueueDelete` | `ConvEnqueue`, `ConvQueueDelete` |
| `handleConvCancel` | `ConvCancel`, `CancelContext`, `CancelClearRunning`: two critical sections |
| undo, delete | `ConvUndo`, `ConvDelete` |
| `runACPPrompt` | `TurnLookup` .. `TurnCleanup`, in the code's order, with `TurnAbort` for its early returns |
| end of `runACPPrompt` | `TurnFinish` (Running off), `DequeuePrompt`, `HandOffAppend`, `HandOffArm` (Running on), `HandOffSpawn`, `TurnCleanup` (the deferred reset of `PromptCancel`) |
| `ensureACPConnection` | `EnsureConnected`, used by init and turns; `ConnectElsewhere` is the turn of another conversation; `AgentDies` is the end of the process |

A prompt is the number of the request that brought it, in order of arrival.
`session` is the session id as `runACPPrompt` would judge it if it could: `live`
when the running process has issued it, `stale` when another process has.
The init handler's own append, mark and start (`server_conversations.go:228-268`)
do what those of the prompt handler do (`:324-355`) and share their actions.

`PromptDelivery` is the same without goroutines: a prompt is accepted, waits or
is in hand, is withdrawn, refused or sent. The mapping takes `waiting` from the
queue, `inHand` from the handlers' and finishing turns' local variables, and
`sent` from the prompts that turns were started with.

### ConvLog

An update has two halves: a critical section that changes `Messages`, then the
line, which `appendJSONL` writes as two calls of `Write` (record, newline) with
no lock. A *writer* is a goroutine with such a line under way. The file is a
sequence of tokens, records and newlines, so that a line may hold two records
(and is then skipped by `loadConversations`, `Parsed`) or lack its newline.
`rewriteJSONL` truncates, then writes at its own offset, which may leave a hole
where another goroutine appended. `Crash` replaces memory by `Load(file)`.

| code | actions or operators |
|---|---|
| `SessionUpdate` and the ask bubbles | `UserMessage`, `AgentBubble` (`AddBubble` appends, or merges into a last bubble of the same streamed type), `RawInput`, `TokenStats`, `AnswerAsk` |
| end of a turn, cancel | `PromptResponse`, `FinishTurn`, `Cancel` |
| rename, undo, trim, delete | `Rename` and `Marshal`, `Undo`, `Trim`, `Delete` and `RemoveFile` |
| `appendJSONL`, `rewriteJSONL` | `WriteData`, `WriteNewline`, `Truncate`, `RewriteLine` |
| `loadConversations` | `Parsed`, `LoadLine`, `LoadLines`, `Load` |

Text is abstract: a chunk is `<<writer, n>>`, and a bubble's text is the
sequence of its chunks, so that loss, repetition and order can be told apart.

### AgentSession

`Prompt` of `cmd_acp.go` down to the runner's loop: build the tools, store
`CancelFn`, load the history, run hooks, ask the LLM, run its tool calls one
goroutine each (`CallStart`, `CallInput`, `CallReturns`, `CallClose`), collect
the results in the order of the calls, ask again, save, clean up. The LLM, the
hooks and the tools are the environment: they answer, fail or do neither. A
message is its origin: role, prompt, round, call.

`ChatHistory` is the abstract session: history is only extended, by turns that
start with the user's message and in which an assistant message with *n* calls
is followed at once by the *n* results.

### AskChannel

Several conversations with overlapping turns, the asks of their tools, and tabs
that answer. `Route` picks a conversation as the server does, from `convOrder`
and `Running`, because the request names none. `Show` appends the bubble,
`Register` puts the channel into `askPends`, `ReceiveAnswer` receives, marks the
bubble and (for `ask_exec`) goes on to `RunCommand` or, if the files for the output
cannot be made, `RunFails`; `TakePending` and `SendAnswer` are the two halves of
`handleAskAnswer`, with the lock released in between. `CancelTurn` leaves the
server's handler waiting: it does not look at its request's context. `UndoConv`
cuts the bubbles after the last user message, also those of handlers that still
wait. `CommandEnds` is the return of `cmd.Run`, which waits for whoever `held`
the pipe of the output (`HolderEnds`) also after the time-out.

### CodeIndex

Two goroutines work on the index: `main` (`Start`, then the commands of
`cmd_indexer.go`, one after the other) and `watch` (`watchLoop`). Texts stand
for their hashes, a file for its one chunk. The grain is what the other
goroutine, an edit or the end of the process can get between.

| code | actions |
|---|---|
| `Start`, `scanAndIndex` | `Start`, `Visit` (of a path without a file: its directory is listed, and what is made there later is not come by), `LoadFileSignatures` (a file whose hash is known), `WalkEnds`, then per file the next row, `Prune`, `ScanEnds`, `StartWatcher` |
| `indexFile` | `IndexRead` (read, parse, remove the old chunks), `IndexEmbed` (add the new ones, or fail) |
| `HandleReindex` | `Reindex`, then as a scan |
| `watchLoop` | `WatchTake` (an event, and the pause of half a second), `WatchMature`, `WatchHash` per file, `WatchSave` |
| the environment | `Edit`, with or without an event; `ProcessEnds` |

`missed` names the files whose last change the code lets pass, with the action
that did so: made before the watcher runs, matured during a reindex, failed in
the embedder, hashed in another state than it was read in, dropped by a full
queue. It is what `StaleOnlyIfMissed` excepts. `raced` is set where both
goroutines write `idx.signatures` and the manifest, which have no lock.

### Chunker and CodeSearch

Both are functions of their input in steps. A file is a sequence of pieces, the
bits of text that nodes begin and end with. Several may be on one line (`rows`),
and a chunk is the pieces of its node, as in the code its text is the node's own
and not whole lines. `FileArrives` takes any tree of nodes that a parser may
give, `KeepChunk` and `SplitChunk` are the two branches of `ChunkFile`,
`splitLargeChunk` parses the text of a chunk again (`Reparsed`: any named
children that do not overlap), `splitByLines` is the loop it falls back to.
`AddChunks` keeps one document per range of lines; of several chunks for one
range any one may stay, as the library adds documents side by side. A query is `Search`, `Rerank` or
`KeepSimilarity`, `Sort`, `Cut`, in the order of `HandleRetrieve`.

### IndexerPipe

`Send` is the first half of `IndexerSend`: lock, write a command. Its second
half, one line of answer and unlock, is `HealthReply` or `RetrieveReply`: a call asks
for the state first, and for results if that is idle. The indexer answers each
line that is not blank (`IndexerServes`), so a prompt with line breaks is several
commands.

### LlamaServers

Per host the loop of `StartLlamaServers`: `GetFreePort`, `StartChild`, then
`HealthOK` or `ServerFails`, and the next server. `Listen`, `LoadModel`,
`ChildHangs` and `ChildDies` are the children. `HealthOK` looks at whoever
listens on the port. `StopLlamaServers` is the deferred stop; `HostExits` is
`os.Exit`, which has none.

### CommandRun

`NextExecRunDir` numbers a run and, the first time, empties the directory;
`StartCommand` or `SetupFails`; `TimesOut` sends SIGTERM, `Kill` SIGKILL five
seconds later; `WaitReturns` when the child has ended and nobody holds its
output. `ask_exec` in the server is the same with its own counter.

### TaskList, MemoryStore, SedConfirm

A request to the task list is `RequestArrives`, `ReadTasks` (with `TasksMu`),
`Truncate`, `WriteTasks` (and unlock): `os.WriteFile` opens with truncation, so
that the other process may read nothing, and then writes from the start of what it
has opened: to a removed file after `TasksClear` (`detached`), or over the list that
the other process has written meanwhile, of which the rest stays (`LeftOf`,
`overlaid`). The file is a sequence of lines: a description with line breaks
(`MoreLines`) gives some that are read as tasks of their own or not at all
(`Written`, `forged`). `board` is what the same requests come to one by one.

`MemoryPut`, `RelevantMemory` and the steps of `MemoryExtractHandler`
(`ChatCompletion`, `QuerySimilar`, `Verdict`, `PutExtracted`) work on the copy of
their process (`loaded`) and on the disk (`collection`); chromem-go loads the
collection when it is opened and writes documents through.

A sed call is `SedArrives` (compare and set `lastSedSignature`), `DryRun`, and
`Apply`, with other calls in between.

### ServerEvents

What events are about is the queue of a conversation, a number that each
`Change` raises: a page's request (enqueue, delete) or a turn that takes a prompt
from it. `Broadcast` is a separate step, as it is made after the lock is
released, and drops what does not fit. A page loads (`LoadPage`), subscribes,
handles events (`Deliver`), loses its connection (`Disconnect`) and subscribes
again without loading. It also takes the queue from the answers to its own
requests (`Answer`, as in `queue.js:54-57`), those that change nothing of the
queue included (`Ask`: init, undo and trim answer with the conversation), and
these come in any order with the events. The notifications have a clock, of
which `Second` ticks are a second; the service worker may be ended and started
again, and then asks from what its own clock says (`WorkerRestarts`).

### MCToolsState and MCToolsLive

The components of the last sections share nothing. The two instances hold
several at once, with a variable `part` that says which one moves in a
behaviour, so that one run checks each of them as if it were alone.

## 3 Runs

State counts are of distinct states. All bounds are CONSTANTS; `Ops` (or
`Features`) says which operations an instance allows, so that a run can ask what
holds for a given kind of client. `CHECK_DEADLOCK FALSE` is in every
configuration: clients may stop asking, and the bounds on prompts, turns, chunks
and lines end every behaviour.

### Runs that pass

| run | properties | instance | shows |
|---|---|---|---|
| `conv_delivery` | `TypeOK`, `PromptOnce`, `PromptDeliverySpec` | one handler, three prompts, three turns, everything allowed (3.4 million) | a prompt is in one place even when turns overlap, and the server implements the abstract queue |
| `conv_liveness` | `RunningHasOwner`, `CancelHandleLive`, `RunEnds` | two handlers, two prompts, two turns, everything, with failures (533,000) | `Running` has an owner that will clear it, and is cleared; the cancel handle is that of a turn that is not over |
| `conv_drain` | `QueueDrains`, `PromptUnderLiveSession` | three prompts; the agent can always be started and does not end | queued prompts are served; sessions are live |
| `log_one_writer` | `ReloadMatches`, `CrashKeepsRest` | one goroutine, four bubble types, three chunks, one rename, seven lines; crashes between lines and inside a rewrite (79,800) | with no concurrency a reload gives the conversation back, and a crash costs one update |
| `log_two_writers` | `WritersInOrder` | two goroutines (symmetric), streamed text, one rename, crashes inside an append (763,000) | what one goroutine wrote is never read twice or out of order |
| `agent_session` | `RequestWellFormed`, `CancelReachesPrompt`, `ChatHistorySpec` | two prompts in turn, a round of up to two parallel tools each, hooks, errors, cancels (1.5 million) | requests are well-formed, history grows by whole turns |
| `agent_rounds` | `CallsClosed`, `CancelEndsPrompt` | two prompts that may overlap, a resumed session, two rounds of tool calls (68,400) | each call is opened and closed under one id though the LLM uses its ids again; a cancelled prompt ends |
| `ask_arrives` | `WaiterReachable`, `AnswersNeverBlock`, `ApprovalOnRecord`, `AcceptedAnswerArrives` | an `ask_exec` and a question, two tabs, two turns, cancel, delete and undo (505,000) | no waiter is stranded, no answer blocks, what was run is on record while anybody waits for it, an accepted answer arrives unless the command's output is held for ever |
| `index_stale` | `StaleOnlyIfMissed`, `SavedManifestTrue`, `IdleIsWhole`, `CatchesUp` | one file with up to three changes, two starts, one reindex, every failure, an end at any moment (1.4 million) | index and manifest are behind a file only in the known ways, and catch up otherwise |
| `tools_state` | `ListWellFormed`, `ChangesKept` | three handlers in two processes, ids of two numbers, four requests, a description with line breaks (`tools_state` in all: 4.2 million) | the list is spoiled only by line breaks and by one list written over another; a change is lost only between the processes |
| | `TwinsOnlyUnchecked`, `RecallKeepsAge` | facts *a*, *b*, *c* with *a* near *b* and *b* like *c*, two extractions, two processes, three calls | a fact gets a twin, or loses its age, only in the known ways |
| | `LargeOnlyConfirmed` | two calls, two signatures, five calls or changes of files | one call at a time, a large replacement is asked for twice |
| | `ViewIsLatest` | two pages, channels of two, three changes, one answer at a time on its way | a page that was sent everything in order and took no older answer since shows what is |
| | `NotificationsKept` | a ring of two, seconds of two ticks, four notifications | which notifications can be lost |
| | `DocsTrue` | files of four pieces on up to four lines, trees of up to two nodes, three characters, limits 2, 1 and 2, any second parse | line ranges are those of the text, and no long text is left out but in the known ways |
| | `BestFirst` | up to four documents, three candidates, two results, scores -1, 0, 1 | the result is the best of what was scored |
| `tools_live` | `OutputKept`, `CommandAnswered` | three commands in two processes, one restart each (`tools_live` in all: 108,700) | output stays where the answer says; every command is answered |
| | `OwnResults`, `QueryAnswered` | two queries, prompts with or without text and up to two further lines, which ask for health or for results | one-line prompts get their own results; every call is answered |
| | `ServerIsOwn`, `NoStrays`, `StartupEnds` | two hosts, one with two servers, two ports | a server that is counted on is the process's own; children are stopped; the start ends |

Why the bounds are enough: every hazard in question is between two actors (two
requests, a request and a turn, a turn and its successor, two lines, two tabs,
two calls), and three prompts are what it takes for a queue with an order
behind a running turn. The violations of section 6 are found on instances no
larger than these, most of them with one handler. Where a property is also
proved (section 5) the bound does not matter: `conv_delivery` has one handler
and `ask_arrives` one conversation, the theorems any number.

For the later runs: a file in `index_stale` has a text, a second, a third and a way
back, which is what it takes to be changed between any two steps of a pass and
to look unchanged; files do not meet but in the order of the walk and in the
list of what matured, and an instance with two files and fewer edits finds
nothing else. A well-formed list with ids of two numbers has all the cases of
sorting and of subtrees. Two calls, processes or pages are again what a hazard is between;
a third handler lets two requests of one process surround one of the other.
A chunk is split in segments of two lines, with a rest. A tree of two nodes has
each of the relations between nodes (inside, after, sharing a line), two
declarations on one line among them.

The properties that name exceptions (`missed`, `crossed`, `unchecked`,
`abreast`, `skipped`, `overtaken`, `collided`, `overlaid`, `forged`, `manyLined`,
`uncovered`) say what the code does
not promise: section 6 tells what happens in each. Each module has a type invariant. That of `ConvTurn` is in a run and
is proved; the others hold on the same instances and are kept in the modules
as documentation of the state.

With `MaxLines = 7`, `log_one_writer` has files with every kind of line the
module knows in every order up to that length, with merges of streamed text and
lines before and after an undo among them. Thoughts are handled as replies are,
and tool responses as tool requests without arguments, so one type of each pair
is in use.

### The run that finds a violation

`conv_queue_overlap` checks a sentence of the repository's README against what
the code does, and ends in a counterexample: section 6.

## 4 Fairness

`ConvTurn!FairSpec`: weak fairness of every handler's and every turn's step. Go
schedules goroutines that can run; critical sections are short; `conn.Prompt`
has a deadline of two hours (`server_acp.go:331`), so a turn that waits for the
agent is sent on. Requests of clients, the end of the agent process and the
other conversations get no fairness.

`AgentSession!FairSpec`: weak fairness of what a prompt's goroutines do by
themselves, and of their waits *only when the prompt's context is cancelled*:
LLM requests and tool calls are made with that context, so they return. An LLM
that never answers owes nothing, as `http.DefaultClient` has no timeout.

`AskChannel!FairSpec`: weak fairness of the server's handler for an ask and of
an answer on its way. A command ends at its timeout. Users owe no answer, and
a process that a command left in the background need not end: `cmd.Run` waits
for it (`server_sse.go:208-221` has a `MultiWriter` for the output and no
`WaitDelay`), and `AcceptedAnswerArrives` excepts the case that it never does.

`CodeIndex!FairSpec`: weak fairness of the two goroutines' steps, but for the answer
of the embedder: the request has no time limit (`embed.go:206-217`). `CatchesUp`
excepts the case that one goroutine waits for it for ever. Nobody has to start the
indexer, edit a file or send a command.

`MCToolsLive!Fairness`: weak fairness of the timers and of the wait of a command,
of the indexer's loop, and of the steps of a host that starts its servers (its
polling has a deadline of two minutes); strong fairness of a call's step, as it
needs a mutex that is free again and again, and Go's mutex hands itself to
whoever has waited for more than a millisecond. Children, embedders, users and
whatever a command leaves behind owe nothing.

## 5 Proofs

| theorem | says, for every value of the constants |
|---|---|
| `ConvTurnProofs!TypeCorrect` | `Spec => []TypeOK` |
| `ConvTurnProofs!RunningOwned` | `Spec => []RunningHasOwner` |
| `ConvTurnProofs!CancelHandleOwned` | `Spec => []CancelHandleLive` |
| `ConvTurnProofs!PromptSentOnce` | `Spec => []PromptOnce` |
| `ConvTurnProofs!ServerKeepsPromise` | `Spec => PromptDeliverySpec`: the detailed module implements the abstract queue |
| `ConvTurnProofs!PromptsUnderLiveSession` | `Spec => PromptUnderLiveSession`, an action property, for one client with the agent to itself |
| `ConvTurnProofs!CarefulOneTurn` | `Spec => []OneTurnAtATime`, for one careful client |
| `ConvTurnProofs!CarefulTurnRecorded` | `Spec => []BusyTurnRecorded`, likewise |
| `ConvLogProofs!RestartBringsBack` | `Spec => []ReloadMatches`, if one goroutine at a time writes |
| `ConvLogProofs!CrashTakesOneLine` | `Spec => CrashKeepsRest`, an action property, likewise |
| `ConvLogProofs!PiecesStayInOrder` | `Spec => []WritersInOrder`, any number of writers and any crash, without undo and trim |
| `AskChannelProofs!WaiterNeverStranded` | `Spec => []WaiterReachable` |
| `AskChannelProofs!NoAnswerBlocks` | `Spec => []AnswersNeverBlock` |
| `AskChannelProofs!RunIsOnRecord` | `Spec => []ApprovalOnRecord` |
| `AgentSessionProofs!EveryCallIsClosed` | `Spec => []CallsClosed` |
| `AgentSessionProofs!CancelReaches` | `Spec => []CancelReachesPrompt`, if prompts do not overlap |
| `AgentSessionProofs!RequestsWellFormed` | `Spec => []RequestWellFormed`, if no older conversation is continued |
| `AgentSessionProofs!SessionKeepsPromise` | `Spec => ChatHistorySpec`, if neither: the session implements the abstract history |
| `CodeIndexProofs!TypeCorrect` | `Spec => []TypeOK` |
| `CodeIndexProofs!StaleMeansMissed` | `Spec => []StaleOnlyIfMissed` |
| `CodeIndexProofs!SavedManifestIsTrue` | `Spec => []SavedManifestTrue` |
| `CodeIndexProofs!IdleMeansWhole` | `Spec => []IdleIsWhole` |
| `TaskListProofs!ListStaysWellFormed` | `TaskSpec => []ListWellFormed` |
| `TaskListProofs!NoChangeIsLost` | `TaskSpec => []ChangesKept` |
| `TaskListProofs!TaskTypeCorrect` | `TaskSpec => []TaskTypeOK` |
| `ToolsStateProofs!LargeConfirmed` | `SedSpec => []LargeOnlyConfirmed` |
| `ToolsStateProofs!MemTypeCorrect` | `MemSpec => []MemTypeOK` |
| `ToolsStateProofs!ExtractsNoTwins` | `MemSpec => []TwinsOnlyUnchecked` |
| `ToolsStateProofs!RecallsCount` | `MemSpec => RecallKeepsAge`, an action property |
| `ToolsStateProofs!PagesShowTheLatest` | `SESpec => []ViewIsLatest` |
| `ToolsStateProofs!PollsMissNothing` | `SESpec => []NotificationsKept` |
| `ToolsStateProofs!AnswersAreBest` | `SearchSpec => []BestFirst` |
| `ToolsStateProofs!StoredIsTrue` | `ChunkerSpec => []DocsTrue` |
| `ToolsLiveProofs!ResultsAreOwn` | `PipeSpec => []OwnResults` |
| `ToolsLiveProofs!RunTypeCorrect` | `RunSpec => []RunTypeOK` |
| `ToolsLiveProofs!OutputIsKept` | `RunSpec => []OutputKept` |
| `ToolsLiveProofs!NoChildStrays` | `LlamaSpec => []NoStrays` |
| `ToolsLiveProofs!ServersAreOwn` | `LlamaSpec => []ServerIsOwn` |

Assumptions are those the modules declare (`ConvTurnAssumption` and so on): bounds
are naturals, `Ops` and `Features` are sets of known names, `Execs` are asks,
`NoPort`, `NoPrompt` and `NoQuery` are none of what they stand beside, `Files` and
`Runs` are finite, ring, channel and second are not empty, counts and sizes of
the index are naturals, its scores are integers, and a segment has a line at
least; TLC evaluates them in the runs. Three theorems about a session assume more, in their statements:
that its client waits for each answer (`"overlap" \notin Features`), or does not
continue an older conversation (`"resume" \notin Features`). Two about the log
assume that one goroutine at a time writes (`Writers = {w}`) and that the process
does not end between the two writes of a line (`"crashMidAppend" \notin Ops`);
the third allows both, and assumes instead that the file is only appended to
(`"undo"` and `"trim"` not in `Ops`). Three about turns are about one client that waits
for each answer (`Handlers = {h}`) and does not initialize a conversation again:
`CarefulClient` neither cancels nor queues; `LiveClient` may queue, but neither cancels
nor undoes, and the agent is its own, can be started and does not end. The runs
check instances of all but `CarefulClient` (`CarefulUse` is one: one handler in the
configuration of `conv_queue_overlap`, and no counterexample), and what happens
without these assumptions is in section 6. The proof modules prove in addition
what they need of `RemoveAt`, `Front`, `Last`, prefixes and sequences that grow
at their end.

Each inductive invariant was checked by TLC, as an invariant of the run that has
the property (`CareInv` with `CarefulUse`), before it was proved.

**Running.** `RunningHasOwner` is inductive with the types: `Running` is set by
a goroutine that is about to start a turn, the turn inherits it, and every way
out of a turn clears it, except the return on a missing conversation, where
there is nothing to clear.

**Cancel handle.** The deferred reset clears the handle whoever stored it, so
the invariant can only be lost by the turn that is named by the handle leaving
`OwesCleanup`; the one step that does so clears it. `SlotsInOrder` (turns beyond
`spawned` are unborn), proved first, says that a new turn does not take the slot
of one that is under way.

**Prompts.** `PromptOnce` is not inductive: nothing in it says that the number
of a prompt that arrives is new, or that a handler that holds a prompt is the
only one. `PlacesInv` says where every prompt is: the queue, the handlers, the
turns' `tnext` and the turns' `tprompt` are disjoint *places*, without
repetition, and hold arrived prompts only. `EveryStepMoves` reduces all actions
to few *moves* (a prompt arrives in hand or in the queue, is withdrawn, taken
from the head, put down, sent, or nothing moves); `MovesKeepPlaces` and
`MovesKeepPromise` then treat each move once, for the invariant and for the
refinement.

**One client.** The general theorems allow two turns at once. `CareInv` is why a
careful client never sees them: while a turn is at work (`AtWork`) the mark is set and
the handler is idle or before its test of the mark; the mark goes when the turn
does, and with an empty queue nothing sets it again. So the test stops a second
prompt and an undo, and what is answered stays in the conversation. `LiveInv` is
about the session: one that was reloaded is replaced by the first turn, on its
way to which (`FirstTurn`) the mark keeps other prompts out; from then on the session is
the running agent's. `TurnsAtWork`: only turns that have been started take a step.

**Log.** `ReloadMatches` speaks of moments when nothing is written; `LogInv` says
for each place of the writer how far file and memory are apart. The file is whole
lines, but for one newline between the two writes (`FileWhole`). It reads as
the memory (`InStep`), or as the memory will once the line in hand is loaded
(`OneLineAhead`), or, after an undo or a trim, it has all the text that is left
(`Shortened`), or the first lines of the conversation while it is written again
(`Rewritten`, `Copied`). The lemmas are about the operators: `ParsedLines`, that
a file of whole lines is read back line by line, by counting a bijection;
`LoadDefined` and `LoadOneMore`, that `LoadLines` satisfies its recursion and goes
on from what is loaded when a line is added; `BubbleMatches`, `MergeMatches`,
`AttachMatches` and `OtherMatches`, that loading a line keeps pace with what the
code did to the memory; `TextRange`, that the text of a list of bubbles is made
of the chunks of each. The recursions take an induction on the length, made with
sets in place of predicates (`SetInduction`), as those of the tasks do.

**Log, several writers.** Here lines may run into each other and be lost, so
memory and file are not compared; `WritersInOrder` only speaks of what a reader
gets. `SharedInv` says that a record in the file says at most one piece, one
that has been brought (`Known`), that the pieces of one goroutine stand in the
file in its order (`Climbing`), and that the piece it has in hand is later than
all of its own in the file (`InHand`). `ParsedReads` says of any file, whole lines or not, that
its readable lines are read in file order, each once; `LoadLineText` that loading
a line adds the text it says at the end of a bubble, or nothing; `LoadOrdered`
carries the order through the loading by induction on the lines. There is one
lemma for each action.

**Asks.** For a waiting handler the *token* of its question is in exactly one
of three hands: the entry in `askPends`, an answer being sent, the answer in the
channel. `IInv` is the types of the channel's variables and `OneToken`, that
there is one token for a handler that waits and none otherwise.
`WaiterReachable` alone is not inductive, as an answer could be sent to a full
channel; `OneToken` says it is empty. The proof has a lemma for each step that
moves a token (register, take, send, receive) and one for all those that leave
tokens alone. `ApprovalOnRecord` needs that the bubble is there before anybody can
answer and says "approved" before the command runs, or has been cut by an undo
(`OnRecord`, part of `RInv`), for as long as the conversation is there. That an undo
takes no record from a turn that waits is `WaitsInTurn`: a tool waits while its
turn runs, and then there is no undo.

**Tool calls of a session.** The updates of a call go to the bubble that `tcIDMap`
names when they are sent, and the LLM may use an id again. `CallsInv` is that
the map of a prompt names the call of the round (`IdsOwned`), that this call has
been told just what its goroutine's place says, and that all others of the
prompt are closed (`OthersClosed`).

**Cancel of a session.** `ReachInv`: one prompt at a time is active, and while it is
served `CancelFn` is its own. Without the assumption the first part fails, and
with it the second.

**Requests.** `Well` chats are those in which each assistant message with calls is
followed at once by its results. `WellInv` adds the places where a chat is not well: while
tools run it ends with the calls, and the results that are appended when the
last one returns complete it. The lemmas say that well chats may be joined, and
that a message without calls may be appended. For the refinement, `TurnInv`
adds that the chat of the prompt at work is what was saved and a turn of its own,
of which the save makes one step of `ChatHistory`; all other steps stutter.

**Index.** `StaleOnlyIfMissed`, `SavedManifestTrue` and `IdleIsWhole` hold by one
invariant, `IndexInv`, as each is needed for the next start to establish the
others. It speaks of the time while no two goroutines have worked at once (`raced`):
then `OneWorks` says who works and that the state shows it, `HandOk` what is in
hand, `TodoOk` what a walk will find, `StoreOk`, `DiskOk` and `SigsOk` that store,
file and signatures agree with the hash that counts (`Recorded`: that of the scan
until the scan ends, then that of the manifest) for all files that nobody has
in hand or has yet to look at (`Awaited`), and `SavedOk` what a start may rely
on. All but the types is lost by two goroutines that write the maps at once, and
the properties except it too.

**Tasks.** That the list stays well-formed is a fact about what a request makes of
any list, so it takes the operators first. `Kept`, a recursive function, is shown to
satisfy its recursion and to return the places it is given, in order; this is an
induction on the length of the list, made with sets in place of predicates
(`SetInduction`, from the well-foundedness of `<` in the library). `SortTasks`
chooses a permutation: there is one for a list in order and one new task
(`SortExists`), and whichever it is the result is in order, as `Before` is total and
transitive on ids (`BeforeTotal`, `BeforeTransitive`). `NextId` is new, because no
sibling has a higher number. With that, `OutcomeKeeps` says that a request makes a
list of a list (`IsList`: in order, each task with its parent). It is not enough for
a file with tasks that will not be read back, as reading could drop a parent and
leave its children: `Firm` says that such a task has no children, and holds because a
child is only made of a task that has been read. `ChangesKept` needs `InStep`:
between requests the file is `board`, whoever has read has `board` in its hands, and
whoever has truncated the file has the next `board`; and `OutcomeAbsent`, that a
request for what is not found would change nothing. All of this is said of files
that are `Sound`: no list written over another one, no line that is not a task's.
`Crossings` ties the first to the other exceptions: the file that a handler is about to
write to is empty unless a request of the other process fell between, so that
`ChangesKept` needs no exception for it.

**Memory.** `TwinsOnlyUnchecked` compares two facts on disk; what it takes to keep
it is `Tested`, that a fact whose test passed and was not overtaken (`blind`) has no
twin there yet, and `KnownOnDisk`, that what a process searches is part of what
is there.

**Events.** If the latest broadcast was of the latest change, `CaughtUp` says where
it is for a page that was not skipped: the last of its channel, or in its view
unless an older answer has replaced it. Nothing is sent or answered that is not
yet true, and a change makes the latest broadcast an old one, so only `Broadcast`
and `LoadPage` have to bring a page up to date. Channels are first in, first out,
so nothing need be said of their middle.

**Notifications.** `Clocks` bounds the times of the ring and of the worker by the
clock of the server, except that the worker starts with a time of its own; `Accounted`
says that each notification is in the ring or has passed, and `Covered` that each one in the
ring was shown, is later than what is asked for, or is an exception.

**Pipe.** `OneOnTheWay`: there is one line on the way at most, in either direction,
it belongs to the call that holds `mu`, and a call holds `mu` exactly from its
command to its answer (`MutexHeld`). A prompt of several lines ends this for good
(`manyLined`).

**Output.** `RunInv` is about counters: runs that have a number have one of their
own, below the counter (`OneRunPerNumber`), as long as one process has emptied
the directory (`Alone`), and who has is known (`CallersKnown`). `NumbersGiven`, which
holds with several processes too, bounds the counters by the number of runs.

**Llama servers.** `NoStrays` needs that the children of a host come one after the
other: `OneByOne` says that a server whose turn has not come (`NotYet`) has no
child and is not counted on. For `ServerIsOwn`, `ListensWhereTold` says that
whoever answers on a port was told that port, `CollisionsKnown` that a port which
two children hold at once - each is about to start there, or runs - is known to be
one, and `PollsOwn` that the child a host polls for still runs, or has ended of
itself, or lost its port to another; so the child that `HealthOK` hears is the
host's own or the port is a known collision.

**Sed.** `LargeOnlyConfirmed` needs that, with one call at a time, what is kept
(`lastSedSignature`) is what was last answered with the request to invoke again
(`asked`): `SedStateAgrees`, for the moments without a call at work. While the
one call is at work, it is that call's signature, and the call was entitled if
and only if it was allowed. `abreast` must be true as soon as two calls are at
work, and stays so until nothing is kept.

**Folds.** `sortResults` is a fold over the pairs of places, and `FoldLeft` is
defined by a function that is chosen on all sets of places. `FoldExists` shows that
there is one, with an induction on the number of places (the largest of a set is
removed first, `MaxOfSet`), and `FoldRun` that it goes through the places one by
one; after that the fold (`SortDefined`) is a sequence of values, to be reasoned
about by induction.

**Queries.** The invariant of the sorting is `OrderedUpTo`: after step k of the n * n
pairs, each row that is done holds the best of what follows it, and the row at
work the best of the columns looked at; `SwapOrders` is the step, and `RowsBefore`
says which pairs come before. With it goes `Reordered`, that the list is a
permutation of the candidates, so that a score stays with its document and none
is lost or doubled. `SearchInv` says what a query has in hand at each step:
`Judged` before the sorting and `Complete` before the cut, of which `BestFirst`
keeps a part. Without a reranker nothing is sorted and the order is the store's.

**Documents.** `FileInv` says that the tree, lines and lengths are those of a
file; that each chunk, waiting or returned, names the lines its text is on and is
of its node's own text (`ChunkOk`); that each piece that is wanted (`Wanted`) is in
a chunk that waits or is returned (`Holds`); and that the documents are chunks, one
for the lines of each. A long text that is in no document is so in a chunk whose
lines another document has, which is the exception of `DocsTrue`.
`CollectedIsGood`: the topmost node with `splitKinds` around a declaration is
taken, if there is any. `PartIsOk` says that a part of a part is one, with the
code's arithmetic of rows and offsets. `SplitHolds`: the segment of a line starts at
a multiple of `linesPerChunk` (`SegmentStarts`, by the properties of `\div`), its
first and last pieces are found as least elements (`FirstOnLine`, `LastOnLine`), and
with a long piece in it it is not too short to be kept (`SizeOfPart`, from the
offsets). `LargeIsOk` joins them for `splitLargeChunk`. `ChunkMoved` treats
keeping and splitting at once: some parts of the first chunk join the others,
with all that is wanted of it.

Only model-checked (all safety invariants and action properties of the passing runs are proved):

* liveness, as the provers have no fairness or ENABLED: `RunEnds`, `QueueDrains`,
  `AcceptedAnswerArrives`, `CatchesUp`, `CancelEndsPrompt`, `CommandAnswered`,
  `QueryAnswered`, `StartupEnds`.

## 6 Findings

One run has a counterexample for an expected result. `PROJECT.json` quotes the
sentence that it contradicts.

| run | property | what the code does |
|---|---|---|
| `conv_queue_overlap` | `OneTurnAtATime` | the end of a turn clears `Running` before it takes the next prompt; a request in the gap gets a second turn |

The modules state more properties that the code does not have. They belong to
the hazards of `PROJECT.json` that have a note, and TLC finds a counterexample
to each in seconds, in a configuration like those of the runs with these values:

| property | instance | what the code does |
|---|---|---|
| `OneTurnAtATime` | `Handlers <- TwoHandlers`, `Ops <- PromptOnly` | `Running` is tested in one critical section and set in another |
| `BusyTurnRecorded` | `Ops <- CancelThenUndo` | cancel clears `Running` of a turn still at work; undo then removes what it is answering |
| `CancelReachesTurn` | `Ops <- PromptAndQueue` | the deferred reset of one turn removes the cancel handle of the next |
| `QueueDrains` | `Ops <- PromptAndQueue`, `AcpMayFail = TRUE`, `FairSpec` | a turn that cannot connect returns without looking at the queue |
| `PromptUnderLiveSession` | `Ops <- AfterRestart` | after a restart, if another conversation has started the agent, the old session id is used |
| `ReloadKeepsText` | `Writers <- TwoWriters`, `Types <- Chat`, `Ops <- NoExtras` | a line is two unlocked writes: two lines at once may share a line of the file and are lost |
| `ReplyRemembered` | `Features <- PlainPrompts` | the final reply is not in the history that is saved (`runner.go:299`) |
| `LatestTurnServed` | `Convs <- TwoConvs`, `Ops <- Parallel` | of several conversations at work the first in `convOrder` gets the question, where `server_sse.go:43` prefers the "most recently started" |
| `ConnectionAlive` | `Ops <- AgentEnds` | `acpConnected` stays true after the agent process has ended |
| `ReloadKeepsText` | `Writers <- OneWriter`, `Ops <- TornLine` | a crash between record and newline spoils the next line too |
| `WritersInOrder` | `Writers <- TwoWriters`, `MaxLines = 5`, `Types <- Stream`, `Ops <- AnyCrash` | undo and trim write the file from a memory that may hold a piece whose line is not written yet; it is then there twice |
| `CrashKeepsRest` without its exception | `Ops <- TornFile` | a crash during a rewrite loses exchanges that undo did not touch |
| `DeletedStaysDeleted` | `Ops <- Deletion` | a turn that ends after the deletion creates the file again |
| `AnswersSurvive` | `Types <- UserAsk`, `Ops <- Answers` | the answer to a question is not in the file |
| `TitleSurvives` | `Writers <- TwoWriters`, `MaxTitles = 2`, `Ops <- Renames` | two renames may be logged in the other order |
| `TrimCutsTail` | `Types <- ChatTools`, `Ops <- Trims` | trim removes tool bubbles everywhere; the README has it remove "all exchanges from a given index onward" |
| `RawInputIgnored` | `Types <- ChatTools`, `Ops <- Arguments` | the arguments lines do change what is loaded; the format document has them "ignored during load" |
| `CancelReachesPrompt` | `Features <- TwoPrompts` | overlapping prompts share one `CancelFn`; the first to end clears it |
| `PromptNotRepeated` | `Features <- Continuation` | a resumed conversation sends the current prompt twice |
| `RequestWellFormed` | `Features <- Continuation` | a resumed conversation sends tool results without their calls |
| `AskedWhereShown` | `Convs <- TwoConvs`, `Ops <- Parallel` | with two conversations at work a question may be shown in the other one |
| `AnswerNotDropped` | `Ops <- OneTurnAtATime` | an answer between bubble and registration is accepted and dropped |
| `CancelledRunsNothing` | `Ops <- Cancels` | a command approved after its turn was cancelled is run |

The properties of the later modules name what the code lets pass; TLC shows a
counterexample as soon as an exception is left out:

* `ChangesKept` without `crossed`: a change of the server between the reading and
  the writing of the agent is undone, and a file that is read while it is being
  written is empty.
* `ChangesKept` without `emptied`: a task without a description is not read back.
* `ChangesKept` and `ListWellFormed` without `forged`: nothing keeps a description from
  having line breaks (`tasks.go:200-233`), and `ParseTasks` reads by lines. What
  follows the first is a task of its own if it looks like one, with any id, and is
  cut off otherwise, in one process and with no other request around.
* `ListWellFormed` without `overlaid`: when both processes have truncated the file,
  the second to write begins at the start of the file, and the end of a longer list
  stays behind its own: ids come twice, and tasks without their parents.
* `TwinsOnlyUnchecked` without `unchecked`: two extractions test and then both
  store; a failed test counts as "not there"; another process's facts are not seen.
* `RecallKeepsAge`: a recall writes back the copy of its process. `memory.go:68`
  says "update created_at only on first insert", and `Put` resets it always.
* `LargeOnlyConfirmed` without `abreast`: of two equal calls side by side, the
  second is taken for the confirmation of the first.
* `ApprovalOnRecord` without "cut": after a cancel the server allows an undo, which
  removes the question's bubble while its handler waits; a tab that still shows
  it approves, and the command runs with nothing on record.
* `AcceptedAnswerArrives` without `held`: a background process that keeps the
  output of an approved command open keeps the answer from the tool.
* `ViewIsLatest` without `skipped` or `lastSent`: events between the loading of a
  page and its subscription are lost, as are those beyond 64, and two changes may
  be broadcast in the other order. Without `overtaken`: the answer to a page's
  own request (`queue.js:54-57`, `prompt.js:117`) may come after the event of a
  later change, and the page then shows the old queue until the next change.
* `NotificationsKept`: `sw.js:53` cuts the time it asks from to whole seconds, so
  that notifications of the last second are shown again, and of two in the first
  millisecond of a second the later one may be lost; `sw.js:38` says the buffer survives a
  restart, and it is in memory; and a service worker that was ended and is started
  again asks from its own clock (`sw.js:12`), so that what came while it was down,
  or what it had not asked for yet, is not shown.
* `DocsTrue` without the chunk that is replaced: two declarations on one line, as
  in one-line functions or the two of an `export`, get one id (`chunker.go:486`),
  and the store keeps one of them (`store.go:64`). The line is still named, but the text of the
  other is in no document. Without `uncovered`: what lies between the named
  children of a second parse is in none either (`chunker.go:366`).
* `OwnResults` without `manyLined`: each further line of a prompt is answered too,
  and if one is a command, a later call gets the results of an earlier one.
* `OutputKept` with two callers: each process empties the directory of the other,
  and both count from 1.
* `CommandAnswered` without `held`: a background process that keeps the output
  open keeps the handler waiting after SIGKILL.
* `ServerIsOwn` without `collided`: two processes get one free port, and one of
  them takes the other's answer to `/health` for its child's.
* `StartupEnds`, `QueryAnswered`, `CatchesUp`: a request to a llama server that is not
  answered has no time limit; the start, the calls of the indexer, or its scan or
  watcher wait for it for ever.
* `StaleOnlyIfMissed` without `missed`: a change that matures during a reindex is
  dropped; a file whose embedding failed is in the manifest as indexed.

Seen while modelling, with no property: a query fails whenever the store has
fewer documents than `searchCount` (`store.go:88`); in `splitLargeChunk` the
branch for `splitKinds` is never taken, as the table is asked for the type of
the chunk and not of the node; nothing calls `UpdateFact`.

On the other hand `OneTurnAtATime` and `BusyTurnRecorded` hold for a client that
waits for each answer, never cancels, does not queue and does not initialize a
conversation again (`CarefulUse`; proved in section 5), and
`AskedWhereShown` holds with one turn at a time.

Most of these need one user with one or two tabs. Two requests at the same
moment are needed for the first, and `CancelReachesPrompt` needs the overlap of
turns that `OneTurnAtATime` is about.

## 7 Abstractions and what is not modelled

* `ConvTurn` is about one conversation. Others are `ConnectElsewhere`. Trim and
  the change of LLM have the guard of undo; trim is in `ConvLog`, the change of
  LLM is left out. Messages are user messages only, as undo cuts at them.
* Spawning the agent and `session/new` succeed or fail as `AcpMayFail` says; a
  failed `conn.Prompt` and one that succeeds take the same path in the code.
* `ConvLog` takes a record and a newline as units of length one. `Truncate` takes
  the picture of the conversation that `Rewrite` will write; the code goes through
  `conv.Messages` after `os.Create`, without a lock (`server_conversations.go:547-569`).
  With one writer this is the same; with two, what is appended to the memory
  during the rewrite may also be in the file twice or be missed, which
  `WritersInOrder` is checked and proved without undo and trim. Init lines, tool definitions, `FileSize` and the length of
  lines (the scanner's buffer) are left out. Token counts are an `extra` mark
  that `ReloadMatches` does not compare: they are partly in memory only, and
  nothing is promised of them.
* `MaxLines` stops logging at a bound and is no limit of the code.
* `AgentSession` is one session; building the tools is one step. Text, token
  counts and usage are left out. Every call is taken to have arguments: for one
  without, the code skips the update that `CallInput` stands for (`cmd_acp.go:273`),
  and the call is opened and closed by the same other updates. Sub-agents, which run a runner of their own
  inside a tool call, are a call that returns.
* `AskChannel` has no text and no list of options; an answer is a yes or a no. A
  conversation has one turn at a time (`ConvTurn` says when that is so), and a
  tool whose turn is cancelled counts as gone at once.
* Data races on fields that `handleConvInit` writes without the lock are listed
  as a hazard and not enumerated.
* `CodeIndex` has one chunk per file, and takes `ShouldIndex` and the ignore
  globs for granted. The half second for which the watcher waits is a state
  (`settle`), not a time. A race on the maps loses an update or none.
* `Chunker` keeps of a text its pieces, their lines and lengths; characters, bytes
  and blanks are not told apart (`chunker.go:190`, `426`), so a long piece is one with
  enough text that is not blank. The tables per language are the three kinds.
  Signatures are left out, the one put before the text of a part
  (`chunker.go:384`) included, and so is a node that ends at the start of the
  line after its text.
* `MemoryStore` has a similarity that is a relation: above 0.93, above 0.85, or
  neither. `SedConfirm` counts the lines a replacement would change as none, few or
  many. `TaskList` keeps of a description whether it is empty and its further lines.
  `os.ReadFile` is one step, though it may see part of a list that is being
  written; a failing disk is left out; numbers have one digit where a line is cut
  within its id; nothing is created after a description with line breaks (a bound).
* `ServerEvents` has the events and answers that carry a queue. Whether a
  conversation runs is broadcast in the same way, but the page also guesses it
  (`prompt.js:141`, 171, 179, 194), which is left out; events that carry an
  increment (`bubble`) fare no better. An answer that leaves an empty queue out
  (`omitempty`) empties the page's (init) or changes nothing there (undo, trim),
  as one that is lost does; those stay on their way in the model.
* `CommandRun` leaves out how a configured command and its arguments are found,
  and limits of size. Bounds `MaxSeds`, `MaxStores`, `MaxChanges`, `MaxState`, `MaxAnswers`,
  `MaxTick`, `MaxNotifs`, `MaxEdits`, `MaxStarts`, `MaxReindex`, `MaxRestarts`,
  `MaxDocs`, `MaxPiece`, `MaxLength` and `MaxNodes` stop the environment and are no
  limits of the code.
* Not modelled: file tools and web tools (one operation or request per call, no
  state between calls); configuration (files that are read on each use; its
  merging is a pure function, see section 8); upstream MCP servers (the
  connection is a library's); MCP registration and tool definitions (tables);
  set-up, downloads and the debug log (pure I/O).
* Of hazards without a property: a line of the log longer than the scanner's
  buffer, which ends the loading of the file; data races of `handleConvInit`; and
  those of section 6 whose property fails.

## 8 Plan

Done: `ConvTurn`, `PromptDelivery`, `ConvLog`, `AgentSession`, `ChatHistory`,
`AskChannel`, then `TaskList`, `ServerEvents`, `CodeIndex` with `Chunker`,
`CodeSearch` and `IndexerPipe`, `MemoryStore`, `CommandRun`, `SedConfirm`,
`LlamaServers`, and the proofs of section 5. Left, in order:

1. Composition of `ConvTurn` and `AskChannel`: the turns of one are the
   `turns` of the other; a `ConvTurn` with two conversations that share the
   agent in place of `ConnectElsewhere`.
2. `ConfigMerge`: merging of global and local files as a pure operator against
   a reference definition.
