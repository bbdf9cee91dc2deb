------------------------------ MODULE ConvTurn ------------------------------
(***************************************************************************)
(* The turn machinery of one conversation of `llmdevkit server`            *)
(* (server_conversations.go, server_acp.go).                               *)
(*                                                                         *)
(* HTTP handlers (Handlers, one goroutine per request) and agent turns     *)
(* (Turns, the goroutines `go s.runACPPrompt` starts) share the            *)
(* Conversation record and the connection to the agent process.  A step    *)
(* is what runs between two points where another goroutine may be          *)
(* scheduled: a critical section of s.mu or s.acpMu, one RPC, or one       *)
(* unlocked access.                                                        *)
(*                                                                         *)
(* A prompt is the number of the request that brought it: 1 .. MaxPrompts, *)
(* in order of arrival.  0 is the user message of an exchange that was     *)
(* reloaded from disk (OldPrompt) and, in a pc-guarded field, no prompt.   *)
(***************************************************************************)
EXTENDS Naturals, FiniteSets, SequencesExt

CONSTANTS
    Handlers,    \* HTTP requests that may be in progress at the same time
    MaxPrompts,  \* bound: prompts the clients ever send
    MaxTurns,    \* bound: turn goroutines ever started
    Ops,         \* what clients and the environment do, a subset of AllOps
    AcpMayFail   \* may spawning the agent, or session/new, fail?

AllOps == {"init", "prompt", "enqueue", "queueDelete", "cancel", "undo",
           "delete", "reinit", "connectElsewhere", "agentDies"}

ASSUME ConvTurnAssumption ==
    /\ MaxPrompts \in Nat
    /\ MaxTurns \in Nat
    /\ Ops \subseteq AllOps
    /\ AcpMayFail \in BOOLEAN

Turns     == 1 .. MaxTurns
Prompts   == 1 .. MaxPrompts
OldPrompt == 0
NoPrompt  == 0
NoTurn    == 0

VARIABLES
    exists,        \* convID is a key of s.convs
    session,       \* conv.ACPSessionID with conv.Initialized: "none", "stale"
                   \* (an id that no running agent has issued) or "live"
    running,       \* conv.Running
    messages,      \* the user messages of conv.Messages
    queue,         \* conv.Queue
    promptCancel,  \* the turn whose context conv.PromptCancel cancels
    agent,         \* "none" until s.acpConnected is set, then "up" or, when the
                   \* process has ended, "dead": s.acpConnected is never reset
    hpc,           \* per handler: where its goroutine is
    hprompt,       \* per handler: the prompt of the request
    tpc,           \* per turn: where its goroutine is
    tprompt,       \* per turn: promptText
    tnext,         \* per turn: the prompt dequeuePrompt returned to it
    tcancelled,    \* the turns whose context has been cancelled
    spawned,       \* number of turns started so far
    arrived        \* number of prompts received so far

conv  == <<exists, session, running, messages, queue, promptCancel>>
hvars == <<hpc, hprompt>>
tvars == <<tpc, tprompt, tnext, tcancelled, spawned>>
vars  == <<conv, agent, hvars, tvars, arrived>>

HandlerPC == {"idle", "connect", "newSession", "checkRunning", "append", "arm",
              "spawn", "cancelContext", "clearRunning"}
TurnPC == {"unborn", "lookup", "checkConn", "connect", "newSession",
           "storeCancel", "rpc", "finish", "abort", "dequeue", "append",
           "arm", "spawn", "cleanup", "done"}

(* The stretch of runACPPrompt after which Running is no longer this turn's
   business: from the start of the goroutine to its setConvRunning(false). *)
Busy == {"lookup", "checkConn", "connect", "newSession", "storeCancel", "rpc",
         "finish", "abort"}

(* The stretch in which `defer` still owes the reset of conv.PromptCancel. *)
OwesCleanup == {"rpc", "finish", "dequeue", "append", "arm", "spawn", "cleanup"}

-----------------------------------------------------------------------------
(* A server that has just started: the conversation is new, or it was
   reloaded from its JSONL file with the session id of the last process. *)
Init ==
    /\ exists = TRUE
    /\ \/ session = "none"  /\ messages = <<>>
       \/ session = "stale" /\ messages = <<OldPrompt>>
    /\ running = FALSE
    /\ queue = <<>>
    /\ promptCancel = NoTurn
    /\ agent = "none"
    /\ hpc = [h \in Handlers |-> "idle"]
    /\ hprompt = [h \in Handlers |-> NoPrompt]
    /\ tpc = [t \in Turns |-> "unborn"]
    /\ tprompt = [t \in Turns |-> NoPrompt]
    /\ tnext = [t \in Turns |-> NoPrompt]
    /\ tcancelled = {}
    /\ spawned = 0
    /\ arrived = 0

(* `go s.runACPPrompt(convID, p)`.  pcs is tpc after the caller's own move. *)
StartTurn(p, pcs) ==
    /\ spawned < MaxTurns
    /\ spawned' = spawned + 1
    /\ tpc' = [pcs EXCEPT ![spawned + 1] = "lookup"]
    /\ tprompt' = [tprompt EXCEPT ![spawned + 1] = p]

(* setConvRunning: a lookup and an assignment under s.mu. *)
SetConvRunning(value) == running' = IF exists THEN value ELSE running

(* ensureACPConnection holds s.acpMu from the test to the assignment, and
   leaves acpConnected false when it fails.  It never tells a dead agent. *)
EnsureConnected == agent' = IF agent = "none" THEN "up" ELSE agent

-----------------------------------------------------------------------------
(* HTTP handlers.  A request with a prompt is numbered when it arrives; it   *)
(* is dropped when the handler answers with an error.                        *)

Arrive(h, op) ==
    /\ op \in Ops
    /\ hpc[h] = "idle"
    /\ exists                                   \* otherwise 404

ArriveWithPrompt(h, op, pc) ==
    /\ Arrive(h, op)
    /\ arrived < MaxPrompts
    /\ arrived' = arrived + 1
    /\ hpc' = [hpc EXCEPT ![h] = pc]
    /\ hprompt' = [hprompt EXCEPT ![h] = arrived + 1]

Answer(h) ==
    /\ hpc' = [hpc EXCEPT ![h] = "idle"]
    /\ hprompt' = [hprompt EXCEPT ![h] = NoPrompt]

(* handleConvInit never looks at Running.  The web client calls it only for a
   conversation without a session; "reinit" is any other client. *)
ConvInit(h) ==
    /\ ArriveWithPrompt(h, "init", "connect")
    /\ session = "none" \/ "reinit" \in Ops
    /\ UNCHANGED <<conv, agent, tvars>>

InitConnect(h) ==
    /\ hpc[h] = "connect"
    /\ EnsureConnected
    /\ hpc' = [hpc EXCEPT ![h] = "newSession"]
    /\ UNCHANGED <<conv, hprompt, tvars, arrived>>

InitNewSession(h) ==
    /\ hpc[h] = "newSession"
    /\ agent = "up"
    /\ session' = "live"
    /\ hpc' = [hpc EXCEPT ![h] = "append"]
    /\ UNCHANGED <<exists, running, messages, queue, promptCancel, agent,
                   hprompt, tvars, arrived>>

InitFails(h) ==
    /\ \/ hpc[h] = "connect" /\ agent = "none" /\ AcpMayFail
       \/ hpc[h] = "newSession" /\ (AcpMayFail \/ agent = "dead")
    /\ Answer(h)
    /\ UNCHANGED <<conv, agent, tvars, arrived>>

(* handleConvPrompt: the lookup and the test of Initialized and ACPSessionID
   come first, the test of Running is a critical section of its own ... *)
ConvPrompt(h) ==
    /\ ArriveWithPrompt(h, "prompt", "checkRunning")
    /\ session # "none"                         \* otherwise 400
    /\ UNCHANGED <<conv, agent, tvars>>

(* ... and s.mu is released between the test and the rest. *)
PromptCheckRunning(h) ==
    /\ hpc[h] = "checkRunning"
    /\ \/ running /\ Answer(h)                  \* 409: use enqueue instead
       \/ /\ ~running
          /\ hpc' = [hpc EXCEPT ![h] = "append"]
          /\ UNCHANGED hprompt
    /\ UNCHANGED <<conv, agent, tvars, arrived>>

(* executeManualToolCalls fails: the handler answers 500 before it has
   recorded the message. *)
ManualToolCallsFail(h) ==
    /\ hpc[h] = "append"
    /\ Answer(h)
    /\ UNCHANGED <<conv, agent, tvars, arrived>>

AppendUserMessage(h) ==
    /\ hpc[h] = "append"
    /\ messages' = Append(messages, hprompt[h])
    /\ hpc' = [hpc EXCEPT ![h] = "arm"]
    /\ UNCHANGED <<exists, session, running, queue, promptCancel, agent,
                   hprompt, tvars, arrived>>

ArmRunning(h) ==
    /\ hpc[h] = "arm"
    /\ SetConvRunning(TRUE)
    /\ hpc' = [hpc EXCEPT ![h] = "spawn"]
    /\ UNCHANGED <<exists, session, messages, queue, promptCancel, agent,
                   hprompt, tvars, arrived>>

SpawnTurn(h) ==
    /\ hpc[h] = "spawn"
    /\ StartTurn(hprompt[h], tpc)
    /\ Answer(h)
    /\ UNCHANGED <<conv, agent, tnext, tcancelled, arrived>>

(* Bug: an empty prompt, which dequeuePrompt cannot tell from an empty queue,
   is not refused. *)
EnqueueEmpty(h) ==
    /\ Arrive(h, "enqueue")
    /\ queue' = Append(queue, NoPrompt)
    /\ UNCHANGED <<exists, session, running, messages, promptCancel, agent,
                   hvars, tvars, arrived>>

(* handleConvEnqueue: one critical section, no test of Running. *)
ConvEnqueue(h) ==
    /\ Arrive(h, "enqueue")
    /\ arrived < MaxPrompts
    /\ arrived' = arrived + 1
    /\ queue' = Append(queue, arrived + 1)
    /\ UNCHANGED <<exists, session, running, messages, promptCancel, agent,
                   hvars, tvars>>

(* handleConvQueueDelete: by index, 400 when out of range. *)
ConvQueueDelete(h) ==
    /\ Arrive(h, "queueDelete")
    /\ \E i \in 1 .. Len(queue) : queue' = RemoveAt(queue, i)
    /\ UNCHANGED <<exists, session, running, messages, promptCancel, agent,
                   hvars, tvars, arrived>>

(* handleConvCancel: the session/cancel notification only makes the agent end
   its Prompt call, which PromptReturns allows at any time. *)
ConvCancel(h) ==
    /\ Arrive(h, "cancel")
    /\ hpc' = [hpc EXCEPT ![h] = "cancelContext"]
    /\ UNCHANGED <<conv, agent, hprompt, tvars, arrived>>

CancelContext(h) ==
    /\ hpc[h] = "cancelContext"
    /\ tcancelled' = tcancelled \cup ({promptCancel} \ {NoTurn})
    /\ promptCancel' = NoTurn
    /\ hpc' = [hpc EXCEPT ![h] = "clearRunning"]
    /\ UNCHANGED <<exists, session, running, messages, queue, agent,
                   hprompt, tpc, tprompt, tnext, spawned, arrived>>

CancelClearRunning(h) ==
    /\ hpc[h] = "clearRunning"
    /\ SetConvRunning(FALSE)
    /\ Answer(h)
    /\ UNCHANGED <<exists, session, messages, queue, promptCancel, agent,
                   tvars, arrived>>

(* handleConvUndo: one critical section up to the rewrite of the file; the
   last user message is the cut. *)
ConvUndo(h) ==
    /\ Arrive(h, "undo")
    /\ ~running                                 \* otherwise 400
    /\ messages # <<>>                          \* otherwise 400
    /\ messages' = Front(messages)
    /\ session' = "none"
    /\ UNCHANGED <<exists, running, queue, promptCancel, agent, hvars,
                   tvars, arrived>>

(* DELETE /api/conversations/<id>: the turn, if any, is left alone. *)
ConvDelete(h) ==
    /\ Arrive(h, "delete")
    /\ exists' = FALSE
    /\ UNCHANGED <<session, running, messages, queue, promptCancel, agent,
                   hvars, tvars, arrived>>

HandlerStep(h) ==
    \/ InitConnect(h) \/ InitNewSession(h) \/ InitFails(h)
    \/ PromptCheckRunning(h) \/ ManualToolCallsFail(h)
    \/ AppendUserMessage(h) \/ ArmRunning(h) \/ SpawnTurn(h)
    \/ CancelContext(h) \/ CancelClearRunning(h)

ClientRequest(h) ==
    \/ ConvInit(h) \/ ConvPrompt(h) \/ ConvEnqueue(h) \/ ConvQueueDelete(h)
    \/ ConvCancel(h) \/ ConvUndo(h) \/ ConvDelete(h)

-----------------------------------------------------------------------------
(* runACPPrompt *)

Goto(t, from, to) ==
    /\ tpc[t] = from
    /\ tpc' = [tpc EXCEPT ![t] = to]

TurnLookup(t) ==
    /\ Goto(t, "lookup", IF exists THEN "checkConn" ELSE "done")
    /\ UNCHANGED <<conv, agent, hvars, tprompt, tnext, tcancelled, spawned,
                   arrived>>

(* justConnected is read in a critical section of s.acpMu that ends before
   ensureACPConnection takes the lock again. *)
TurnCheckConn(t) ==
    /\ Goto(t, "checkConn", IF agent = "none" THEN "connect" ELSE "storeCancel")
    /\ UNCHANGED <<conv, agent, hvars, tprompt, tnext, tcancelled, spawned,
                   arrived>>

(* Bug: the session id of the last agent process is kept after a restart. *)
ConnectKeepsSession(t) ==
    /\ Goto(t, "connect", "storeCancel")
    /\ EnsureConnected
    /\ UNCHANGED <<conv, hvars, tprompt, tnext, tcancelled, spawned, arrived>>

TurnConnect(t) ==
    /\ Goto(t, "connect", "newSession")
    /\ EnsureConnected
    /\ UNCHANGED <<conv, hvars, tprompt, tnext, tcancelled, spawned, arrived>>

TurnNewSession(t) ==
    /\ Goto(t, "newSession", "storeCancel")
    /\ agent = "up"
    /\ session' = "live"
    /\ UNCHANGED <<exists, running, messages, queue, promptCancel, agent,
                   hvars, tprompt, tnext, tcancelled, spawned, arrived>>

TurnConnectFails(t) ==
    /\ \/ Goto(t, "connect", "abort") /\ agent = "none" /\ AcpMayFail
       \/ Goto(t, "newSession", "abort") /\ (AcpMayFail \/ agent = "dead")
    /\ UNCHANGED <<conv, agent, hvars, tprompt, tnext, tcancelled, spawned,
                   arrived>>

(* Bug: a turn that cannot connect returns without clearing conv.Running. *)
AbortKeepsRunning(t) ==
    /\ Goto(t, "abort", "done")
    /\ UNCHANGED <<conv, agent, hvars, tprompt, tnext, tcancelled, spawned,
                   arrived>>

(* The error paths return here: no dequeuePrompt, no `defer` registered. *)
TurnAbort(t) ==
    /\ Goto(t, "abort", "done")
    /\ SetConvRunning(FALSE)
    /\ UNCHANGED <<exists, session, messages, queue, promptCancel, agent,
                   hvars, tprompt, tnext, tcancelled, spawned, arrived>>

TurnStoreCancel(t) ==
    /\ Goto(t, "storeCancel", "rpc")
    /\ promptCancel' = t
    /\ UNCHANGED <<exists, session, running, messages, queue, agent, hvars,
                   tprompt, tnext, tcancelled, spawned, arrived>>

(* conn.Prompt returns: a stop reason, an error, the cancelled context or the
   two-hour deadline.  What follows up to setConvRunning adds bubbles only. *)
PromptReturns(t) ==
    /\ Goto(t, "rpc", "finish")
    /\ UNCHANGED <<conv, agent, hvars, tprompt, tnext, tcancelled, spawned,
                   arrived>>

(* Bug: the end of a turn does not look at the queue. *)
FinishWithoutDequeue(t) ==
    /\ Goto(t, "finish", "cleanup")
    /\ SetConvRunning(FALSE)
    /\ UNCHANGED <<exists, session, messages, queue, promptCancel, agent,
                   hvars, tprompt, tnext, tcancelled, spawned, arrived>>

TurnFinish(t) ==
    /\ Goto(t, "finish", "dequeue")
    /\ SetConvRunning(FALSE)
    /\ UNCHANGED <<exists, session, messages, queue, promptCancel, agent,
                   hvars, tprompt, tnext, tcancelled, spawned, arrived>>

(* Bug: the prompt stays in the queue. *)
DequeueWithoutRemoval(t) ==
    /\ exists /\ queue # <<>>
    /\ tnext' = [tnext EXCEPT ![t] = Head(queue)]
    /\ Goto(t, "dequeue", "append")
    /\ UNCHANGED <<conv, agent, hvars, tprompt, tcancelled, spawned, arrived>>

(* Bug: the newest prompt goes first. *)
DequeueNewest(t) ==
    /\ exists /\ queue # <<>>
    /\ tnext' = [tnext EXCEPT ![t] = Last(queue)]
    /\ queue' = Front(queue)
    /\ Goto(t, "dequeue", "append")
    /\ UNCHANGED <<exists, session, running, messages, promptCancel, agent,
                   hvars, tprompt, tcancelled, spawned, arrived>>

DequeuePrompt(t) ==
    /\ \/ /\ exists /\ queue # <<>>
          /\ tnext' = [tnext EXCEPT ![t] = Head(queue)]
          /\ queue' = Tail(queue)
          /\ Goto(t, "dequeue", "append")
       \/ /\ ~exists \/ queue = <<>>
          /\ Goto(t, "dequeue", "cleanup")
          /\ UNCHANGED <<tnext, queue>>
    /\ UNCHANGED <<exists, session, running, messages, promptCancel, agent,
                   hvars, tprompt, tcancelled, spawned, arrived>>

HandOffAppend(t) ==
    /\ \/ /\ exists
          /\ Goto(t, "append", "arm")
          /\ messages' = Append(messages, tnext[t])
          /\ UNCHANGED tnext
       \/ /\ ~exists
          /\ Goto(t, "append", "cleanup")
          /\ tnext' = [tnext EXCEPT ![t] = NoPrompt]
          /\ UNCHANGED messages
    /\ UNCHANGED <<exists, session, running, queue, promptCancel, agent,
                   hvars, tprompt, tcancelled, spawned, arrived>>

HandOffArm(t) ==
    /\ Goto(t, "arm", "spawn")
    /\ SetConvRunning(TRUE)
    /\ UNCHANGED <<exists, session, messages, queue, promptCancel, agent,
                   hvars, tprompt, tnext, tcancelled, spawned, arrived>>

HandOffSpawn(t) ==
    /\ tpc[t] = "spawn"
    /\ StartTurn(tnext[t], [tpc EXCEPT ![t] = "cleanup"])
    /\ tnext' = [tnext EXCEPT ![t] = NoPrompt]
    /\ UNCHANGED <<conv, agent, hvars, tcancelled, arrived>>

(* Bug: the deferred function only releases the context. *)
CleanupKeepsHandle(t) ==
    /\ Goto(t, "cleanup", "done")
    /\ UNCHANGED <<conv, agent, hvars, tprompt, tnext, tcancelled, spawned,
                   arrived>>

(* The deferred functions: PromptCancel is cleared whoever stored it. *)
TurnCleanup(t) ==
    /\ Goto(t, "cleanup", "done")
    /\ promptCancel' = NoTurn
    /\ UNCHANGED <<exists, session, running, messages, queue, agent, hvars,
                   tprompt, tnext, tcancelled, spawned, arrived>>

TurnStep(t) ==
    \/ TurnLookup(t) \/ TurnCheckConn(t) \/ TurnConnect(t) \/ TurnNewSession(t)
    \/ TurnConnectFails(t) \/ TurnAbort(t) \/ TurnStoreCancel(t)
    \/ PromptReturns(t) \/ TurnFinish(t) \/ DequeuePrompt(t)
    \/ HandOffAppend(t) \/ HandOffArm(t) \/ HandOffSpawn(t) \/ TurnCleanup(t)

(* A turn or an init of another conversation starts the shared agent. *)
ConnectElsewhere ==
    /\ "connectElsewhere" \in Ops
    /\ agent = "none"
    /\ EnsureConnected
    /\ UNCHANGED <<conv, hvars, tvars, arrived>>

(* The agent process ends, and the sessions it has issued with it. *)
AgentDies ==
    /\ "agentDies" \in Ops
    /\ agent = "up"
    /\ agent' = "dead"
    /\ session' = IF session = "live" THEN "stale" ELSE session
    /\ UNCHANGED <<exists, running, messages, queue, promptCancel, hvars, tvars,
                   arrived>>

Next ==
    \/ \E h \in Handlers : ClientRequest(h) \/ HandlerStep(h)
    \/ \E t \in Turns : TurnStep(t)
    \/ ConnectElsewhere \/ AgentDies

Spec == Init /\ [][Next]_vars

(* Goroutines that can run do run, and the agent answers: conn.Prompt has a
   deadline of two hours.  Clients owe nothing. *)
Fairness ==
    /\ \A h \in Handlers : WF_vars(HandlerStep(h))
    /\ \A t \in Turns : WF_vars(TurnStep(t))

FairSpec == Spec /\ Fairness
-----------------------------------------------------------------------------
(* Every variable holds what the code's types and this module's bounds allow. *)
TypeOK ==
    /\ exists \in BOOLEAN
    /\ session \in {"none", "stale", "live"}
    /\ running \in BOOLEAN
    /\ messages \in Seq(Prompts \cup {OldPrompt})
    /\ queue \in Seq(Prompts)
    /\ promptCancel \in Turns \cup {NoTurn}
    /\ agent \in {"none", "up", "dead"}
    /\ hpc \in [Handlers -> HandlerPC]
    /\ hprompt \in [Handlers -> Prompts \cup {NoPrompt}]
    /\ tpc \in [Turns -> TurnPC]
    /\ tprompt \in [Turns -> Prompts \cup {NoPrompt}]
    /\ tnext \in [Turns -> Prompts \cup {NoPrompt}]
    /\ tcancelled \subseteq Turns
    /\ spawned \in 0 .. MaxTurns
    /\ arrived \in 0 .. MaxPrompts

BusyTurns == {t \in Turns : tpc[t] \in Busy}

(* Running is never left set by a goroutine that is gone: while a conversation
   is marked running, a turn that will clear the mark is under way or is about
   to be started.  Undo, trim and prompt refuse to work while the mark is set,
   so a mark without an owner would lock the conversation until a restart. *)
RunningHasOwner ==
    exists /\ running =>
        \/ BusyTurns # {}
        \/ \E t \in Turns : tpc[t] = "spawn"
        \/ \E h \in Handlers : hpc[h] = "spawn"

(* conv.PromptCancel never outlives the turn that stored it: what a cancel
   request calls is the context of a turn that has yet to run its `defer`. *)
CancelHandleLive ==
    promptCancel # NoTurn => tpc[promptCancel] \in OwesCleanup

(* The prompts a handler holds, and those a finishing turn has dequeued. *)
InHand == ({hprompt[h] : h \in Handlers} \cup {tnext[t] : t \in Turns})
              \ {NoPrompt}

Sent == {tprompt[t] : t \in Turns} \ {NoPrompt}

Queued == Range(queue)

(* Whatever the interleaving, even when two turns overlap, a prompt is in one
   place only: no two turns are started for it, and none while it waits. *)
PromptOnce ==
    /\ \A t, u \in Turns : tprompt[t] = tprompt[u] /\ tprompt[t] # NoPrompt => t = u
    /\ \A i, j \in 1 .. Len(queue) : queue[i] = queue[j] => i = j
    /\ Queued \cap InHand = {}
    /\ Queued \cap Sent = {}
    /\ InHand \cap Sent = {}

(* The server keeps the promise of PromptDelivery. *)
Promise == INSTANCE PromptDelivery
              WITH waiting <- queue, inHand <- InHand, sent <- Sent

PromptDeliverySpec == Promise!PDSpec

(* At most one turn of the conversation is at work. *)
OneTurnAtATime == Cardinality(BusyTurns) <= 1

(* The user message of a turn at work is in the conversation: undo, which cuts
   the last exchange, does not cut one that is still being produced. *)
BusyTurnRecorded ==
    \A t \in BusyTurns : tprompt[t] \in Range(messages)

(* A cancel request can reach every turn that waits for the agent. *)
CancelReachesTurn ==
    \A t \in Turns : tpc[t] = "rpc" => t \in tcancelled \/ promptCancel = t

(* What runACPPrompt takes for an open connection leads to a running agent. *)
ConnectionAlive ==
    [][\A t \in Turns : TurnCheckConn(t) => tpc'[t] = "connect" \/ agent = "up"]_vars

(* A prompt is only sent under a session that the running agent has issued. *)
PromptUnderLiveSession ==
    [][\A t \in Turns : tpc[t] # "rpc" /\ tpc'[t] = "rpc" => session = "live"]_vars

(* The running mark is cleared again, whatever fails and whatever clients do. *)
RunEnds == running /\ exists ~> ~running \/ ~exists

(* A prompt that is queued while a turn runs leaves the queue. *)
QueueDrains ==
    \A p \in Prompts :
        exists /\ running /\ p \in Queued ~> ~exists \/ p \notin Queued
=============================================================================
