---------------------------- MODULE AgentSession ----------------------------
(***************************************************************************)
(* One session of the agent process, `llmdevkit acp` (cmd_acp.go), and the *)
(* loop of the runner that serves its prompts (internal/runner/runner.go). *)
(* The session is in the store: this process has issued its id.            *)
(*                                                                         *)
(* Every session/prompt request runs Prompt in a goroutine of its own:     *)
(* build the tools, store the cancel function, load the history, run the   *)
(* hooks, then ask the LLM, run the tools it calls in parallel, one        *)
(* goroutine each, and ask again until it calls none.  session/cancel may  *)
(* come at any time.  The text of messages is left out: a message is where *)
(* it comes from.                                                          *)
(***************************************************************************)
EXTENDS Naturals, FiniteSets, SequencesExt

CONSTANTS
    MaxPrompts,   \* bound: prompts of the session
    MaxRounds,    \* bound: rounds of tool calls in a prompt
    MaxCalls,     \* bound: tool calls in a round
    Features      \* what clients, hooks and the LLM do, a subset of AllFeatures

AllFeatures == {
    "overlap",         \* a prompt may arrive while another is being served
    "cancel",          \* session/cancel may arrive
    "hooks",           \* hooks are configured
    "errors",          \* tools cannot be built, or the LLM request fails
    "resume"}          \* the first prompt continues an older conversation

ASSUME AgentSessionAssumption ==
    /\ MaxPrompts \in Nat
    /\ MaxRounds \in Nat
    /\ MaxCalls \in Nat
    /\ Features \subseteq AllFeatures

Prompts  == 1 .. MaxPrompts
NoPrompt == 0

VARIABLES
    saved,      \* sd.Messages
    cancelFn,   \* the prompt that sd.CancelFn cancels
    cancelled,  \* the prompts whose promptCtx has been cancelled
    ppc,        \* per prompt: where its goroutine is
    chat,       \* per prompt: `messages`; the LLM gets the system prompt first
    round,      \* per prompt: rounds of tool calls so far
    cpc,        \* per prompt, per call of the round: where its goroutine is
    tcIDMap,    \* per prompt: from the LLM's call ids, which are numbers that
                \* start again in every round, to ACP tool call ids
    calls       \* per ACP tool call id: the prompt it is for, and the updates
                \* that have been sent to the client

vars == <<saved, cancelFn, cancelled, ppc, chat, round, cpc, tcIDMap, calls>>

History == INSTANCE ChatHistory WITH history <- saved
Message(role, prompt, n, call) == History!Message(role, prompt, n, call)

Resumed(p) == "resume" \in Features /\ p = 1

-----------------------------------------------------------------------------
Init ==
    /\ saved = <<>>
    /\ cancelFn = NoPrompt
    /\ cancelled = {}
    /\ ppc = [p \in Prompts |-> "unborn"]
    /\ chat = [p \in Prompts |-> <<>>]
    /\ round = [p \in Prompts |-> 0]
    /\ cpc = [p \in Prompts |-> <<>>]
    /\ tcIDMap = [p \in Prompts |-> [i \in 1 .. MaxCalls |-> 0]]
    /\ calls = <<>>

Goto(p, from, to) ==
    /\ ppc[p] = from
    /\ ppc' = [ppc EXCEPT ![p] = to]

Active == {p \in Prompts : ppc[p] \notin {"unborn", "done"}}

PromptArrives(p) ==
    /\ "overlap" \in Features \/ Active = {}
    /\ \A q \in 1 .. p - 1 : ppc[q] # "unborn"
    /\ Goto(p, "unborn", "build")
    /\ UNCHANGED <<saved, cancelFn, cancelled, chat, round, cpc, tcIDMap, calls>>

(* No agent, no LLM of that name, or buildToolRegistry fails: a refusal. *)
BuildFails(p) ==
    /\ "errors" \in Features
    /\ Goto(p, "build", "done")
    /\ UNCHANGED <<saved, cancelFn, cancelled, chat, round, cpc, tcIDMap, calls>>

BuildToolRegistry(p) ==
    /\ Goto(p, "build", "store")
    /\ UNCHANGED <<saved, cancelFn, cancelled, chat, round, cpc, tcIDMap, calls>>

(* Bug: the cancel function is not stored. *)
StoreNothing(p) ==
    /\ Goto(p, "store", "load")
    /\ UNCHANGED <<saved, cancelFn, cancelled, chat, round, cpc, tcIDMap, calls>>

StoreCancel(p) ==
    /\ Goto(p, "store", "load")
    /\ cancelFn' = p
    /\ UNCHANGED <<saved, cancelled, chat, round, cpc, tcIDMap, calls>>

(* The server rebuilds the history of an older conversation from its bubbles,
   the last of which is the prompt that is being sent.  A tool response comes
   without the call it answers. *)
OldBubbles == <<"user", "tool_request", "tool_response", "llm">>

HistoryBlocks(p) ==
    LET kept == SelectSeq(OldBubbles, LAMBDA b : b # "tool_request")
        role == [user |-> "user", llm |-> "assistant", tool_response |-> "tool"]
    IN  [i \in DOMAIN kept |-> Message(role[kept[i]], NoPrompt, 0, 0)]
            \o <<Message("user", p, 0, 0)>>

(* Bug: the session's history is not prepended. *)
LoadNothing(p) ==
    /\ Goto(p, "load", "convHook")
    /\ chat' = [chat EXCEPT ![p] = <<Message("user", p, 0, 0)>>]
    /\ UNCHANGED <<saved, cancelFn, cancelled, round, cpc, tcIDMap, calls>>

LoadHistory(p) ==
    /\ Goto(p, "load", "convHook")
    /\ LET past == IF saved # <<>> THEN saved
                   ELSE IF Resumed(p) THEN HistoryBlocks(p) ELSE <<>>
       IN  chat' = [chat EXCEPT ![p] = Append(past, Message("user", p, 0, 0))]
    /\ UNCHANGED <<saved, cancelFn, cancelled, round, cpc, tcIDMap, calls>>

-----------------------------------------------------------------------------
(* RunPrompt *)

AllUpdates == <<"start", "input", "close">>
ToolCallOf(p, updates) == [of |-> p, sent |-> updates]

(* What executeHooks does for one event: nothing, a tool call that fails and
   ends the prompt, or one whose output, unless empty, goes to the chat. *)
Hook(p, runs, from, to) ==
    \/ /\ Goto(p, from, to)
       /\ UNCHANGED <<chat, calls>>
    \/ /\ runs /\ Goto(p, from, "cleanup")
       /\ calls' = Append(calls, ToolCallOf(p, AllUpdates))
       /\ UNCHANGED chat
    \/ /\ runs /\ p \notin cancelled /\ Goto(p, from, to)
       /\ calls' = Append(calls, ToolCallOf(p, AllUpdates))
       /\ \/ chat' = [chat EXCEPT ![p] = Append(@, Message("system", p, 0, 0))]
          \/ UNCHANGED chat

ConversationBegin(p) ==
    /\ Hook(p, "hooks" \in Features /\ ~Resumed(p) /\ Len(chat[p]) <= 1,
            "convHook", "turnHook")
    /\ UNCHANGED <<saved, cancelFn, cancelled, round, cpc, tcIDMap>>

TurnBegin(p) ==
    /\ Hook(p, "hooks" \in Features /\ ~Resumed(p), "turnHook", "llm")
    /\ UNCHANGED <<saved, cancelFn, cancelled, round, cpc, tcIDMap>>

LLMCallsTools(p) ==
    /\ p \notin cancelled
    /\ round[p] < MaxRounds
    /\ Goto(p, "llm", "tools")
    /\ round' = [round EXCEPT ![p] = @ + 1]
    /\ \E n \in 1 .. MaxCalls :
          /\ chat' = [chat EXCEPT ![p] = Append(@, Message("assistant", p, round[p] + 1, n))]
          /\ cpc' = [cpc EXCEPT ![p] = [i \in 1 .. n |-> "start"]]
    /\ UNCHANGED <<saved, cancelFn, cancelled, tcIDMap, calls>>

(* No tool calls, or finish_reason "stop": the text of the reply is streamed
   and returned, `messages` stays as it is. *)
LLMReplies(p) ==
    /\ p \notin cancelled
    /\ Goto(p, "llm", "save")
    /\ UNCHANGED <<saved, cancelFn, cancelled, chat, round, cpc, tcIDMap, calls>>

(* Bug: the request to the LLM is made without the prompt's context. *)
FailsOnErrorsOnly(p) ==
    /\ "errors" \in Features
    /\ Goto(p, "llm", "cleanup")
    /\ UNCHANGED <<saved, cancelFn, cancelled, chat, round, cpc, tcIDMap, calls>>

LLMFails(p) ==
    /\ "errors" \in Features \/ p \in cancelled
    /\ Goto(p, "llm", "cleanup")
    /\ UNCHANGED <<saved, cancelFn, cancelled, chat, round, cpc, tcIDMap, calls>>

(* The goroutine of call i. *)
CallGoto(p, i, from, to) ==
    /\ ppc[p] = "tools"
    /\ i \in DOMAIN cpc[p]
    /\ cpc[p][i] = from
    /\ cpc' = [cpc EXCEPT ![p][i] = to]
    /\ UNCHANGED <<saved, cancelFn, cancelled, ppc, chat, round>>

(* An update sent with a cancelled context may or may not reach the client. *)
SendUpdate(p, i, update) ==
    \/ calls' = [calls EXCEPT ![tcIDMap[p][i]].sent = Append(@, update)]
    \/ p \in cancelled /\ UNCHANGED calls

(* Bug: a call id seen before keeps its ACP tool call id. *)
CallStartReusesId(p, i) ==
    /\ CallGoto(p, i, "start", "input")
    /\ IF tcIDMap[p][i] = 0
       THEN /\ tcIDMap' = [tcIDMap EXCEPT ![p][i] = Len(calls) + 1]
            /\ calls' = Append(calls, ToolCallOf(p, <<"start">>))
       ELSE /\ SendUpdate(p, i, "start")
            /\ UNCHANGED tcIDMap

CallStart(p, i) ==
    /\ CallGoto(p, i, "start", "input")
    /\ tcIDMap' = [tcIDMap EXCEPT ![p][i] = Len(calls) + 1]
    /\ \/ calls' = Append(calls, ToolCallOf(p, <<"start">>))
       \/ p \in cancelled /\ calls' = Append(calls, ToolCallOf(p, <<>>))

CallInput(p, i) ==
    /\ CallGoto(p, i, "input", "run")
    /\ SendUpdate(p, i, "input")
    /\ UNCHANGED tcIDMap

(* The tool returns a result or an error: both become a tool message.  No tool
   outlives the prompt's context. *)
CallReturns(p, i) ==
    /\ CallGoto(p, i, "run", "close")
    /\ UNCHANGED <<tcIDMap, calls>>

CallClose(p, i) ==
    /\ CallGoto(p, i, "close", "done")
    /\ SendUpdate(p, i, "close")
    /\ UNCHANGED tcIDMap

ToolMessages(p) == [i \in DOMAIN cpc[p] |-> Message("tool", p, round[p], i)]

(* Bug: the results are collected without waiting for all of them. *)
CollectTooEarly(p) ==
    /\ Goto(p, "tools", "llm")
    /\ \E i \in DOMAIN cpc[p] : cpc[p][i] = "done"
    /\ chat' = [chat EXCEPT ![p] =
          @ \o SelectSeq(ToolMessages(p), LAMBDA m : cpc[p][m.call] = "done")]
    /\ UNCHANGED <<saved, cancelFn, cancelled, round, cpc, tcIDMap, calls>>

(* wg.Wait(), then the results in the order of the calls. *)
CollectResults(p) ==
    /\ Goto(p, "tools", "llm")
    /\ \A i \in DOMAIN cpc[p] : cpc[p][i] = "done"
    /\ chat' = [chat EXCEPT ![p] = @ \o ToolMessages(p)]
    /\ cpc' = [cpc EXCEPT ![p] = <<>>]
    /\ UNCHANGED <<saved, cancelFn, cancelled, round, tcIDMap, calls>>

-----------------------------------------------------------------------------
SaveHistory(p) ==
    /\ Goto(p, "save", "cleanup")
    /\ saved' = chat[p]
    /\ UNCHANGED <<cancelFn, cancelled, chat, round, cpc, tcIDMap, calls>>

(* The deferred functions: CancelFn is cleared whoever stored it.  The locals
   of the goroutine are gone. *)
Cleanup(p) ==
    /\ Goto(p, "cleanup", "done")
    /\ cancelFn' = NoPrompt
    /\ chat' = [chat EXCEPT ![p] = <<>>]
    /\ round' = [round EXCEPT ![p] = 0]
    /\ tcIDMap' = [tcIDMap EXCEPT ![p] = [i \in 1 .. MaxCalls |-> 0]]
    /\ UNCHANGED <<saved, cancelled, cpc, calls>>

(* session/cancel *)
Cancel ==
    /\ "cancel" \in Features
    /\ cancelled' = cancelled \cup ({cancelFn} \ {NoPrompt})
    /\ UNCHANGED <<saved, cancelFn, ppc, chat, round, cpc, tcIDMap, calls>>

(* What the goroutines of a prompt do by themselves ... *)
OwnStep(p) ==
    \/ StoreCancel(p) \/ LoadHistory(p) \/ CollectResults(p)
    \/ SaveHistory(p) \/ Cleanup(p)
    \/ \E i \in 1 .. MaxCalls : CallStart(p, i) \/ CallInput(p, i) \/ CallClose(p, i)

(* ... and what they wait for: MCP servers, hooks, the LLM, tools. *)
WaitOver(p) ==
    \/ BuildFails(p) \/ BuildToolRegistry(p)
    \/ ConversationBegin(p) \/ TurnBegin(p)
    \/ LLMCallsTools(p) \/ LLMReplies(p) \/ LLMFails(p)
    \/ \E i \in 1 .. MaxCalls : CallReturns(p, i)

Next ==
    \/ \E p \in Prompts : PromptArrives(p) \/ OwnStep(p) \/ WaitOver(p)
    \/ Cancel

Spec == Init /\ [][Next]_vars

(* Goroutines that can run do run.  Nobody owes an answer, http.DefaultClient
   and the ask tools have no timeout, but a wait under a cancelled context is
   over: requests and tool calls are made with the prompt's context. *)
FairSpec ==
    /\ Spec
    /\ \A p \in Prompts :
          WF_vars(OwnStep(p)) /\ WF_vars(p \in cancelled /\ WaitOver(p))
-----------------------------------------------------------------------------
PPC == {"unborn", "build", "store", "load", "convHook", "turnHook", "llm",
        "tools", "save", "cleanup", "done"}
Messages == [role : {"user", "assistant", "system", "tool"},
             prompt : Prompts \cup {NoPrompt},
             round : 0 .. MaxRounds, call : 0 .. MaxCalls]

(* Every variable holds what the code's types and this module's bounds allow. *)
TypeOK ==
    /\ saved \in Seq(Messages)
    /\ cancelFn \in Prompts \cup {NoPrompt}
    /\ cancelled \subseteq Prompts
    /\ ppc \in [Prompts -> PPC]
    /\ chat \in [Prompts -> Seq(Messages)]
    /\ round \in [Prompts -> 0 .. MaxRounds]
    /\ cpc \in [Prompts -> Seq({"start", "input", "run", "close", "done"})]
    /\ tcIDMap \in [Prompts -> [1 .. MaxCalls -> Nat]]
    /\ calls \in Seq([of : Prompts, sent : Seq(Range(AllUpdates))])

(* However the tools of a round finish, every request to the LLM carries the
   results of its calls right after the calls, complete and in their order. *)
RequestWellFormed ==
    \A p \in Prompts : ppc[p] = "llm" => History!ResultsFollowCalls(chat[p])

(* The session keeps the promise of ChatHistory. *)
ChatHistorySpec == History!CHSpec

(* The client is told of every tool call in order, start, arguments, end, under
   one id, and of its end before the LLM is asked again: no bubble of a prompt
   that was not cancelled is left open, even if the LLM uses its ids again. *)
CallsClosed ==
    \A k \in DOMAIN calls :
        LET p == calls[k].of IN
        p \notin cancelled =>
            /\ IsPrefix(calls[k].sent, AllUpdates)
            /\ ppc[p] # "tools" => calls[k].sent = AllUpdates

(* A prompt whose context is cancelled ends, though the LLM never answers. *)
CancelEndsPrompt == \A p \in Prompts : p \in cancelled ~> ppc[p] = "done"

(* session/cancel can reach every prompt that waits for hooks, LLM or tools. *)
CancelReachesPrompt ==
    \A p \in Prompts :
        ppc[p] \in {"convHook", "turnHook", "llm", "tools"} =>
            cancelFn = p \/ p \in cancelled

(* The reply to a prompt is part of what the session remembers. *)
ReplyRemembered ==
    \A p \in Prompts :
        \A i \in DOMAIN saved : saved[i] = Message("user", p, 0, 0) =>
            \E j \in i + 1 .. Len(saved) :
                saved[j].role = "assistant" /\ saved[j].prompt = p /\ saved[j].call = 0

(* What the LLM is sent holds every message of the user once. *)
PromptNotRepeated ==
    \A p \in Prompts : \A i, j \in DOMAIN chat[p] :
        chat[p][i].role = "user" /\ chat[p][i] = chat[p][j] => i = j
=============================================================================
