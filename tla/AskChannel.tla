----------------------------- MODULE AskChannel -----------------------------
(***************************************************************************)
(* The ask tools (server_sse.go): a tool of the agent posts a question to  *)
(* /api/sidechannel and waits; the server picks the conversation, shows    *)
(* the question there and waits for an answer, which a browser tab posts   *)
(* to /api/ask/<id>.  An approved ask_exec runs the command.               *)
(*                                                                         *)
(* The request says nothing of the conversation it is for: the server      *)
(* takes the first running one in s.convOrder, else the first initialized. *)
(* Asks may be in progress at once: tools run in parallel.                 *)
(***************************************************************************)
EXTENDS Naturals, FiniteSets, SequencesExt

CONSTANTS
    Convs,      \* conversations, numbered in order of creation
    Asks,       \* side-channel requests, each with an id of its own
    Execs,      \* those that are ask_exec
    Tabs,       \* answers that may be on their way at the same time
    MaxTurns,   \* bound: turns ever started
    Ops         \* what users do beside answering, a subset of AllOps

AllOps == {"parallelTurns", "cancel", "delete", "undo"}

ASSUME AskChannelAssumption ==
    /\ Convs \subseteq Nat \ {0} /\ IsFiniteSet(Convs)
    /\ Execs \subseteq Asks
    /\ MaxTurns \in Nat
    /\ Ops \subseteq AllOps

VARIABLES
    order,        \* s.convOrder
    turns,        \* the running conversations, in the order they were started
    initialized,  \* the conversations with Initialized
    started,      \* number of turns started
    said,         \* per conversation: the user messages it has
    apc,          \* per ask: where the goroutine of handleSideChannel is
    caller,       \* per ask: the tool that asked: "none", "waiting", "gone"
                  \* (its turn was cancelled) or "replied"
    owner,        \* per ask: the conversation whose turn asked
    shownIn,      \* per ask: the conversation the server has picked
    bubble,       \* per ask: its bubble: "none", "open", "approved", "answered"
                  \* or "cut" (an undo has removed it)
    under,        \* per ask: the user messages there were before its bubble
    askPends,     \* the asks with an entry in s.askPends
    channel,      \* per ask: its channel, which holds one answer
    ran,          \* the asks whose command has been run
    held,         \* those whose command has left a process that holds its output
    tpc,          \* per tab: where the goroutine of handleAskAnswer is
    posted        \* per tab: the answers posted, <<ask, approved>>, latest last

avars == <<apc, caller, owner, shownIn, bubble, under, ran, held>>
cvars == <<order, turns, initialized, started, said>>
vars  == <<avars, cvars, askPends, channel, tpc, posted>>

NoConv == 0

(* s.convOrder has the newest conversation first, or, once conversations have
   been reloaded, the order of the files' names, which is that of creation. *)
Init ==
    /\ order \in [1 .. Cardinality(Convs) -> Convs]
    /\ \/ \A i, j \in DOMAIN order : i < j => order[i] > order[j]
       \/ \A i, j \in DOMAIN order : i < j => order[i] < order[j]
    /\ turns = <<>>
    /\ initialized = {}
    /\ started = 0
    /\ said = [c \in Convs |-> 0]
    /\ apc = [a \in Asks |-> "idle"]
    /\ caller = [a \in Asks |-> "none"]
    /\ owner = [a \in Asks |-> NoConv]
    /\ shownIn = [a \in Asks |-> NoConv]
    /\ bubble = [a \in Asks |-> "none"]
    /\ under = [a \in Asks |-> 0]
    /\ askPends = {}
    /\ channel = [a \in Asks |-> <<>>]
    /\ ran = {}
    /\ held = {}
    /\ tpc = [t \in Tabs |-> "idle"]
    /\ posted = [t \in Tabs |-> <<>>]

-----------------------------------------------------------------------------
(* Turns, as far as the side channel sees them: the Running mark. *)

Waiting(c) == {a \in Asks : owner[a] = c /\ caller[a] = "waiting"}

Stop(c) ==
    IF c \in Range(turns)
    THEN \E i \in DOMAIN turns : turns[i] = c /\ turns' = RemoveAt(turns, i)
    ELSE UNCHANGED turns

StartTurn(c) ==
    /\ started < MaxTurns
    /\ c \in Range(order) \ Range(turns)
    /\ "parallelTurns" \in Ops \/ turns = <<>>
    /\ turns' = Append(turns, c)
    /\ initialized' = initialized \cup {c}
    /\ started' = started + 1
    /\ said' = [said EXCEPT ![c] = @ + 1]
    /\ UNCHANGED <<avars, order, askPends, channel, tpc, posted>>

EndTurn(c) ==
    /\ c \in Range(turns)
    /\ Waiting(c) = {}
    /\ Stop(c)
    /\ UNCHANGED <<avars, order, initialized, started, said, askPends, channel, tpc, posted>>

(* A cancelled turn: the tool gives up its request, and the server, which does
   not look at the request's context, does not notice. *)
CancelTurn(c) ==
    /\ "cancel" \in Ops
    /\ c \in Range(turns)
    /\ Stop(c)
    /\ caller' = [a \in Asks |-> IF a \in Waiting(c) THEN "gone" ELSE caller[a]]
    /\ UNCHANGED <<apc, owner, shownIn, bubble, under, ran, held, order, initialized,
                   started, said, askPends, channel, tpc, posted>>

DeleteConv(c) ==
    /\ "delete" \in Ops
    /\ \E i \in DOMAIN order : order[i] = c /\ order' = RemoveAt(order, i)
    /\ Stop(c)
    /\ UNCHANGED <<avars, initialized, started, said, askPends, channel, tpc, posted>>

(* The last user message goes, and every bubble after it: those of the asks that
   were shown since.  An ask of a cancelled turn may still be waiting. *)
CutLast(c) ==
    /\ "undo" \in Ops
    /\ c \in Range(order) /\ said[c] > 0
    /\ said' = [said EXCEPT ![c] = @ - 1]
    /\ initialized' = initialized \ {c}
    /\ bubble' = [a \in Asks |->
                     IF shownIn[a] = c /\ under[a] = said[c] /\ bubble[a] # "none"
                     THEN "cut" ELSE bubble[a]]
    /\ UNCHANGED <<apc, caller, owner, shownIn, under, ran, held, order, turns,
                   started, askPends, channel, tpc, posted>>

(* Bug: a running conversation is cut as well. *)
UndoRunning(c) == CutLast(c)

UndoConv(c) ==
    /\ c \notin Range(turns)
    /\ CutLast(c)

-----------------------------------------------------------------------------
(* handleSideChannel *)

AskGoto(a, from, to) ==
    /\ apc[a] = from
    /\ apc' = [apc EXCEPT ![a] = to]

Ask(a) ==
    /\ AskGoto(a, "idle", "route")
    /\ caller' = [caller EXCEPT ![a] = "waiting"]
    /\ \E c \in Range(turns) : owner' = [owner EXCEPT ![a] = c]
    /\ UNCHANGED <<shownIn, bubble, under, ran, held, cvars, askPends, channel, tpc, posted>>

Reply(a) ==
    caller' = [caller EXCEPT ![a] = IF @ = "waiting" THEN "replied" ELSE @]

Route(a) ==
    LET Chosen(set) == order[SelectInSeq(order, LAMBDA c : c \in set)]
        running == Range(turns) \cap Range(order)
        ready   == initialized \cap Range(order)
    IN  /\ \/ /\ running \cup ready # {}
              /\ AskGoto(a, "route", "show")
              /\ shownIn' = [shownIn EXCEPT ![a] =
                                IF running # {} THEN Chosen(running) ELSE Chosen(ready)]
              /\ UNCHANGED caller
           \/ /\ running \cup ready = {}
              /\ AskGoto(a, "route", "done")        \* 400
              /\ Reply(a)
              /\ UNCHANGED shownIn
        /\ UNCHANGED <<owner, bubble, under, ran, held, cvars, askPends, channel, tpc, posted>>

(* addBubble: from here on every client that reads the conversation sees the
   question and its id. *)
Show(a) ==
    /\ AskGoto(a, "show", "register")
    /\ bubble' = [bubble EXCEPT ![a] = IF shownIn[a] \in Range(order) THEN "open" ELSE @]
    /\ under' = [under EXCEPT ![a] = said[shownIn[a]]]
    /\ UNCHANGED <<caller, owner, shownIn, ran, held, cvars, askPends, channel, tpc, posted>>

(* waitForAskAnswer *)
Register(a) ==
    /\ AskGoto(a, "register", "wait")
    /\ askPends' = askPends \cup {a}
    /\ UNCHANGED <<caller, owner, shownIn, bubble, under, ran, held, cvars, channel, tpc,
                   posted>>

(* The bubble is found by its id, if it is still there; the answer says whether
   it was approved. *)
Mark(a) ==
    bubble' = [bubble EXCEPT ![a] =
                  IF @ \in {"none", "cut"} \/ shownIn[a] \notin Range(order) THEN @
                  ELSE IF channel[a][1] THEN "approved" ELSE "answered"]

ReceiveAnswer(a) ==
    /\ channel[a] # <<>>
    /\ AskGoto(a, "wait", IF a \in Execs /\ channel[a][1] THEN "run" ELSE "reply")
    /\ Mark(a)
    /\ channel' = [channel EXCEPT ![a] = <<>>]
    /\ UNCHANGED <<caller, owner, shownIn, under, ran, held, cvars, askPends, tpc, posted>>

(* cmd.Run.  The command itself ends, at its timeout if not before; a process it
   has left in the background holds the pipe of its output, which Run reads to
   the end (the writers are no files, and there is no WaitDelay). *)
RunCommand(a) ==
    /\ AskGoto(a, "run", "running")
    /\ ran' = ran \cup {a}
    /\ held' \in {held, held \cup {a}}
    /\ UNCHANGED <<caller, owner, shownIn, bubble, under, cvars, askPends, channel, tpc,
                   posted>>

(* The files for the output cannot be made: nothing is run. *)
RunFails(a) ==
    /\ AskGoto(a, "run", "reply")
    /\ UNCHANGED <<caller, owner, shownIn, bubble, under, ran, held, cvars, askPends,
                   channel, tpc, posted>>

CommandEnds(a) ==
    /\ a \notin held
    /\ AskGoto(a, "running", "reply")
    /\ UNCHANGED <<caller, owner, shownIn, bubble, under, ran, held, cvars, askPends,
                   channel, tpc, posted>>

(* The process in the background ends, if it ever does. *)
HolderEnds(a) ==
    /\ a \in held
    /\ held' = held \ {a}
    /\ UNCHANGED <<apc, caller, owner, shownIn, bubble, under, ran, cvars, askPends,
                   channel, tpc, posted>>

ReplyToCaller(a) ==
    /\ AskGoto(a, "reply", "done")
    /\ Reply(a)
    /\ UNCHANGED <<owner, shownIn, bubble, under, ran, held, cvars, askPends, channel, tpc,
                   posted>>

AskStep(a) ==
    \/ Route(a) \/ Show(a) \/ Register(a) \/ ReceiveAnswer(a) \/ RunCommand(a)
    \/ RunFails(a) \/ CommandEnds(a) \/ ReplyToCaller(a)

-----------------------------------------------------------------------------
(* handleAskAnswer *)

(* A tab shows a question from the time it is in the conversation, and may be
   the last to know that it has been answered. *)
Answers(t, a) ==
    /\ tpc[t] = "idle"
    /\ bubble[a] # "none"
    /\ \A i \in DOMAIN posted[t] : posted[t][i][1] # a
    /\ \E approved \in IF a \in Execs THEN BOOLEAN ELSE {FALSE} :
          posted' = [posted EXCEPT ![t] = Append(@, <<a, approved>>)]

(* Bug: the entry stays in s.askPends. *)
TakeWithoutDelete(t, a) ==
    /\ Answers(t, a)
    /\ tpc' = IF a \in askPends THEN [tpc EXCEPT ![t] = "send"] ELSE tpc
    /\ UNCHANGED <<avars, cvars, channel, askPends>>

(* The entry is deleted by the first answer; any other answer finds none and is
   dropped, with 204 all the same. *)
TakePending(t, a) ==
    /\ Answers(t, a)
    /\ tpc' = IF a \in askPends THEN [tpc EXCEPT ![t] = "send"] ELSE tpc
    /\ askPends' = askPends \ {a}
    /\ UNCHANGED <<avars, cvars, channel>>

(* Bug: the answer is sent without waiting for room, and dropped if there is
   none: with an unbuffered channel, whenever nobody is receiving yet. *)
SendMayDrop(t) ==
    /\ tpc[t] = "send"
    /\ tpc' = [tpc EXCEPT ![t] = "idle"]
    /\ UNCHANGED <<avars, cvars, channel, askPends, posted>>

SendAnswer(t) ==
    LET ask == Last(posted[t])[1]
        approved == Last(posted[t])[2]
    IN  /\ tpc[t] = "send"
        /\ channel[ask] = <<>>
        /\ channel' = [channel EXCEPT ![ask] = <<approved>>]
        /\ tpc' = [tpc EXCEPT ![t] = "idle"]
        /\ UNCHANGED <<avars, cvars, askPends, posted>>

Next ==
    \/ \E c \in Convs : StartTurn(c) \/ EndTurn(c) \/ CancelTurn(c) \/ DeleteConv(c)
                         \/ UndoConv(c)
    \/ \E a \in Asks : Ask(a) \/ AskStep(a) \/ HolderEnds(a)
    \/ \E t \in Tabs : SendAnswer(t) \/ \E a \in Asks : TakePending(t, a)

Spec == Init /\ [][Next]_vars

(* The server's goroutines run, and a command ends at its timeout.  Users owe no
   answer, and a process left in the background need never end. *)
FairSpec ==
    /\ Spec
    /\ \A a \in Asks : WF_vars(AskStep(a))
    /\ \A t \in Tabs : WF_vars(SendAnswer(t))
-----------------------------------------------------------------------------
(* Every variable holds what the code's types and this module's bounds allow. *)
TypeOK ==
    /\ order \in Seq(Convs) /\ turns \in Seq(Convs)
    /\ initialized \subseteq Convs
    /\ started \in 0 .. MaxTurns
    /\ said \in [Convs -> 0 .. MaxTurns]
    /\ apc \in [Asks -> {"idle", "route", "show", "register", "wait", "run",
                       "running", "reply", "done"}]
    /\ caller \in [Asks -> {"none", "waiting", "gone", "replied"}]
    /\ owner \in [Asks -> Convs \cup {NoConv}]
    /\ shownIn \in [Asks -> Convs \cup {NoConv}]
    /\ bubble \in [Asks -> {"none", "open", "approved", "answered", "cut"}]
    /\ under \in [Asks -> 0 .. MaxTurns]
    /\ held \subseteq ran
    /\ askPends \subseteq Asks
    /\ channel \in [Asks -> Seq(BOOLEAN)]
    /\ ran \subseteq Execs
    /\ tpc \in [Tabs -> {"idle", "send"}]
    /\ posted \in [Tabs -> Seq(Asks \X BOOLEAN)]

Sending(a) == {t \in Tabs : tpc[t] = "send" /\ Last(posted[t])[1] = a}

(* A handler that waits for an answer can still get one: its entry is there to
   be found, or an answer is on its way to its channel. *)
WaiterReachable ==
    \A a \in Asks : apc[a] = "wait" =>
        a \in askPends \/ Sending(a) # {} \/ channel[a] # <<>>

(* However many tabs answer one question, none of their requests hangs: an
   answer that is being sent always finds its channel empty. *)
AnswersNeverBlock ==
    \A a \in Asks :
        /\ Cardinality(Sending(a)) <= 1
        /\ Sending(a) # {} => channel[a] = <<>> /\ apc[a] = "wait"

(* A command that has been run is on record as approved in the conversation that
   showed it, whatever else was answered at the same time; an undo may have
   removed the record since, but not while the turn that asked still waits there
   for the command. *)
ApprovalOnRecord ==
    \A a \in ran : shownIn[a] \in Range(order) =>
        \/ bubble[a] = "approved"
        \/ bubble[a] = "cut" /\ ~(caller[a] = "waiting" /\ owner[a] = shownIn[a])

(* With one conversation at work a question appears where it was asked. *)
AskedWhereShown ==
    \A a \in Asks : shownIn[a] # NoConv => shownIn[a] = owner[a]

(* The comment on the choice of a conversation, "prefer a running conversation
   (most recently started)": a question of the turn that began last, at least,
   is shown where it was asked. *)
LatestTurnServed ==
    [][\A a \in Asks : Route(a) /\ turns # <<>> /\ owner[a] = Last(turns)
          => shownIn'[a] = owner[a]]_vars

(* An answer that was accepted reaches the tool that asked, unless the command it
   approved has left a process that holds the output for ever. *)
AcceptedAnswerArrives ==
    \A a \in Asks :
        \/ Sending(a) # {} ~> caller[a] \in {"replied", "gone"}
        \/ <>[](a \in held)

(* The answer to a question that is shown ends the wait for it. *)
AnswerNotDropped ==
    \A a \in Asks :
        apc[a] = "wait" /\ a \in askPends =>
            \A t \in Tabs : \A i \in DOMAIN posted[t] : posted[t][i][1] # a

(* Nothing is run for a turn that has been cancelled. *)
CancelledRunsNothing ==
    [][\A a \in Asks : RunCommand(a) => caller[a] # "gone"]_vars
=============================================================================
