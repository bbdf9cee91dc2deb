----------------------------- MODULE IndexerPipe ------------------------------
(***************************************************************************)
(* The pipe between the tools and the indexer process (internal/tools/     *)
(* indexer.go, cmd_indexer.go).  IndexerSend writes a command and reads    *)
(* one line, with the mutex held; the indexer answers every line that is   *)
(* not blank with a line.  A prompt with line breaks is several lines, so  *)
(* that it is answered several times: what is left over is the answer of   *)
(* the next command.                                                       *)
(***************************************************************************)
EXTENDS Naturals, SequencesExt

CONSTANTS
    Queries,    \* relevant_code and search_symbol_in_code calls
    MaxLines    \* bound: lines of a prompt

VARIABLES
    indexer,    \* "up", "hung" (in a request to a llama server), "down"
    input,      \* lines on the way to the indexer
    replies,    \* lines on the way back
    sendMu,     \* the call that holds IdxProc.mu, or NoQuery
    qpc,        \* per call: "idle", "health", "asks", "retrieve", "waits",
                \* "done"
    result,     \* per call: the call whose results it has returned, or NoQuery
    manyLined   \* history: a prompt was more than one command

pipeVars == <<indexer, input, replies, sendMu, qpc, result, manyLined>>

NoQuery == "nobody"

ASSUME PipeAssumption == NoQuery \notin Queries /\ MaxLines \in Nat \ {0}

(* What a prompt is to the indexer: the rest of a "retrieve" line, with or
   without text, and further lines.  Blank ones it skips; any other text is
   answered with an error, and so may a command be: no kind of its own. *)
Prompts == [first : {"retrieve", "missing"},
            more : BoundedSeq({"health", "retrieve"}, MaxLines - 1)]

PipeInit ==
    /\ indexer = "up"
    /\ input = <<>>
    /\ replies = <<>>
    /\ sendMu = NoQuery
    /\ qpc = [q \in Queries |-> "idle"]
    /\ result = [q \in Queries |-> NoQuery]
    /\ manyLined = FALSE

Line(kind, of) == [kind |-> kind, of |-> of]
Idle  == Line("idle", NoQuery)
Other == Line("other", NoQuery)       \* another state, or an error
Results(q) == Line("results", q)
PipeGoto(q, from, to) == qpc[q] = from /\ qpc' = [qpc EXCEPT ![q] = to]

-----------------------------------------------------------------------------
(* The handlers. *)

QueryArrives(q) ==
    /\ PipeGoto(q, "idle", "health")
    /\ UNCHANGED <<indexer, input, replies, sendMu, result, manyLined>>

(* Bug: the mutex is left out. *)
SendUnlocked(q, from, to, lines) ==
    /\ PipeGoto(q, from, to)
    /\ sendMu' = q
    /\ input' = IF indexer = "down" THEN input ELSE input \o lines

(* IndexerSend: Lock, Fprintln.  The first line of a prompt follows the word
   "retrieve", and is never blank. *)
Send(q, from, to, lines) ==
    /\ sendMu = NoQuery
    /\ PipeGoto(q, from, to)
    /\ sendMu' = q
    /\ input' = IF indexer = "down" THEN input ELSE input \o lines

SendHealth(q) ==
    /\ Send(q, "health", "asks", <<Line("health", q)>>)
    /\ UNCHANGED <<indexer, replies, result, manyLined>>

Commands(q, prompt) ==
    <<Line(prompt.first, q)>>
    \o [i \in DOMAIN prompt.more |-> Line(prompt.more[i], q)]

SendRetrieve(q) ==
    /\ \E p \in Prompts :
          /\ Send(q, "retrieve", "waits", Commands(q, p))
          /\ manyLined' = (manyLined \/ p.more # <<>>)
    /\ UNCHANGED <<indexer, replies, result>>

(* IndexerSend: Scan, Unlock.  An answer that is not the state, or no list of
   results, is an empty result, and so is the end of the pipe. *)
HealthReply(q) ==
    /\ sendMu = q /\ sendMu' = NoQuery
    /\ \/ /\ replies # <<>>
          /\ PipeGoto(q, "asks", IF Head(replies).kind = "idle" THEN "retrieve"
                                 ELSE "done")
          /\ replies' = Tail(replies)
       \/ /\ replies = <<>> /\ indexer = "down"
          /\ PipeGoto(q, "asks", "done")
          /\ UNCHANGED replies
    /\ UNCHANGED <<indexer, input, result, manyLined>>

RetrieveReply(q) ==
    /\ sendMu = q /\ sendMu' = NoQuery
    /\ PipeGoto(q, "waits", "done")
    /\ \/ /\ replies # <<>>
          /\ result' = [result EXCEPT ![q] =
                IF Head(replies).kind = "results" THEN Head(replies).of ELSE @]
          /\ replies' = Tail(replies)
       \/ /\ replies = <<>> /\ indexer = "down"
          /\ UNCHANGED <<result, replies>>
    /\ UNCHANGED <<indexer, input, manyLined>>

-----------------------------------------------------------------------------
(* The loop of the indexer's main goroutine: a line in, a line out.  Health is
   another state than idle, and a query an error, whenever the watcher is at
   work.  A line within a prompt that is itself a query has results as well:
   they count as those of the call that it came with. *)

Answer(line) ==
    {Other} \cup CASE line.kind = "health"   -> {Idle}
                   [] line.kind = "retrieve" -> {Results(line.of)}
                   [] OTHER                  -> {}

(* Bug: a query without text is not answered. *)
IndexerServesText ==
    /\ indexer = "up"
    /\ input # <<>>
    /\ input' = Tail(input)
    /\ \E a \in Answer(Head(input)) :
          replies' = IF Head(input).kind = "missing" THEN replies
                     ELSE Append(replies, a)
    /\ UNCHANGED <<indexer, sendMu, qpc, result, manyLined>>

IndexerServes ==
    /\ indexer = "up"
    /\ input # <<>>
    /\ input' = Tail(input)
    /\ \E a \in Answer(Head(input)) : replies' = Append(replies, a)
    /\ UNCHANGED <<indexer, sendMu, qpc, result, manyLined>>

(* The embedder does not answer, and the request has no time limit. *)
EmbedderHangs ==
    /\ indexer = "up"
    /\ input # <<>> /\ Head(input).kind = "retrieve"
    /\ indexer' = "hung"
    /\ UNCHANGED <<input, replies, sendMu, qpc, result, manyLined>>

(* The indexer ends: a signal, a crash, a line of more than a megabyte.  It is
   not started again. *)
IndexerEnds ==
    /\ indexer # "down"
    /\ indexer' = "down"
    /\ input' = <<>>
    /\ UNCHANGED <<replies, sendMu, qpc, result, manyLined>>

QueryStep(q) ==
    \/ SendHealth(q) \/ HealthReply(q) \/ SendRetrieve(q) \/ RetrieveReply(q)

PipeNext ==
    \/ \E q \in Queries : QueryArrives(q) \/ QueryStep(q)
    \/ IndexerServes \/ EmbedderHangs \/ IndexerEnds

PipeSpec == PipeInit /\ [][PipeNext]_pipeVars

-----------------------------------------------------------------------------
(* A call returns the results of its own query, however many are asked at the
   same time, as long as every prompt so far has been a single command.
   (tools/indexer.go:143-160.) *)
OwnResults ==
    ~manyLined => \A q \in Queries : result[q] \in {NoQuery, q}

(* Every call is answered, unless the indexer hangs in a request that has no
   time limit: it then holds the mutex for ever, and so does every other call.
   (indexer.go:270, embed.go:206.) *)
QueryAnswered ==
    \A q \in Queries : (qpc[q] = "health") ~> (qpc[q] = "done" \/ indexer = "hung")
=============================================================================
