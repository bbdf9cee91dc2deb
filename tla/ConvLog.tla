------------------------------ MODULE ConvLog -------------------------------
(***************************************************************************)
(* How a conversation is kept in memory and in its JSONL file              *)
(* (server_sse.go, server_acp.go, server_conversations.go).                *)
(*                                                                         *)
(* Every update has two halves: a critical section of s.mu that changes    *)
(* the Conversation, and, after the lock is released, the line for it in   *)
(* the file.  appendJSONL writes a line with two calls of Write, the       *)
(* record and the newline; undo and trim write the whole file again.  A    *)
(* restart replaces the memory by what loadConversations reads.            *)
(*                                                                         *)
(* Text is abstract: a chunk is <<w, n>>, the n-th piece of text writer w  *)
(* has brought.  "extra" is what is attached to a bubble after its text:   *)
(* the token count of an llm bubble, the arguments of a tool_request, the  *)
(* answer to an ask.                                                       *)
(***************************************************************************)
EXTENDS Naturals, FiniteSets, SequencesExt

CONSTANTS
    Writers,     \* goroutines that may update the conversation at once
    MaxChunks,   \* bound: chunks per writer
    MaxTitles,   \* bound: renames
    MaxLines,    \* bound: length of the file beyond which nothing is logged
    Types,       \* bubble types in use
    Ops          \* operations and events in use, a subset of AllOps

AllTypes == {"user", "llm", "thinking", "tool_request", "tool_response", "ask"}
AllOps   == {"rename", "undo", "trim", "delete", "rawInput", "tokenStats",
             "answer", "cancel", "crash", "crashMidAppend", "crashMidRewrite"}

ASSUME ConvLogAssumption ==
    /\ MaxChunks \in Nat
    /\ MaxTitles \in Nat
    /\ MaxLines \in Nat
    /\ Types \subseteq AllTypes
    /\ Ops \subseteq AllOps

VARIABLES
    exists,    \* convID is a key of s.convs
    mem,       \* conv.Messages
    title,     \* conv.Title, as the number of the rename; conv.LLM is alike
    pending,   \* conv.PendingTokenCount > 0
    running,   \* conv.Running
    onDisk,    \* the file exists
    file,      \* its contents: records and newlines, a unit of length each
    pc,        \* per writer: where its goroutine is
    rec,       \* per writer: the record it is about to append
    rest,      \* per writer: the lines rewriteJSONL has yet to write
    offset,    \* per writer: the file offset of rewriteJSONL
    chunks     \* per writer: chunks brought so far

memory == <<exists, mem, title, pending, running>>
disk   == <<onDisk, file>>
control == <<pc, rec, rest, offset>>
vars   == <<memory, disk, control, chunks>>

Chunk == Writers \X (1 .. MaxChunks)

(* A token of the file: a line's record, or what stands between records. *)
Token(kind, type, text, extra) ==
    [kind |-> kind, type |-> type, text |-> text, extra |-> extra, title |-> 0]
NewLine    == Token("newline", "none", <<>>, FALSE)
Hole       == Token("hole", "none", <<>>, FALSE)
Created(n) == [Token("created", "none", <<>>, FALSE) EXCEPT !.title = n]
Stats      == Token("stats", "none", <<>>, FALSE)
Response   == Token("response", "none", <<>>, FALSE)

Bubble(type, text, extra) == [type |-> type, text |-> text, extra |-> extra]
BubbleLine(b) == Token("bubble", b.type, b.text, b.extra)

Streamed == {"llm", "thinking"}        \* the types whose chunks are merged
ToolTypes == {"tool_request", "tool_response"}

-----------------------------------------------------------------------------
(* loadConversations *)

(* The lines that parse: those that hold one record and nothing else.  The
   last line need not be terminated. *)
Parsed(f) ==
    LET Separator(i) == i \in {0, Len(f) + 1} \/ f[i].kind = "newline"
        Alone(i) == /\ f[i].kind \notin {"newline", "hole"}
                    /\ Separator(i - 1) /\ Separator(i + 1)
    IN  [k \in 1 .. Cardinality({i \in 1 .. Len(f) : Alone(i)}) |->
            f[CHOOSE i \in 1 .. Len(f) :
                 Alone(i) /\ Cardinality({j \in 1 .. i : Alone(j)}) = k]]

(* The arguments of a call go to the latest tool_request with its id, which is
   the request's first chunk. *)
AttachTo(messages, id) ==
    [i \in DOMAIN messages |->
        IF messages[i].type = "tool_request" /\ messages[i].text[1] = id
        THEN [messages[i] EXCEPT !.extra = TRUE] ELSE messages[i]]

(* Bug: streamed text that was merged in memory is not merged on reload. *)
LoadLineUnmerged(c, r) ==
    CASE r.kind = "created" -> [c EXCEPT !.title = r.title]
      [] r.kind = "bubble" -> [c EXCEPT !.messages = Append(@, Bubble(r.type, r.text, r.extra))]
      [] OTHER -> c

LoadLine(c, r) ==
    CASE r.kind = "created" -> [c EXCEPT !.title = r.title]
      [] r.kind = "stats" -> [c EXCEPT !.pending = TRUE]
      [] r.kind = "bubble" ->
            LET counted == r.type = "llm" /\ c.pending
            IN  [c EXCEPT !.pending = @ /\ ~counted,
                          !.messages = Append(@, Bubble(r.type, r.text, r.extra \/ counted))]
      [] r.kind = "merge" ->
            IF c.messages # <<>> /\ Last(c.messages).type = r.type
            THEN [c EXCEPT !.messages[Len(c.messages)].text = @ \o r.text] ELSE c
      [] r.kind = "rawInput" -> [c EXCEPT !.messages = AttachTo(@, r.text[1])]
      [] OTHER -> c

(* Line after line, from a conversation without messages. *)
LoadLines(lines) ==
    LET upTo[n \in 0 .. Len(lines)] ==
            IF n = 0 THEN [messages |-> <<>>, title |-> 0, pending |-> FALSE]
            ELSE LoadLine(upTo[n - 1], lines[n])
    IN  upTo[Len(lines)]

Load(f) == LoadLines(Parsed(f))

-----------------------------------------------------------------------------
Init ==
    /\ exists = TRUE
    /\ mem = <<>>
    /\ title = 0
    /\ pending = FALSE
    /\ running = FALSE
    /\ onDisk = TRUE
    /\ file = <<Created(0), NewLine>>
    /\ pc = [w \in Writers |-> "idle"]
    /\ rec = [w \in Writers |-> NewLine]
    /\ rest = [w \in Writers |-> <<>>]
    /\ offset = [w \in Writers |-> 0]
    /\ chunks = [w \in Writers |-> 0]

Goto(w, from, to) ==
    /\ pc[w] = from
    /\ pc' = [pc EXCEPT ![w] = to]

Log(w, r) ==
    /\ Goto(w, "idle", "data")
    /\ Len(file) < 2 * MaxLines
    /\ rec' = [rec EXCEPT ![w] = r]
    /\ UNCHANGED <<rest, offset>>

BringChunk(w) ==
    /\ chunks[w] < MaxChunks
    /\ chunks' = [chunks EXCEPT ![w] = @ + 1]

(* addBubble: a chunk of streamed text joins the last bubble if that has its
   type; a new llm bubble takes the pending token count. *)
AddBubble(w, type) ==
    LET chunk == <<w, chunks[w] + 1>>
        merges == type \in Streamed /\ mem # <<>> /\ Last(mem).type = type
        counted == type = "llm" /\ pending
        bubble == Bubble(type, <<chunk>>, counted)
    IN  /\ exists
        /\ BringChunk(w)
        /\ \/ /\ merges
              /\ mem' = [mem EXCEPT ![Len(mem)].text = Append(@, chunk)]
              /\ Log(w, Token("merge", type, <<chunk>>, FALSE))
              /\ UNCHANGED pending
           \/ /\ ~merges
              /\ mem' = Append(mem, bubble)
              /\ Log(w, BubbleLine(bubble))
              /\ pending' = (pending /\ ~counted)
        /\ UNCHANGED <<exists, title, running, disk>>

(* What the agent sends while a turn runs, or still sends after a cancel. *)
AgentBubble(w) ==
    /\ running \/ "cancel" \in Ops
    /\ \E type \in Types \ {"user"} : AddBubble(w, type)

(* handleConvPrompt; Running is set once the line is written. *)
UserMessage(w) ==
    /\ "user" \in Types
    /\ ~running
    /\ AddBubble(w, "user")

(* updateToolRequestRawInput *)
RawInput(w) ==
    /\ "rawInput" \in Ops /\ exists
    /\ \E i \in DOMAIN mem :
          /\ mem[i].type = "tool_request"
          /\ mem' = AttachTo(mem, mem[i].text[1])
          /\ Log(w, Token("rawInput", "none", <<mem[i].text[1]>>, FALSE))
    /\ UNCHANGED <<exists, title, pending, running, disk, chunks>>

(* handleSideChannel, token_stats *)
TokenStats(w) ==
    /\ "tokenStats" \in Ops
    /\ exists /\ running
    /\ pending' = TRUE
    /\ Log(w, Stats)
    /\ UNCHANGED <<exists, mem, title, running, disk, chunks>>

(* handleSideChannel, after waitForAskAnswer: the answer is not logged. *)
AnswerAsk(w) ==
    /\ "answer" \in Ops /\ exists
    /\ pc[w] = "idle"
    /\ \E i \in DOMAIN mem :
          /\ mem[i].type = "ask" /\ ~mem[i].extra
          /\ mem' = [mem EXCEPT ![i].extra = TRUE]
    /\ UNCHANGED <<exists, title, pending, running, disk, control, chunks>>

(* The end of runACPPrompt: prompt_response is logged whether or not the
   conversation still exists ... *)
PromptResponse(w) ==
    /\ running
    /\ \A v \in Writers : pc[v] # "finish" /\ rec[v] # Response
    /\ Log(w, Response)
    /\ UNCHANGED <<memory, disk, chunks>>

(* ... then a pending count goes to the last llm bubble, in memory only. *)
FinishTurn(w) ==
    /\ Goto(w, "finish", "idle")
    /\ running' = FALSE
    /\ pending' = IF exists THEN FALSE ELSE pending
    /\ mem' = IF exists /\ pending /\ \E i \in DOMAIN mem : mem[i].type = "llm"
              THEN [mem EXCEPT ![SelectLastInSeq(mem, LAMBDA b : b.type = "llm")].extra = TRUE]
              ELSE mem
    /\ UNCHANGED <<exists, title, disk, rec, rest, offset, chunks>>

Cancel ==
    /\ "cancel" \in Ops
    /\ running' = FALSE
    /\ UNCHANGED <<exists, mem, title, pending, disk, control, chunks>>

(* handleConvRename: appendJSONL marshals the conversation after the lock has
   been released. *)
Rename(w) ==
    /\ "rename" \in Ops /\ exists
    /\ title < MaxTitles /\ Len(file) < 2 * MaxLines
    /\ title' = title + 1
    /\ Goto(w, "idle", "marshal")
    /\ UNCHANGED <<exists, mem, pending, running, disk, rec, rest, offset, chunks>>

Marshal(w) ==
    /\ Goto(w, "marshal", "data")
    /\ rec' = [rec EXCEPT ![w] = Created(title)]
    /\ UNCHANGED <<memory, disk, rest, offset, chunks>>

(* What a goroutine does once its line is written. *)
AfterLine(r) ==
    CASE r.kind = "response" -> "finish"
      [] r.type = "user"     -> "arm"
      [] OTHER               -> "idle"

(* Bug: the record is written again after a short write. *)
WriteDataTwice(w) ==
    /\ Goto(w, "data", "newline")
    /\ onDisk' = TRUE
    /\ file' = file \o <<rec[w], NewLine, rec[w]>>
    /\ UNCHANGED <<memory, rec, rest, offset, chunks>>

(* appendJSONL opens the file with O_CREATE and O_APPEND. *)
WriteData(w) ==
    /\ Goto(w, "data", "newline")
    /\ onDisk' = TRUE
    /\ file' = Append(file, rec[w])
    /\ UNCHANGED <<memory, rec, rest, offset, chunks>>

WriteNewline(w) ==
    /\ Goto(w, "newline", AfterLine(rec[w]))
    /\ rec' = [rec EXCEPT ![w] = NewLine]
    /\ file' = Append(file, NewLine)
    /\ UNCHANGED <<memory, onDisk, rest, offset, chunks>>

(* setConvRunning(true) and the start of the turn *)
ArmRunning(w) ==
    /\ Goto(w, "arm", "idle")
    /\ running' = TRUE
    /\ UNCHANGED <<exists, mem, title, pending, disk, rec, rest, offset, chunks>>

(* Bug: undo changes the memory only. *)
UndoMemoryOnly(w) ==
    /\ "undo" \in Ops /\ exists
    /\ ~running
    /\ mem # <<>>
    /\ mem' = Front(mem)
    /\ pc[w] = "idle"
    /\ UNCHANGED <<exists, title, pending, running, disk, control, chunks>>

(* handleConvUndo *)
Undo(w) ==
    /\ "undo" \in Ops /\ exists
    /\ ~running
    /\ \E i \in DOMAIN mem :
          /\ mem[i].type = "user"
          /\ \A j \in i + 1 .. Len(mem) : mem[j].type # "user"
          /\ mem' = SubSeq(mem, 1, i - 1)
    /\ Goto(w, "idle", "truncate")
    /\ UNCHANGED <<exists, title, pending, running, disk, rec, rest, offset, chunks>>

(* handleConvTrim: the messages that are filtered. *)
WithoutTools(messages) ==
    LET upTo[n \in 0 .. Len(messages)] ==
            IF n = 0 THEN <<>>
            ELSE IF messages[n].type \in ToolTypes THEN upTo[n - 1]
            ELSE Append(upTo[n - 1], messages[n])
    IN  upTo[Len(messages)]

Trim(w) ==
    /\ "trim" \in Ops /\ exists
    /\ ~running
    /\ \E i \in DOMAIN mem : mem[i].type \in ToolTypes
    /\ mem' = WithoutTools(mem)
    /\ Goto(w, "idle", "truncate")
    /\ UNCHANGED <<exists, title, pending, running, disk, rec, rest, offset, chunks>>

(* rewriteJSONL: os.Create, and what the loop will write. *)
Truncate(w) ==
    /\ Goto(w, "truncate", "rewrite")
    /\ onDisk' = TRUE
    /\ file' = <<>>
    /\ rest' = [rest EXCEPT ![w] =
                   <<Created(title)>> \o [i \in DOMAIN mem |-> BubbleLine(mem[i])]]
    /\ offset' = [offset EXCEPT ![w] = 0]
    /\ UNCHANGED <<memory, rec, chunks>>

(* A write at a file offset: it overwrites what is there, and leaves a hole if
   the file has become shorter. *)
WriteAt(f, o, tokens) ==
    [i \in 1 .. Max({Len(f), o + Len(tokens)}) |->
        IF i \in o + 1 .. o + Len(tokens) THEN tokens[i - o]
        ELSE IF i <= Len(f) THEN f[i] ELSE Hole]

(* The encoder writes a record and its newline with one call of Write. *)
RewriteLine(w) ==
    /\ Goto(w, "rewrite", IF Len(rest[w]) = 1 THEN "idle" ELSE "rewrite")
    /\ file' = WriteAt(file, offset[w], <<Head(rest[w]), NewLine>>)
    /\ offset' = [offset EXCEPT ![w] = @ + 2]
    /\ rest' = [rest EXCEPT ![w] = Tail(@)]
    /\ UNCHANGED <<memory, onDisk, rec, chunks>>

(* DELETE /api/conversations/<id> *)
Delete(w) ==
    /\ "delete" \in Ops /\ exists
    /\ exists' = FALSE
    /\ Goto(w, "idle", "remove")
    /\ UNCHANGED <<mem, title, pending, running, disk, rec, rest, offset, chunks>>

(* os.Remove: who has the file open goes on writing to a file without name. *)
RemoveFile(w) ==
    /\ pc[w] = "remove"
    /\ onDisk' = FALSE
    /\ file' = <<>>
    /\ pc' = [v \in Writers |->
                 IF v = w \/ pc[v] = "rewrite" THEN "idle"
                 ELSE IF pc[v] = "newline" THEN AfterLine(rec[v]) ELSE pc[v]]
    /\ rec' = [v \in Writers |-> IF pc[v] = "newline" THEN NewLine ELSE rec[v]]
    /\ UNCHANGED <<memory, rest, offset, chunks>>

(* The server process ends, and is started again. *)
Crash ==
    /\ \/ "crash" \in Ops /\ \A w \in Writers : pc[w] \notin {"newline", "rewrite"}
       \/ "crashMidAppend" \in Ops /\ \E w \in Writers : pc[w] = "newline"
       \/ "crashMidRewrite" \in Ops /\ \E w \in Writers : pc[w] = "rewrite"
    /\ exists' = onDisk
    /\ mem' = Load(file).messages
    /\ title' = Load(file).title
    /\ pending' = FALSE
    /\ running' = FALSE
    /\ pc' = [w \in Writers |-> "idle"]
    /\ rec' = [w \in Writers |-> NewLine]
    /\ rest' = [w \in Writers |-> <<>>]
    /\ offset' = [w \in Writers |-> 0]
    /\ UNCHANGED <<disk, chunks>>

WriterStep(w) ==
    \/ Marshal(w) \/ WriteData(w) \/ WriteNewline(w) \/ ArmRunning(w)
    \/ FinishTurn(w) \/ Truncate(w) \/ RewriteLine(w) \/ RemoveFile(w)

Next ==
    \/ \E w \in Writers :
          \/ AgentBubble(w) \/ UserMessage(w) \/ RawInput(w) \/ TokenStats(w)
          \/ AnswerAsk(w) \/ PromptResponse(w) \/ Rename(w) \/ Undo(w)
          \/ Trim(w) \/ Delete(w) \/ WriterStep(w)
    \/ Cancel \/ Crash

Spec == Init /\ [][Next]_vars

-----------------------------------------------------------------------------
Tokens == [kind : {"newline", "hole", "created", "stats", "response", "bubble",
                   "merge", "rawInput"},
           type : Types \cup {"none"},
           text : Seq(Chunk), extra : BOOLEAN, title : 0 .. MaxTitles]
Bubbles == [type : Types, text : Seq(Chunk), extra : BOOLEAN]

(* Every variable holds what the code's types and this module's bounds allow. *)
TypeOK ==
    /\ exists \in BOOLEAN /\ pending \in BOOLEAN /\ running \in BOOLEAN
    /\ onDisk \in BOOLEAN
    /\ mem \in Seq(Bubbles)
    /\ title \in 0 .. MaxTitles
    /\ file \in Seq(Tokens)
    /\ pc \in [Writers -> {"idle", "data", "newline", "arm", "finish", "marshal",
                           "truncate", "rewrite", "remove"}]
    /\ rec \in [Writers -> Tokens]
    /\ rest \in [Writers -> Seq(Tokens)]
    /\ offset \in [Writers -> Nat]
    /\ chunks \in [Writers -> 0 .. MaxChunks]

Quiet == \A w \in Writers : pc[w] = "idle"

Text(messages) == FlattenSeq([i \in DOMAIN messages |-> messages[i].text])

(* A token count or an answer may be in memory only; arguments may not. *)
SameBubble(a, b) ==
    /\ a.type = b.type /\ a.text = b.text
    /\ a.type = "tool_request" => a.extra = b.extra

(* A restart brings back the conversation: when nothing is being written, the
   file reads as what is in memory, bubble by bubble, with the last title. *)
ReloadMatches ==
    exists /\ Quiet =>
        /\ Len(Load(file).messages) = Len(mem)
        /\ \A i \in DOMAIN mem : SameBubble(mem[i], Load(file).messages[i])
        /\ Load(file).title = title

(* However the writers' lines mix, none of what one goroutine wrote is read
   back twice or in another order. *)
WritersInOrder ==
    LET text == Text(Load(file).messages)
    IN  \A i, j \in DOMAIN text :
           i < j /\ text[i][1] = text[j][1] => text[i][2] < text[j][2]

(* All text that is shown is read back after a restart. *)
ReloadKeepsText ==
    exists /\ Quiet => Range(Text(mem)) \subseteq Range(Text(Load(file).messages))

(* A crash costs at most the update that has not reached the file, unless the
   file is being rewritten. *)
CrashKeepsRest ==
    [][Crash /\ exists /\ (\A w \in Writers : pc[w] # "rewrite") => \A c \in Range(Text(mem)) :
          \/ c \in Range(Text(mem'))
          \/ \E w \in Writers : pc[w] = "data" /\ c \in Range(rec[w].text)]_vars

(* A deleted conversation leaves no file that a restart would bring back. *)
DeletedStaysDeleted == ~exists /\ Quiet => ~onDisk

(* A question that has been answered is not asked again after a restart. *)
AnswersSurvive ==
    exists /\ Quiet =>
        \A i \in DOMAIN mem : mem[i].type = "ask" /\ mem[i].extra =>
            \E j \in DOMAIN Load(file).messages :
                Load(file).messages[j].text = mem[i].text /\ Load(file).messages[j].extra

(* The last title given is the one that is read back. *)
TitleSurvives == exists /\ Quiet => Load(file).title = title

(* Trim removes the end of the conversation. *)
TrimCutsTail == [][\A w \in Writers : Trim(w) => IsPrefix(mem', mem)]_vars

(* The arguments lines play no part in loading. *)
RawInputIgnored ==
    Load(file).messages = Load(SelectSeq(file, LAMBDA t : t.kind # "rawInput")).messages
=============================================================================
