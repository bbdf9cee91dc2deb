---------------------------- MODULE ToolsLiveProofs ----------------------------
(* Theorems about the components that wait for other processes: IndexerPipe, for
   any number of calls and lines; CommandRun, for any finite set of commands and
   any number of restarts; LlamaServers, for any number of hosts and ports, and
   whatever servers are wanted. *)
EXTENDS IndexerPipe, CommandRun, LlamaServers, SequenceTheorems, FiniteSetTheorems,
        TLAPS

-----------------------------------------------------------------------------
(* The pipe to the indexer. *)

LineKinds == {"health", "retrieve", "missing", "idle", "other", "results"}
Lines == [kind : LineKinds, of : Queries \cup {NoQuery}]

PipeTypes ==
    /\ indexer \in {"up", "hung", "down"}
    /\ input \in Seq(Lines) /\ replies \in Seq(Lines)
    /\ sendMu \in Queries \cup {NoQuery}
    /\ qpc \in [Queries -> {"idle", "health", "asks", "retrieve", "waits", "done"}]
    /\ result \in [Queries -> Queries \cup {NoQuery}]
    /\ manyLined \in BOOLEAN

(* IdxProc.mu is held from the writing of a command to the reading of a line. *)
MutexHeld == \A q \in Queries : qpc[q] \in {"asks", "waits"} <=> sendMu = q

(* One command is on the way, or its answer, and it is of the call that holds the
   mutex; results are of it, too. *)
OneOnTheWay ==
    /\ Len(input) + Len(replies) <= (IF sendMu = NoQuery THEN 0 ELSE 1)
    /\ \A i \in 1 .. Len(input) : input[i].of = sendMu
    /\ \A i \in 1 .. Len(replies) : replies[i].of \in {sendMu, NoQuery}

PipeInv ==
    /\ PipeTypes /\ MutexHeld
    /\ indexer = "down" => input = <<>>
    /\ ~manyLined => OneOnTheWay
    /\ OwnResults

LEMMA PipeInitially == PipeInit => PipeInv
<1> SUFFICES ASSUME PipeInit PROVE PipeInv
  OBVIOUS
<1>1. <<>> \in Seq(Lines) /\ Len(<<>>) = 0
  BY EmptySeq
<1>2. PipeTypes /\ MutexHeld
  BY <1>1, PipeAssumption DEF PipeInit, PipeTypes, MutexHeld
<1> QED
  BY <1>1, <1>2 DEF PipeInit, PipeInv, OneOnTheWay, OwnResults

(* A prompt is one command, and one more for each further line that is not blank;
   all of them are of the call it came with. *)
LEMMA CommandsOfPrompt ==
    ASSUME NEW q \in Queries, NEW p \in Prompts
    PROVE  /\ Commands(q, p) \in Seq(Lines)
           /\ \A i \in 1 .. Len(Commands(q, p)) : Commands(q, p)[i].of = q
           /\ p.more = <<>> => Len(Commands(q, p)) = 1
<1> DEFINE first == <<Line(p.first, q)>>
           rest == [i \in DOMAIN p.more |-> Line(p.more[i], q)]
<1>1. p.first \in {"retrieve", "missing"}
  BY DEF Prompts
<1>2. PICK m \in Nat : p.more \in [1 .. m -> {"health", "retrieve"}]
  <2>1. p.more \in BoundedSeq({"health", "retrieve"}, MaxLines - 1)
    BY DEF Prompts
  <2> QED
    BY <2>1, PipeAssumption DEF BoundedSeq, SeqOf
<1>3. rest \in [1 .. m -> Lines] /\ \A i \in 1 .. m : rest[i].of = q
  BY <1>2 DEF Line, Lines, LineKinds
<1>4. rest \in Seq(Lines) /\ Len(rest) = m
  BY <1>3, SeqDef
<1>5. first \in Seq(Lines) /\ Len(first) = 1 /\ first[1].of = q
  BY <1>1 DEF Line, Lines, LineKinds
<1>6. Commands(q, p) = first \o rest
  BY DEF Commands
<1>7. p.more = <<>> => m = 0
  BY <1>2
<1> HIDE DEF first, rest
<1>8. /\ first \o rest \in Seq(Lines)
      /\ Len(first \o rest) = Len(first) + Len(rest)
      /\ \A i \in 1 .. Len(first) + Len(rest) :
            (first \o rest)[i] = IF i <= Len(first) THEN first[i] ELSE rest[i - Len(first)]
  BY <1>4, <1>5, ConcatProperties
<1>9. \A i \in 1 .. 1 + m : (first \o rest)[i].of = q
  BY <1>3, <1>4, <1>5, <1>8
<1> QED
  BY <1>4, <1>5, <1>6, <1>7, <1>8, <1>9

(* IndexerSend writes only when nothing is on the way. *)
LEMMA SendKeeps ==
    ASSUME PipeInv, NEW q \in Queries, NEW lines \in Seq(Lines),
           NEW from \in {"health", "retrieve"}, NEW to \in {"asks", "waits"},
           Send(q, from, to, lines), UNCHANGED <<indexer, replies, result>>,
           manyLined' \in BOOLEAN, manyLined => manyLined',
           ~manyLined' => Len(lines) = 1,
           \A i \in 1 .. Len(lines) : lines[i].of = q
    PROVE  PipeInv'
<1> USE DEF PipeInv
<1>1. input' \in Seq(Lines)
  BY ConcatProperties DEF Send, PipeTypes
<1>2. PipeTypes'
  BY <1>1 DEF Send, PipeGoto, PipeTypes
<1>3. MutexHeld'
  BY PipeAssumption DEF Send, PipeGoto, PipeTypes, MutexHeld
<1>4. ASSUME ~manyLined' PROVE OneOnTheWay'
  <2>1. Len(input) = 0 /\ Len(replies) = 0
    <3>1. Len(input) \in Nat /\ Len(replies) \in Nat
      BY LenProperties DEF PipeTypes
    <3> QED
      BY <1>4, <3>1 DEF OneOnTheWay, Send
  <2>2. sendMu' = q /\ q # NoQuery /\ Len(lines) = 1
    BY <1>4, PipeAssumption DEF Send
  <2>3. input' = input \/ input' = input \o lines
    BY DEF Send
  <2>4. Len(input') <= 1 /\ \A i \in 1 .. Len(input') : input'[i].of = q
    <3>1. CASE input' = input
      BY <2>1, <3>1
    <3>2. CASE input' = input \o lines
      <4>1. /\ Len(input \o lines) = Len(input) + Len(lines)
            /\ \A i \in 1 .. Len(input) + Len(lines) :
                  (input \o lines)[i] = IF i <= Len(input) THEN input[i]
                                        ELSE lines[i - Len(input)]
        BY ConcatProperties DEF PipeTypes
      <4> QED
        BY <2>1, <2>2, <3>2, <4>1
    <3> QED
      BY <2>3, <3>1, <3>2
  <2> QED
    BY <2>1, <2>2, <2>4 DEF OneOnTheWay
<1>5. indexer' = "down" => input' = <<>>
  BY DEF Send
<1>6. OwnResults'
  BY DEF OwnResults
<1> QED
  BY <1>2, <1>3, <1>4, <1>5, <1>6

(* IndexerSend: what it reads is the only thing on the way, so nothing is left. *)
LEMMA ReplyEmptiesPipe ==
    ASSUME PipeInv, ~manyLined, NEW q \in Queries, sendMu = q,
           \/ replies # <<>> /\ replies' = Tail(replies)
           \/ replies = <<>> /\ indexer = "down" /\ replies' = replies,
           UNCHANGED input
    PROVE  /\ Len(input') = 0 /\ Len(replies') = 0
           /\ replies # <<>> => Head(replies).of \in {q, NoQuery}
<1>1. /\ Len(input) + Len(replies) <= 1
      /\ \A i \in 1 .. Len(replies) : replies[i].of \in {q, NoQuery}
      /\ input \in Seq(Lines) /\ replies \in Seq(Lines)
  BY PipeAssumption DEF PipeInv, OneOnTheWay, PipeTypes
<1>2. Len(input) \in Nat /\ Len(replies) \in Nat
  BY <1>1, LenProperties
<1>3. CASE replies # <<>> /\ replies' = Tail(replies)
  <2>1. Len(replies) = 1 /\ Len(input) = 0
    <3>1. Len(replies) # 0
      BY <1>1, <1>3, EmptySeq
    <3>2. Len(input) + Len(replies) <= 1
      BY <1>1
    <3>3. \A a, b \in Nat : b # 0 /\ a + b <= 1 => b = 1 /\ a = 0
      OBVIOUS
    <3> QED
      BY ONLY <1>2, <3>1, <3>2, <3>3
  <2>2. Len(Tail(replies)) = Len(replies) - 1 /\ Head(replies) = replies[1]
    BY <1>1, <1>3, HeadTailProperties
  <2> QED
    BY <1>1, <1>2, <1>3, <2>1, <2>2
<1>4. CASE replies = <<>> /\ indexer = "down" /\ replies' = replies
  BY <1>4, EmptySeq DEF PipeInv
<1> QED
  BY <1>3, <1>4

LEMMA ReplyKeeps ==
    ASSUME PipeInv, NEW q \in Queries, NEW from \in {"asks", "waits"},
           NEW to \in {"retrieve", "done"}, PipeGoto(q, from, to),
           sendMu = q, sendMu' = NoQuery,
           \/ replies # <<>> /\ replies' = Tail(replies)
           \/ replies = <<>> /\ indexer = "down" /\ replies' = replies,
           UNCHANGED <<indexer, input, manyLined>>,
           \/ UNCHANGED result
           \/ replies # <<>> /\ result' = [result EXCEPT ![q] = Head(replies).of]
    PROVE  PipeInv'
<1> USE DEF PipeInv
<1>1. replies # <<>> => Head(replies) \in Lines /\ Tail(replies) \in Seq(Lines)
  BY HeadTailProperties DEF PipeTypes
<1>2. PipeTypes'
  BY <1>1 DEF PipeGoto, PipeTypes, Lines
<1>3. MutexHeld'
  BY PipeAssumption DEF PipeGoto, PipeTypes, MutexHeld
<1>4. ASSUME ~manyLined
      PROVE  /\ Len(input') = 0 /\ Len(replies') = 0
             /\ replies # <<>> => Head(replies).of \in {q, NoQuery}
  BY <1>4, ReplyEmptiesPipe
<1>5. ~manyLined' => OneOnTheWay'
  BY <1>4 DEF OneOnTheWay
<1>6. OwnResults'
  BY <1>4 DEF OwnResults, PipeTypes
<1> QED
  BY <1>2, <1>3, <1>5, <1>6

LEMMA ServeKeeps == ASSUME PipeInv, IndexerServes PROVE PipeInv'
<1> USE DEF PipeInv
<1> DEFINE line == Head(input)
<1>1. input \in Seq(Lines) /\ replies \in Seq(Lines) /\ input # <<>>
  BY DEF IndexerServes, PipeTypes
<1>2. /\ line \in Lines /\ Tail(input) \in Seq(Lines) /\ line = input[1]
      /\ Len(input) \in Nat \ {0} /\ Len(Tail(input)) = Len(input) - 1
      /\ \A i \in 1 .. Len(Tail(input)) : Tail(input)[i] = input[i + 1]
  BY <1>1, HeadTailProperties, EmptySeq
<1>3. PICK a \in Answer(line) : replies' = Append(replies, a)
  BY DEF IndexerServes
<1>4. input' = Tail(input) /\ UNCHANGED <<indexer, sendMu, qpc, result, manyLined>>
  BY DEF IndexerServes
<1>5. a \in Lines /\ a.of \in {line.of, NoQuery}
  <2>1. a \in {Other, Idle, Results(line.of)}
    BY DEF Answer
  <2>2. line.of \in Queries \cup {NoQuery}
    BY <1>2 DEF Lines
  <2> HIDE DEF line
  <2> QED
    BY <2>1, <2>2 DEF Other, Idle, Results, Line, Lines, LineKinds
<1> HIDE DEF line
<1>6. /\ Append(replies, a) \in Seq(Lines)
      /\ Len(replies) \in Nat /\ Len(Append(replies, a)) = Len(replies) + 1
      /\ \A i \in 1 .. Len(replies) : Append(replies, a)[i] = replies[i]
      /\ Append(replies, a)[Len(replies) + 1] = a
  BY <1>1, <1>5, AppendProperties, LenProperties
<1>7. PipeTypes'
  BY <1>2, <1>3, <1>4, <1>6 DEF PipeTypes
<1>8. ASSUME ~manyLined PROVE OneOnTheWay'
  <2>1. OneOnTheWay
    BY <1>8
  <2>2. Len(input) = 1 /\ Len(replies) = 0 /\ line.of = sendMu /\ sendMu # NoQuery
    BY <1>2, <1>6, <2>1 DEF OneOnTheWay
  <2>3. Len(input') = 0 /\ Len(replies') = 1 /\ replies'[1] = a
    BY <1>2, <1>3, <1>4, <1>6, <2>2
  <2>4. \A i \in 1 .. Len(replies') : replies'[i].of \in {sendMu, NoQuery}
    BY <1>5, <2>2, <2>3
  <2>5. /\ Len(input') + Len(replies') <= (IF sendMu' = NoQuery THEN 0 ELSE 1)
        /\ \A i \in 1 .. Len(input') : input'[i].of = sendMu'
        /\ \A i \in 1 .. Len(replies') : replies'[i].of \in {sendMu', NoQuery}
    <3>1. sendMu' = sendMu
      BY <1>4
    <3> QED
      BY ONLY <3>1, <2>2, <2>3, <2>4
  <2> QED
    BY ONLY <2>5 DEF OneOnTheWay
<1>9. MutexHeld' /\ OwnResults' /\ indexer' # "down"
  BY <1>4 DEF MutexHeld, OwnResults, IndexerServes
<1> QED
  BY <1>4, <1>7, <1>8, <1>9

LEMMA PipeInductive == PipeInv /\ [PipeNext]_pipeVars => PipeInv'
<1> SUFFICES ASSUME PipeInv, [PipeNext]_pipeVars PROVE PipeInv'
  OBVIOUS
<1>1. ASSUME NEW q \in Queries, QueryArrives(q) PROVE PipeInv'
  BY <1>1 DEF QueryArrives, PipeGoto, PipeInv, PipeTypes, MutexHeld, OneOnTheWay, OwnResults
<1>2. ASSUME NEW q \in Queries, SendHealth(q) PROVE PipeInv'
  <2> DEFINE lines == <<Line("health", q)>>
  <2>1. lines \in Seq(Lines) /\ Len(lines) = 1 /\ lines[1].of = q
    BY DEF Line, Lines, LineKinds
  <2>2. Send(q, "health", "asks", lines)
    BY <1>2 DEF SendHealth
  <2>3. UNCHANGED <<indexer, replies, result, manyLined>> /\ manyLined \in BOOLEAN
    BY <1>2 DEF SendHealth, PipeInv, PipeTypes
  <2> HIDE DEF lines
  <2> QED
    BY <2>1, <2>2, <2>3, SendKeeps
<1>3. ASSUME NEW q \in Queries, SendRetrieve(q) PROVE PipeInv'
  <2>1. PICK p \in Prompts : /\ Send(q, "retrieve", "waits", Commands(q, p))
                             /\ manyLined' = (manyLined \/ p.more # <<>>)
    BY <1>3 DEF SendRetrieve
  <2>2. UNCHANGED <<indexer, replies, result>>
    BY <1>3 DEF SendRetrieve
  <2>3. manyLined' \in BOOLEAN /\ (manyLined => manyLined')
    BY <2>1
  <2>4. /\ Commands(q, p) \in Seq(Lines)
        /\ \A i \in 1 .. Len(Commands(q, p)) : Commands(q, p)[i].of = q
        /\ p.more = <<>> => Len(Commands(q, p)) = 1
    BY CommandsOfPrompt
  <2>5. ~manyLined' => Len(Commands(q, p)) = 1
    BY <2>1, <2>4
  <2> QED
    BY <2>1, <2>2, <2>3, <2>4, <2>5, SendKeeps
<1>4. ASSUME NEW q \in Queries, HealthReply(q) PROVE PipeInv'
  BY <1>4, ReplyKeeps DEF HealthReply
<1>5. ASSUME NEW q \in Queries, RetrieveReply(q) PROVE PipeInv'
  <2>1. \/ UNCHANGED result
        \/ replies # <<>> /\ result' = [result EXCEPT ![q] = Head(replies).of]
    BY <1>5 DEF RetrieveReply, PipeInv, PipeTypes
  <2> QED
    BY <1>5, <2>1, ReplyKeeps DEF RetrieveReply
<1>6. ASSUME EmbedderHangs PROVE PipeInv'
  BY <1>6 DEF EmbedderHangs, PipeInv, PipeTypes, MutexHeld, OneOnTheWay, OwnResults
<1>7. ASSUME IndexerEnds PROVE PipeInv'
  <2>1. input' = <<>> /\ <<>> \in Seq(Lines) /\ Len(<<>>) = 0
    BY <1>7, EmptySeq DEF IndexerEnds
  <2>2. Len(input) \in Nat /\ Len(replies) \in Nat
    BY LenProperties DEF PipeInv, PipeTypes
  <2> QED
    BY <1>7, <2>1, <2>2
    DEF IndexerEnds, PipeInv, PipeTypes, MutexHeld, OneOnTheWay, OwnResults
<1>8. CASE UNCHANGED pipeVars
  BY <1>8 DEF pipeVars, PipeInv, PipeTypes, MutexHeld, OneOnTheWay, OwnResults
<1> QED
  BY <1>1, <1>2, <1>3, <1>4, <1>5, <1>6, <1>7, <1>8, ServeKeeps DEF PipeNext, QueryStep

(* OwnResults: IndexerSend, which holds the mutex from the command to its answer,
   keeps the answers of calls at the same time apart, as long as every prompt is a
   single line. *)
THEOREM ResultsAreOwn == PipeSpec => []OwnResults
<1>1. PipeInv => OwnResults
  BY DEF PipeInv
<1> QED
  BY <1>1, PipeInitially, PipeInductive, PTL DEF PipeSpec

-----------------------------------------------------------------------------
(* Commands and the files of their output. *)

Named(r) == rpc[r] # "idle"

(* A run has a number from when it is named, one that its process has counted to. *)
NumbersGiven ==
    /\ \A r \in Runs : runNum[r] \in IF Named(r) THEN Numbers ELSE {0}
    /\ \A p \in RunProcesses :
          execCounter[p] <= Cardinality({r \in Runs : Named(r)})
    /\ \A n \in Numbers : \A r \in output[n] : runNum[r] = n

(* A process is among the callers as it last started if and only if it has emptied
   the directory. *)
CallersKnown ==
    /\ \A c \in callers : c[1] \in RunProcesses /\ c[2] \in Nat /\ c[2] <= restarts[c[1]]
    /\ \A p \in RunProcesses : execDirInit[p] <=> <<p, restarts[p]>> \in callers
    /\ \A r \in Runs : Named(r) => \E c \in callers : c[1] = RunsIn[r]

Alone == \A c, d \in callers : c = d

(* With one caller the runs that are not over have numbers of their own, and what
   has been started is all that is in its files. *)
OneRunPerNumber ==
    /\ \A r, s \in Runs :
          runNum[r] = runNum[s] /\ Named(r) => r = s
    /\ \A r \in Runs : Named(r) /\ execDirInit[RunsIn[r]] => runNum[r] <= execCounter[RunsIn[r]]
    /\ \A r \in Runs : rpc[r] \in {"wait", "term", "kill", "done"} => output[runNum[r]] = {r}

RunInv ==
    /\ RunTypeOK /\ NumbersGiven /\ CallersKnown
    /\ Alone => OneRunPerNumber

LEMMA RunInitially == RunInit => RunInv
<1> SUFFICES ASSUME RunInit PROVE RunInv
  OBVIOUS
<1>1. Cardinality(Runs) \in Nat /\ {r \in Runs : Named(r)} = {} /\ Cardinality({}) = 0
  BY RunAssumption, FS_CardinalityType, FS_EmptySet DEF RunInit, Named
<1>2. RunTypeOK
  BY <1>1, RunAssumption DEF RunInit, RunTypeOK, RunProcesses, Numbers
<1>3. NumbersGiven
  BY <1>1 DEF RunInit, NumbersGiven, Named
<1>4. CallersKnown /\ OneRunPerNumber
  BY <1>1 DEF RunInit, CallersKnown, OneRunPerNumber, Named
<1> QED
  BY <1>2, <1>3, <1>4 DEF RunInv

(* A run that is not named yet leaves its process a number to give. *)
LEMMA NumberLeft ==
    ASSUME RunInv, NEW r \in Runs, rpc[r] = "idle"
    PROVE  /\ execCounter[RunsIn[r]] + 1 \in Numbers
           /\ Cardinality({s \in Runs : Named(s)} \cup {r})
                = Cardinality({s \in Runs : Named(s)}) + 1
<1> DEFINE S == {s \in Runs : Named(s)}
<1>1. S \subseteq Runs /\ r \notin S /\ S \cup {r} \subseteq Runs
  BY DEF Named
<1>2. RunsIn[r] \in RunProcesses /\ execCounter[RunsIn[r]] \in Nat
  BY RunAssumption DEF RunInv, RunTypeOK
<1>3. execCounter[RunsIn[r]] <= Cardinality(S)
  BY <1>2 DEF RunInv, NumbersGiven
<1> HIDE DEF S
<1>4. IsFiniteSet(S)
  BY <1>1, RunAssumption, FS_Subset
<1>5. Cardinality(S \cup {r}) = Cardinality(S) + 1
  BY <1>1, <1>4, FS_AddElement
<1>6. Cardinality(S \cup {r}) <= Cardinality(Runs)
  BY <1>1, RunAssumption, FS_Subset
<1>7. Cardinality(S) \in Nat /\ Cardinality(Runs) \in Nat
  BY <1>4, RunAssumption, FS_CardinalityType
<1>8. execCounter[RunsIn[r]] + 1 \in Numbers
  BY <1>2, <1>3, <1>5, <1>6, <1>7 DEF Numbers
<1> QED
  BY <1>5, <1>8 DEF S

(* NextExecRunDir: a number nobody else has, in the directory of the process that
   is alone. *)
LEMMA NamingKeeps == ASSUME RunInv, NEW r \in Runs, NextExecRunDir(r) PROVE RunInv'
<1> USE DEF RunInv
<1> DEFINE p == RunsIn[r]
           num == execCounter[p] + 1
           S == {s \in Runs : Named(s)}
<1>1. /\ rpc[r] = "idle" /\ rpc' = [rpc EXCEPT ![r] = "named"]
      /\ execDirInit' = [execDirInit EXCEPT ![p] = TRUE]
      /\ execCounter' = [execCounter EXCEPT ![p] = num]
      /\ runNum' = [runNum EXCEPT ![r] = num]
      /\ callers' = callers \cup {<<p, restarts[p]>>}
      /\ UNCHANGED <<child, held, restarts>>
  BY DEF NextExecRunDir, RunGoto
<1>2. \/ execDirInit[p] /\ runDirs' = runDirs \cup {num} /\ output' = output
      \/ ~execDirInit[p] /\ runDirs' = {num} /\ output' = [n \in Numbers |-> {}]
  BY DEF NextExecRunDir
<1>3. p \in RunProcesses /\ num \in Numbers /\ Cardinality(S \cup {r}) = Cardinality(S) + 1
  BY <1>1, NumberLeft, RunAssumption
<1>4. Cardinality(Runs) \in Nat /\ Cardinality(S) \in Nat /\ execCounter[p] \in Nat
  <2>1. IsFiniteSet(S)
    BY RunAssumption, FS_Subset
  <2> QED
    BY <1>3, <2>1, RunAssumption, FS_CardinalityType DEF RunTypeOK
<1>5. num \in 1 .. Cardinality(Runs)
  BY <1>3 DEF Numbers
<1>6. /\ runNum[r] = 0 /\ 0 \notin Numbers
      /\ \A s \in Runs : rpc'[s] = (IF s = r THEN "named" ELSE rpc[s])
      /\ \A s \in Runs : runNum'[s] = (IF s = r THEN num ELSE runNum[s])
      /\ \A s \in Runs : Named(s)' <=> (s = r \/ Named(s))
  BY <1>1 DEF RunTypeOK, NumbersGiven, Named, Numbers
<1> HIDE DEF num
<1>7. RunTypeOK'
  <2>1. execCounter' \in [RunProcesses -> 0 .. Cardinality(Runs)]
    <3>1. num \in 0 .. Cardinality(Runs)
      BY <1>4, <1>5
    <3> QED
      BY <1>1, <3>1 DEF RunTypeOK
  <2>2. runDirs' \subseteq Numbers /\ output' \in [Numbers -> SUBSET Runs]
    BY <1>2, <1>3 DEF RunTypeOK
  <2>3. callers' \subseteq RunProcesses \X (0 .. MaxRestarts)
    BY <1>1, <1>3 DEF RunTypeOK
  <2>4. \A n \in Numbers : output'[n] # {} => n \in runDirs'
    BY <1>2 DEF RunTypeOK
  <2>5. /\ execDirInit' \in [RunProcesses -> BOOLEAN]
        /\ rpc' \in [Runs -> {"idle", "named", "wait", "term", "kill", "done", "lost"}]
        /\ runNum' \in [Runs -> {0} \cup Numbers]
    BY <1>1, <1>3 DEF RunTypeOK
  <2>6. /\ child' \in [Runs -> {"none", "running", "exited"}]
        /\ held' \in [Runs -> BOOLEAN]
        /\ restarts' \in [RunProcesses -> 0 .. MaxRestarts]
    BY <1>1 DEF RunTypeOK
  <2> QED
    BY <2>1, <2>2, <2>3, <2>4, <2>5, <2>6 DEF RunTypeOK
<1>8. NumbersGiven'
  <2>1. \A s \in Runs : runNum'[s] \in IF Named(s)' THEN Numbers ELSE {0}
    BY <1>3, <1>6 DEF NumbersGiven
  <2>2. {s \in Runs : Named(s)'} = S \cup {r}
    BY <1>6
  <2>3. \A q \in RunProcesses : execCounter'[q] <= Cardinality(S) + 1
    <3> SUFFICES ASSUME NEW q \in RunProcesses PROVE execCounter'[q] <= Cardinality(S) + 1
      OBVIOUS
    <3>1. execCounter[q] <= Cardinality(S) /\ execCounter[q] \in Nat
      BY <1>4 DEF NumbersGiven, RunTypeOK
    <3>2. execCounter'[q] = execCounter[q] \/ execCounter'[q] = execCounter[q] + 1
      BY <1>1 DEF RunTypeOK, num
    <3> HIDE DEF S
    <3> QED
      BY <1>4, <3>1, <3>2
  <2>4. \A n \in Numbers : \A s \in output'[n] : runNum'[s] = n
    <3> SUFFICES ASSUME NEW n \in Numbers, NEW s \in output'[n] PROVE runNum'[s] = n
      OBVIOUS
    <3>1. s \in output[n] /\ s \in Runs
      BY <1>2 DEF RunTypeOK
    <3> QED
      BY <1>6, <3>1 DEF NumbersGiven
  <2>5. \A q \in RunProcesses : execCounter'[q] <= Cardinality({s \in Runs : Named(s)'})
    BY <1>3, <2>2, <2>3
  <2> QED
    BY <2>1, <2>4, <2>5 DEF NumbersGiven
<1>9. CallersKnown'
  <2>1. \A c \in callers' : c[1] \in RunProcesses /\ c[2] \in Nat /\ c[2] <= restarts'[c[1]]
    BY <1>1, <1>3 DEF CallersKnown, RunTypeOK
  <2>2. \A q \in RunProcesses : execDirInit'[q] <=> <<q, restarts'[q]>> \in callers'
    BY <1>1, <1>3 DEF CallersKnown, RunTypeOK
  <2>3. \A s \in Runs : Named(s)' => \E c \in callers' : c[1] = RunsIn[s]
    <3>1. <<p, restarts[p]>> \in callers' /\ callers \subseteq callers'
      BY <1>1
    <3>2. \E c \in callers' : c[1] = RunsIn[r]
      BY <3>1
    <3> QED
      BY <1>6, <3>1, <3>2 DEF CallersKnown
  <2> QED
    BY <2>1, <2>2, <2>3 DEF CallersKnown
<1>10. ASSUME Alone' PROVE OneRunPerNumber'
  <2>1. Alone
    BY <1>1, <1>10 DEF Alone
  <2>2. OneRunPerNumber
    BY <2>1
  <2>3. \A s \in Runs : Named(s) => RunsIn[s] = p /\ execDirInit[p]
    <3> SUFFICES ASSUME NEW s \in Runs, Named(s) PROVE RunsIn[s] = p /\ execDirInit[p]
      OBVIOUS
    <3>1. PICK c \in callers : c[1] = RunsIn[s]
      BY DEF CallersKnown
    <3>2. c = <<p, restarts[p]>>
      BY <1>1, <1>10 DEF Alone
    <3> QED
      BY <1>3, <3>1, <3>2 DEF CallersKnown
  <2>4. \A s \in Runs : Named(s) => runNum[s] <= execCounter[p] /\ runNum[s] \in Numbers
    BY <2>2, <2>3 DEF OneRunPerNumber, NumbersGiven
  <2>5. \A s \in Runs : Named(s) => runNum[s] < num
    BY <1>4, <2>4 DEF num, Numbers
  <2>6. ASSUME NEW s \in Runs, NEW t \in Runs, runNum'[s] = runNum'[t], Named(s)'
        PROVE  s = t
    <3>1. \A u \in Runs : u # r => runNum[u] # num
      <4> SUFFICES ASSUME NEW u \in Runs, u # r PROVE runNum[u] # num
        OBVIOUS
      <4>1. CASE Named(u)
        BY <1>3, <2>4, <2>5, <4>1 DEF Numbers
      <4>2. CASE ~Named(u)
        BY <1>3, <1>6, <4>2 DEF NumbersGiven
      <4> QED
        BY <4>1, <4>2
    <3> QED
      BY <1>6, <2>2, <2>6, <3>1 DEF OneRunPerNumber
  <2>7. ASSUME NEW s \in Runs, Named(s)', execDirInit'[RunsIn[s]]
        PROVE  runNum'[s] <= execCounter'[RunsIn[s]]
    <3>1. RunsIn[s] = p /\ execCounter'[p] = num
      BY <1>1, <1>3, <1>6, <2>3, <2>7 DEF RunTypeOK
    <3> QED
      BY <1>3, <1>6, <2>4, <2>5, <2>7, <3>1 DEF Numbers
  <2>8. ASSUME NEW s \in Runs, rpc'[s] \in {"wait", "term", "kill", "done"}
        PROVE  output'[runNum'[s]] = {s}
    <3>1. s # r /\ rpc[s] = rpc'[s] /\ runNum'[s] = runNum[s] /\ Named(s)
      BY <1>6, <2>8 DEF Named
    <3>2. output' = output
      BY <1>2, <2>3, <3>1
    <3> QED
      BY <2>2, <2>8, <3>1, <3>2 DEF OneRunPerNumber
  <2> QED
    BY <2>6, <2>7, <2>8 DEF OneRunPerNumber
<1> QED
  BY <1>7, <1>8, <1>9, <1>10

(* A step that leaves the counters and the callers, and names nobody. *)
LEMMA StepKeepsNumbers ==
    ASSUME RunInv, RunTypeOK',
           UNCHANGED <<execDirInit, execCounter, runNum, restarts, callers>>,
           \A s \in Runs : rpc'[s] = "idle" <=> rpc[s] = "idle",
           \A n \in Numbers : \A s \in output'[n] : runNum[s] = n,
           ASSUME OneRunPerNumber,
                  NEW s \in Runs, rpc'[s] \in {"wait", "term", "kill", "done"}
           PROVE  output'[runNum[s]] = {s}
    PROVE  RunInv'
<1> USE DEF RunInv
<1>1. \A s \in Runs : Named(s)' <=> Named(s)
  BY DEF Named
<1>2. {s \in Runs : Named(s)'} = {s \in Runs : Named(s)}
  BY <1>1
<1>3. NumbersGiven'
  <2>1. /\ \A s \in Runs : runNum'[s] \in IF Named(s)' THEN Numbers ELSE {0}
        /\ \A n \in Numbers : \A s \in output'[n] : runNum'[s] = n
    BY <1>1 DEF NumbersGiven
  <2> QED
    BY <1>2, <2>1 DEF NumbersGiven
<1>4. CallersKnown'
  BY <1>1 DEF CallersKnown
<1>5. Alone' => OneRunPerNumber'
  BY <1>1 DEF Alone, OneRunPerNumber
<1> QED
  BY <1>3, <1>4, <1>5

(* What is still copied to a directory, when its number has one run. *)
LEMMA WritersOfNumber ==
    ASSUME RunInv, OneRunPerNumber, NEW r \in Runs, rpc[r] = "named"
    PROVE  Writing(runNum[r]) = {}
<1> SUFFICES ASSUME NEW s \in Writing(runNum[r]) PROVE FALSE
  OBVIOUS
<1>1. runNum[r] \in Numbers
  BY DEF RunInv, NumbersGiven, Named
<1>2. s \in output[runNum[r]] /\ s \in Runs /\ rpc[s] # "named"
  BY <1>1 DEF Writing, RunInv, RunTypeOK
<1>3. runNum[s] = runNum[r]
  BY <1>1, <1>2 DEF RunInv, NumbersGiven
<1> QED
  BY <1>2, <1>3 DEF OneRunPerNumber, Named

LEMMA RunInductive == RunInv /\ [RunNext]_runVars => RunInv'
<1> SUFFICES ASSUME RunInv, [RunNext]_runVars PROVE RunInv'
  OBVIOUS
<1> USE DEF RunInv
<1>1. ASSUME NEW r \in Runs, StartCommand(r) PROVE RunInv'
  <2>1. /\ rpc[r] = "named" /\ rpc' = [rpc EXCEPT ![r] = "wait"]
        /\ runNum[r] \in runDirs
        /\ output' = [output EXCEPT ![runNum[r]] = {r} \cup Writing(runNum[r])]
        /\ child' = [child EXCEPT ![r] = "running"]
        /\ UNCHANGED <<execDirInit, execCounter, runDirs, runNum, held, restarts, callers>>
    BY <1>1 DEF StartCommand, RunGoto
  <2>2. runNum[r] \in Numbers /\ Writing(runNum[r]) \subseteq output[runNum[r]]
    BY <2>1 DEF NumbersGiven, Named, Writing
  <2>3. RunTypeOK'
    BY <2>1, <2>2 DEF RunTypeOK
  <2>4. \A n \in Numbers : \A s \in output'[n] : runNum[s] = n
    BY <2>1, <2>2 DEF RunTypeOK, NumbersGiven
  <2>5. ASSUME OneRunPerNumber,
               NEW s \in Runs, rpc'[s] \in {"wait", "term", "kill", "done"}
        PROVE  output'[runNum[s]] = {s}
    <3>1. CASE s = r
      BY <2>1, <2>2, <2>5, <3>1, WritersOfNumber DEF RunTypeOK
    <3>2. CASE s # r
      <4>1. rpc[s] = rpc'[s] /\ Named(s)
        BY <2>1, <2>5, <3>2 DEF RunTypeOK, Named
      <4>2. runNum[s] # runNum[r] /\ output[runNum[s]] = {s}
        BY <2>5, <3>2, <4>1 DEF OneRunPerNumber
      <4>3. runNum[s] \in Numbers
        BY <4>1 DEF NumbersGiven
      <4> QED
        BY <2>1, <4>2, <4>3 DEF RunTypeOK
    <3> QED
      BY <3>1, <3>2
  <2>6. \A s \in Runs : rpc'[s] = "idle" <=> rpc[s] = "idle"
    BY <2>1 DEF RunTypeOK
  <2> QED
    BY <2>1, <2>3, <2>4, <2>5, <2>6, StepKeepsNumbers
<1>2. ASSUME NEW r \in Runs, SetupFails(r) PROVE RunInv'
  <2>1. /\ rpc[r] = "named" /\ rpc' = [rpc EXCEPT ![r] = "lost"]
        /\ \/ runNum[r] \in runDirs
                 /\ output' = [output EXCEPT ![runNum[r]] = Writing(runNum[r])]
           \/ output' = output
        /\ UNCHANGED <<execDirInit, execCounter, runDirs, runNum, child, held, restarts,
                       callers>>
    BY <1>2 DEF SetupFails, RunGoto
  <2>2. runNum[r] \in Numbers /\ Writing(runNum[r]) \subseteq output[runNum[r]]
    BY <2>1 DEF NumbersGiven, Named, Writing
  <2>3. RunTypeOK'
    BY <2>1, <2>2 DEF RunTypeOK
  <2>4. \A n \in Numbers : \A s \in output'[n] : runNum[s] = n
    BY <2>1, <2>2 DEF RunTypeOK, NumbersGiven
  <2>5. ASSUME OneRunPerNumber,
               NEW s \in Runs, rpc'[s] \in {"wait", "term", "kill", "done"}
        PROVE  output'[runNum[s]] = {s}
    <3>1. s # r /\ rpc[s] = rpc'[s] /\ Named(s)
      BY <2>1, <2>5 DEF RunTypeOK, Named
    <3>2. runNum[s] # runNum[r] /\ output[runNum[s]] = {s}
      BY <2>5, <3>1 DEF OneRunPerNumber
    <3>3. runNum[s] \in Numbers
      BY <3>1 DEF NumbersGiven
    <3> QED
      BY <2>1, <3>2, <3>3 DEF RunTypeOK
  <2>6. \A s \in Runs : rpc'[s] = "idle" <=> rpc[s] = "idle"
    BY <2>1 DEF RunTypeOK
  <2> QED
    BY <2>1, <2>3, <2>4, <2>5, <2>6, StepKeepsNumbers
<1>3. ASSUME UNCHANGED <<execDirInit, execCounter, runDirs, output, runNum, restarts,
                         callers>>,
             NEW r \in Runs, NEW to \in {"wait", "term", "kill", "done"},
             \/ rpc' = rpc
             \/ rpc[r] \in {"wait", "term", "kill"} /\ rpc' = [rpc EXCEPT ![r] = to],
             child' \in [Runs -> {"none", "running", "exited"}],
             held' \in [Runs -> BOOLEAN]
      PROVE  RunInv'
  <2>1. RunTypeOK'
    BY <1>3 DEF RunTypeOK
  <2>2. \A s \in Runs : rpc'[s] = "idle" <=> rpc[s] = "idle"
    BY <1>3 DEF RunTypeOK
  <2>3. \A s \in Runs : rpc'[s] \in {"wait", "term", "kill", "done"}
                           => rpc[s] \in {"wait", "term", "kill", "done"}
    BY <1>3 DEF RunTypeOK
  <2>4. \A n \in Numbers : \A s \in output'[n] : runNum[s] = n
    BY <1>3 DEF NumbersGiven
  <2>5. ASSUME OneRunPerNumber,
               NEW s \in Runs, rpc'[s] \in {"wait", "term", "kill", "done"}
        PROVE  output'[runNum[s]] = {s}
    BY <1>3, <2>3, <2>5 DEF OneRunPerNumber
  <2> QED
    BY <1>3, <2>1, <2>2, <2>4, <2>5, StepKeepsNumbers
<1>4. ASSUME NEW r \in Runs, ChildExits(r) \/ HolderEnds(r) PROVE RunInv'
  <2>1. child' \in [Runs -> {"none", "running", "exited"}]
    BY <1>4 DEF ChildExits, HolderEnds, RunTypeOK
  <2>2. held' \in [Runs -> BOOLEAN]
    BY <1>4 DEF ChildExits, HolderEnds, RunTypeOK
  <2>3. UNCHANGED <<execDirInit, execCounter, runDirs, output, rpc, runNum, restarts, callers>>
    BY <1>4 DEF ChildExits, HolderEnds
  <2> QED
    BY <1>3, <2>1, <2>2, <2>3
<1>5. ASSUME NEW r \in Runs, TimesOut(r) \/ Kill(r) \/ WaitReturns(r) PROVE RunInv'
  <2>1. child' \in [Runs -> {"none", "running", "exited"}]
    BY <1>5 DEF TimesOut, Kill, WaitReturns, RunTypeOK
  <2>2. held' \in [Runs -> BOOLEAN]
    BY <1>5 DEF TimesOut, Kill, WaitReturns, RunTypeOK
  <2>3. /\ rpc[r] \in {"wait", "term", "kill"}
        /\ \E to \in {"wait", "term", "kill", "done"} : rpc' = [rpc EXCEPT ![r] = to]
        /\ UNCHANGED <<execDirInit, execCounter, runDirs, output, runNum, restarts, callers>>
    BY <1>5 DEF TimesOut, Kill, WaitReturns, RunGoto
  <2> QED
    BY <1>3, <2>1, <2>2, <2>3
<1>6. ASSUME NEW p \in RunProcesses, RunnerRestarts(p) PROVE RunInv'
  <2>1. /\ restarts[p] < MaxRestarts
        /\ restarts' = [restarts EXCEPT ![p] = @ + 1]
        /\ execDirInit' = [execDirInit EXCEPT ![p] = FALSE]
        /\ execCounter' = [execCounter EXCEPT ![p] = 0]
        /\ UNCHANGED <<runDirs, output, runNum, child, held, callers>>
    BY <1>6 DEF RunnerRestarts
  <2>2. \A s \in Runs : rpc'[s] = rpc[s] \/ (rpc'[s] = "lost" /\ rpc[s] # "idle")
    BY <1>6 DEF RunnerRestarts
  <2>3. \A s \in Runs : Named(s)' <=> Named(s)
    BY <2>2 DEF Named
  <2>4. Cardinality(Runs) \in Nat /\ MaxRestarts \in Nat
    BY RunAssumption, FS_CardinalityType
  <2>5. RunTypeOK'
    <3>1. rpc' \in [Runs -> {"idle", "named", "wait", "term", "kill", "done", "lost"}]
      BY <1>6 DEF RunnerRestarts, RunTypeOK
    <3>2. /\ restarts' \in [RunProcesses -> 0 .. MaxRestarts]
          /\ execCounter' \in [RunProcesses -> 0 .. Cardinality(Runs)]
      BY <2>1, <2>4 DEF RunTypeOK
    <3>3. execDirInit' \in [RunProcesses -> BOOLEAN]
      BY <2>1 DEF RunTypeOK
    <3> QED
      BY <2>1, <3>1, <3>2, <3>3 DEF RunTypeOK
  <2>6. NumbersGiven'
    <3>1. {s \in Runs : Named(s)'} = {s \in Runs : Named(s)}
      BY <2>3
    <3>2. Cardinality({s \in Runs : Named(s)}) \in Nat
      BY RunAssumption, FS_Subset, FS_CardinalityType
    <3>3. \A q \in RunProcesses : execCounter'[q] <= Cardinality({s \in Runs : Named(s)})
      BY <2>1, <3>2 DEF NumbersGiven, RunTypeOK
    <3>4. /\ \A s \in Runs : runNum'[s] \in IF Named(s)' THEN Numbers ELSE {0}
          /\ \A n \in Numbers : \A s \in output'[n] : runNum'[s] = n
      BY <2>1, <2>3 DEF NumbersGiven
    <3> QED
      BY <3>1, <3>3, <3>4 DEF NumbersGiven
  <2>7. CallersKnown'
    <3>1. \A q \in RunProcesses :
              /\ restarts[q] \in Nat
              /\ restarts'[q] = IF q = p THEN restarts[q] + 1 ELSE restarts[q]
              /\ execDirInit'[q] <=> q # p /\ execDirInit[q]
      BY <2>1, <2>4 DEF RunTypeOK
    <3>2. <<p, restarts[p] + 1>> \notin callers
      <4> SUFFICES ASSUME <<p, restarts[p] + 1>> \in callers PROVE FALSE
        OBVIOUS
      <4>1. restarts[p] + 1 <= restarts[p]
        BY DEF CallersKnown
      <4> QED
        BY <3>1, <4>1
    <3>3. \A c \in callers : c[1] \in RunProcesses /\ c[2] \in Nat /\ c[2] <= restarts'[c[1]]
      BY <3>1 DEF CallersKnown
    <3>4. \A q \in RunProcesses : execDirInit'[q] <=> <<q, restarts'[q]>> \in callers
      BY <3>1, <3>2 DEF CallersKnown
    <3> QED
      BY <2>1, <2>3, <3>3, <3>4 DEF CallersKnown
  <2>8. ASSUME Alone' PROVE OneRunPerNumber'
    <3>1. OneRunPerNumber
      BY <2>1, <2>8 DEF Alone
    <3>2. \A q \in RunProcesses : execDirInit'[q] =>
              execDirInit[q] /\ execCounter'[q] = execCounter[q]
      BY <2>1 DEF RunTypeOK
    <3>3. \A s \in Runs : RunsIn[s] \in RunProcesses
      BY RunAssumption
    <3>4. \A s \in Runs : Named(s)' /\ execDirInit'[RunsIn[s]]
                             => runNum'[s] <= execCounter'[RunsIn[s]]
      BY <2>1, <2>3, <3>1, <3>2, <3>3 DEF OneRunPerNumber
    <3>5. \A s, t \in Runs : runNum'[s] = runNum'[t] /\ Named(s)' => s = t
      BY <2>1, <2>3, <3>1 DEF OneRunPerNumber
    <3>6. \A s \in Runs : rpc'[s] \in {"wait", "term", "kill", "done"}
                             => output'[runNum'[s]] = {s}
      BY <2>1, <2>2, <3>1 DEF OneRunPerNumber
    <3> QED
      BY <3>4, <3>5, <3>6 DEF OneRunPerNumber
  <2> QED
    BY <2>5, <2>6, <2>7, <2>8
<1>7. CASE UNCHANGED runVars
  BY <1>7 DEF runVars, RunTypeOK, NumbersGiven, CallersKnown, Alone, OneRunPerNumber,
              Named
<1> QED
  BY <1>1, <1>2, <1>4, <1>5, <1>6, <1>7, NamingKeeps DEF RunNext, Timers

LEMMA RunAlways == RunSpec => []RunInv
  BY RunInitially, RunInductive, PTL DEF RunSpec

(* RunTypeOK: NextExecRunDir never counts past the commands there are, and output is
   only in directories that are there. *)
THEOREM RunTypeCorrect == RunSpec => []RunTypeOK
<1>1. RunInv => RunTypeOK
  BY DEF RunInv
<1> QED
  BY <1>1, RunAlways, PTL

(* OutputKept: while one process alone runs commands, the files that an answer of
   RunCommandHandler names hold the output of its command, and that alone, however
   many commands run at the same time. *)
THEOREM OutputIsKept == RunSpec => []OutputKept
<1>1. RunInv => OutputKept
  <2> SUFFICES ASSUME RunInv, Cardinality(callers) <= 1, NEW r \in Runs, rpc[r] = "done"
               PROVE  output[runNum[r]] = {r}
    BY DEF OutputKept
  <2>1. IsFiniteSet(callers)
    <3>1. IsFiniteSet(RunProcesses)
      <4>1. IsFiniteSet({"tools"} \cup {"server"})
        BY FS_Singleton, FS_AddElement
      <4>2. RunProcesses = {"tools"} \cup {"server"}
        BY DEF RunProcesses
      <4> QED
        BY <4>1, <4>2
    <3>2. IsFiniteSet(0 .. MaxRestarts)
      BY RunAssumption, FS_Interval
    <3>3. IsFiniteSet(RunProcesses \X (0 .. MaxRestarts))
      BY <3>1, <3>2, FS_Product
    <3> QED
      BY <3>3, FS_Subset DEF RunInv, RunTypeOK
  <2>2. Cardinality(callers) = 0 \/ Cardinality(callers) = 1
    BY <2>1, FS_CardinalityType
  <2>3. Alone
    BY <2>1, <2>2, FS_EmptySet, FS_Singleton DEF Alone
  <2> QED
    BY <2>3 DEF RunInv, OneRunPerNumber
<1> QED
  BY <1>1, RunAlways, PTL

-----------------------------------------------------------------------------
(* The llama servers. *)

Stages == {"idle", "port", "start", "poll", "serve", "over", "gone"}

LlamaTypes ==
    /\ stage \in [Hosts -> Stages]
    /\ starting \in [Hosts -> Roles \cup {NoRole}]
    /\ server \in [Hosts -> [Roles -> Ports \cup {NoPort}]]
    /\ portOf \in [Children -> Ports \cup {NoPort}]
    /\ alive \subseteq Children
    /\ loaded \subseteq Children
    /\ listener \in [Ports -> Children \cup {Free}]

(* A host that is starting a server knows which, and has a port for it. *)
StartsOne ==
    \A h \in Hosts :
        /\ stage[h] = "idle" => starting[h] = NoRole
        /\ stage[h] \in {"port", "start", "poll"} => starting[h] \in Roles
        /\ stage[h] \in {"start", "poll"} => portOf[Current(h)] \in Ports

(* The servers that StartLlamaServers comes to after one. *)
Later(r) == IF r = "embedder" THEN {"reranker", "extractor"}
            ELSE IF r = "reranker" THEN {"extractor"} ELSE {}

NotYet(c) ==
    \/ stage[c.host] = "idle"
    \/ /\ stage[c.host] \in {"port", "start"}
       /\ c.role \in {starting[c.host]} \cup Later(starting[c.host])
    \/ /\ stage[c.host] = "poll"
       /\ c.role \in Later(starting[c.host])

(* A server whose turn has not come has no child, and nobody counts on it; nor
   on the one that is being polled. *)
OneByOne ==
    \A c \in Children :
        /\ NotYet(c) => c \notin alive
        /\ NotYet(c) \/ (stage[c.host] = "poll" /\ c.role = starting[c.host])
              => server[c.host][c.role] = NoPort

(* Only children that run listen, each on the port it was told. *)
ListensWhereTold ==
    \A p \in Ports : listener[p] # Free =>
        listener[p] \in alive /\ portOf[listener[p]] = p

(* A port that two children hold is known to be one. *)
CollisionsKnown ==
    \A c, d \in Children, p \in Ports :
        c # d /\ Holds(c, p) /\ Holds(d, p) => p \in collided

(* A child that runs was told a port; the one that is polled runs, or has ended of
   itself, or because another was in its place. *)
PollsOwn ==
    /\ \A c \in alive : portOf[c] \in Ports
    /\ \A h \in Hosts : stage[h] = "poll" =>
          Current(h) \in alive \cup died \/ portOf[Current(h)] \in collided

(* ServerIsOwn, from the moment a server is counted on. *)
CountsOnOwn ==
    \A c \in Children :
        LET p == server[c.host][c.role]
        IN stage[c.host] \notin {"over", "gone"} /\ p # NoPort =>
              /\ p = portOf[c]
              /\ \/ c \in loaded /\ listener[p] = c
                 \/ c \in died
                 \/ p \in collided

LlamaInv == LlamaTypes /\ StartsOne /\ OneByOne /\ ListensWhereTold
                /\ CollisionsKnown /\ PollsOwn /\ NoStrays /\ CountsOnOwn

-----------------------------------------------------------------------------
(* A child is its host and its role. *)
LEMMA ChildIsPair ==
    /\ \A c, d \in Children : c.host = d.host /\ c.role = d.role => c = d
    /\ \A c \in Children : c.host \in Hosts /\ c.role \in Roles
    /\ \A h \in Hosts, r \in Roles : [host |-> h, role |-> r] \in Children
    /\ Free \notin Children
<1>1. Free \notin Children
  BY DEF Free, Children, Roles, NoRole
<1> QED
  BY <1>1 DEF Children

LEMMA CurrentIsChild ==
    ASSUME NEW h \in Hosts, starting[h] \in Roles
    PROVE  Current(h) \in Children /\ Current(h).host = h
              /\ Current(h).role = starting[h]
BY DEF Current, Children

(* Whether a server is started or done without, the host goes on with a later
   one or is done. *)
LEMMA NextServer ==
    ASSUME LlamaTypes, NEW h \in Hosts, starting[h] \in Roles,
           GoOn(h) \/ DoWithout(h)
    PROVE  \E st \in {"port", "serve"}, r \in Roles \cup {NoRole} :
               /\ stage' = [stage EXCEPT ![h] = st]
               /\ starting' = [starting EXCEPT ![h] = r]
               /\ st = "port" => r \in Roles /\ r \in Later(starting[h])
<1>1. CASE GoOn(h)
  <2> DEFINE next == IF starting[h] = "embedder" THEN {"reranker", "extractor"}
                     ELSE IF starting[h] = "reranker" THEN {"extractor"} ELSE {}
             wanted == next \cap Wanted[h]
  <2>1. CASE wanted # {}
    <3> DEFINE r == IF "reranker" \in wanted THEN "reranker" ELSE "extractor"
    <3>1. r \in wanted /\ r \in Later(starting[h]) /\ r \in Roles
      BY <2>1 DEF Later, Roles
    <3>2. /\ starting' = [starting EXCEPT ![h] = r]
          /\ stage' = [stage EXCEPT ![h] = "port"]
      BY <1>1, <2>1 DEF GoOn
    <3> QED
      BY <3>1, <3>2
  <2>2. CASE wanted = {}
    <3>1. /\ starting' = [starting EXCEPT ![h] = NoRole]
          /\ stage' = [stage EXCEPT ![h] = "serve"]
      BY <1>1, <2>2 DEF GoOn
    <3> QED
      BY <3>1
  <2> QED
    BY <2>1, <2>2
<1>2. CASE DoWithout(h) /\ ~GoOn(h)
  <2>1. /\ starting' = [starting EXCEPT ![h] = NoRole]
        /\ stage' = [stage EXCEPT ![h] = "serve"]
    BY <1>2 DEF DoWithout
  <2> QED
    BY <2>1
<1> QED
  BY <1>1, <1>2

(* What comes after a later server is later too, and no server is later than
   itself. *)
LEMMA LaterIsOrder ==
    \A r, s \in Roles : s \in Later(r) =>
        /\ r \notin Later(r) /\ s # r
        /\ Later(s) \subseteq Later(r)
BY DEF Later, Roles

(* Who holds a port is known as long as nobody is given one, and each child that
   ends leaves its word. *)
LEMMA KnownStays ==
    ASSUME LlamaInv, UNCHANGED <<portOf, collided>>, alive' \subseteq alive,
           died \subseteq died',
           \A h \in Hosts : stage'[h] \in {"start", "poll"} =>
               stage'[h] = stage[h] /\ starting'[h] = starting[h],
           \A h \in Hosts : stage'[h] = "poll" /\ Current(h) \in alive \ alive' =>
               Current(h) \in died' \/ portOf[Current(h)] \in collided
    PROVE  CollisionsKnown' /\ PollsOwn'
<1>1. \A h \in Hosts : stage'[h] \in {"start", "poll"} => Current(h)' = Current(h)
  BY DEF Current
<1>2. \A c \in Children, q \in Ports : Holds(c, q)' => Holds(c, q)
  BY <1>1, ChildIsPair DEF Holds
<1>3. CollisionsKnown'
  BY <1>2 DEF LlamaInv, CollisionsKnown
<1>4. PollsOwn'
  BY <1>1 DEF LlamaInv, PollsOwn
<1> QED
  BY <1>3, <1>4

-----------------------------------------------------------------------------
(* Steps of a host. *)

LEMMA StartKeepsInv ==
    ASSUME LlamaInv, NEW h \in Hosts, StartLlamaServers(h)
    PROVE  LlamaInv'
<1> USE DEF LlamaInv
<1>1. /\ stage[h] = "idle" /\ starting[h] = NoRole
      /\ \E st \in {"port", "serve"}, r \in Roles \cup {NoRole} :
             /\ stage' = [stage EXCEPT ![h] = st]
             /\ starting' = [starting EXCEPT ![h] = r]
             /\ st = "port" => r \in Roles
      /\ UNCHANGED <<server, portOf, alive, loaded, listener, died, collided>>
  <2>1. stage[h] = "idle" /\ starting[h] = NoRole
    BY DEF StartLlamaServers, StartsOne
  <2>2. [starting EXCEPT ![h] = NoRole] = starting
    BY <2>1 DEF LlamaTypes
  <2> QED
    BY <2>1, <2>2 DEF StartLlamaServers, Roles
<1>2. LlamaTypes'
  BY <1>1 DEF LlamaTypes, Stages
<1>3. StartsOne'
  BY <1>1 DEF StartsOne, LlamaTypes, Current
<1>4. OneByOne'
  <2>1. \A c \in Children : c.host = h => NotYet(c)
    BY <1>1 DEF NotYet
  <2>2. \A c \in Children : c.host # h =>
            stage'[c.host] = stage[c.host] /\ starting'[c.host] = starting[c.host]
    BY <1>1, ChildIsPair DEF LlamaTypes
  <2> QED
    BY <1>1, <2>1, <2>2 DEF OneByOne, NotYet
<1>5. ListensWhereTold' /\ CollisionsKnown' /\ PollsOwn'
  <2>1. \A g \in Hosts : stage'[g] \in {"start", "poll"} =>
            stage'[g] = stage[g] /\ starting'[g] = starting[g]
    BY <1>1 DEF LlamaTypes
  <2> QED
    BY <1>1, <2>1, KnownStays DEF ListensWhereTold
<1>6. NoStrays'
  <2>1. \A c \in alive : c.host = h => FALSE
    BY <1>1 DEF OneByOne, NotYet, LlamaTypes
  <2> QED
    BY <1>1, <2>1, ChildIsPair DEF NoStrays, LlamaTypes
<1>7. CountsOnOwn'
  BY <1>1, ChildIsPair DEF CountsOnOwn, LlamaTypes
<1> QED
  BY <1>2, <1>3, <1>4, <1>5, <1>6, <1>7

LEMMA PortKeepsInv ==
    ASSUME LlamaInv, NEW h \in Hosts, NEW p \in Ports, GetFreePort(h, p)
    PROVE  LlamaInv'
<1> USE DEF LlamaInv
<1> DEFINE k == Current(h)
<1>1. /\ stage[h] = "port" /\ starting[h] \in Roles
      /\ k \in Children /\ k.host = h /\ k.role = starting[h]
      /\ stage' = [stage EXCEPT ![h] = "start"]
      /\ portOf' = [portOf EXCEPT ![k] = p]
      /\ collided \subseteq collided'
      /\ \A c \in Children : Holds(c, p) => p \in collided'
      /\ UNCHANGED <<starting, server, alive, loaded, listener, died>>
  BY CurrentIsChild DEF GetFreePort, StartsOne
<1>2. k \notin alive /\ server[h][k.role] = NoPort
  BY <1>1 DEF OneByOne, NotYet
<1>3. LlamaTypes'
  BY <1>1 DEF LlamaTypes, Stages
<1>4. StartsOne'
  <2>1. ASSUME NEW g \in Hosts, stage'[g] \in {"start", "poll"}
        PROVE  portOf'[Current(g)'] \in Ports
    <3>1. CASE g = h
      BY <1>1, <3>1 DEF LlamaTypes, Current
    <3>2. CASE g # h
      <4>1. stage[g] \in {"start", "poll"}
        BY <1>1, <2>1, <3>2 DEF LlamaTypes
      <4>2. portOf[Current(g)] \in Ports /\ Current(g)' = Current(g)
                /\ Current(g) \in Children
        BY <1>1, <4>1, CurrentIsChild DEF StartsOne, Current
      <4> QED
        BY <1>1, <4>2 DEF LlamaTypes
    <3> QED
      BY <3>1, <3>2
  <2>2. \A g \in Hosts : /\ stage'[g] = "idle" => starting'[g] = NoRole
                         /\ stage'[g] \in {"port", "start", "poll"}
                                => starting'[g] \in Roles
    BY <1>1 DEF StartsOne, LlamaTypes
  <2> QED
    BY <2>1, <2>2 DEF StartsOne
<1>5. OneByOne'
  <2>1. \A c \in Children :
            /\ NotYet(c)' => NotYet(c)
            /\ stage'[c.host] = "poll" => stage[c.host] = "poll"
    BY <1>1, ChildIsPair DEF NotYet, LlamaTypes
  <2> QED
    BY <1>1, <2>1 DEF OneByOne
<1>6. ListensWhereTold'
  BY <1>1, <1>2 DEF ListensWhereTold, LlamaTypes
<1>7. CollisionsKnown' /\ PollsOwn'
  <2>1. \A c \in Children : c # k => portOf'[c] = portOf[c]
    BY <1>1 DEF LlamaTypes
  <2>2. \A g \in Hosts : Current(g)' = Current(g)
    BY <1>1 DEF Current
  <2>3. \A c \in Children, q \in Ports : c # k /\ Holds(c, q)' => Holds(c, q)
    <3> SUFFICES ASSUME NEW c \in Children, NEW q \in Ports, c # k, Holds(c, q)'
                 PROVE  Holds(c, q)
      OBVIOUS
    <3>1. portOf[c] = q
      BY <2>1 DEF Holds
    <3>2. CASE c \in alive
      BY <3>1, <3>2 DEF Holds
    <3>3. CASE c \notin alive
      <4>1. stage'[c.host] = "start" /\ c = Current(c.host)
        BY <1>1, <2>2, <3>3, ChildIsPair DEF Holds
      <4>2. c.host # h
        BY <4>1
      <4> QED
        BY <1>1, <3>1, <4>1, <4>2, ChildIsPair DEF Holds, LlamaTypes
    <3> QED
      BY <3>2, <3>3
  <2>4. \A c \in Children, q \in Ports : c = k /\ Holds(c, q)' => q = p
    <3>1. \A c \in Children : c = k => portOf'[c] = p
      BY <1>1 DEF LlamaTypes
    <3> QED
      BY <3>1 DEF Holds
  <2>5. ASSUME NEW c \in Children, NEW d \in Children, NEW q \in Ports,
               c # d, Holds(c, q)', Holds(d, q)'
        PROVE  q \in collided'
    <3>1. CASE c # k /\ d # k
      <4>1. Holds(c, q) /\ Holds(d, q)
        BY <2>3, <2>5, <3>1
      <4>2. q \in collided
        BY <4>1, <2>5 DEF CollisionsKnown
      <4> QED
        BY <1>1, <4>2
    <3>2. CASE c = k
      <4>1. q = p /\ Holds(d, p)
        BY <2>3, <2>4, <2>5, <3>2
      <4> QED
        BY <1>1, <4>1
    <3>3. CASE d = k
      <4>1. q = p /\ Holds(c, p)
        BY <2>3, <2>4, <2>5, <3>3
      <4> QED
        BY <1>1, <4>1
    <3> QED
      BY <3>1, <3>2, <3>3
  <2>6. \A c \in alive' : portOf'[c] \in Ports
    BY <1>1, <1>2, <2>1 DEF PollsOwn, LlamaTypes
  <2>7. ASSUME NEW g \in Hosts, stage'[g] = "poll"
        PROVE  Current(g)' \in (alive \cup died)' \/ portOf'[Current(g)'] \in collided'
    <3>1. g # h /\ stage[g] = "poll"
      BY <1>1, <2>7 DEF LlamaTypes
    <3>2. Current(g) \in Children /\ Current(g) # k
      BY <1>1, <3>1, CurrentIsChild DEF StartsOne
    <3> QED
      BY <1>1, <2>1, <2>2, <3>1, <3>2 DEF PollsOwn
  <2> QED
    BY <2>5, <2>6, <2>7 DEF CollisionsKnown, PollsOwn
<1>8. NoStrays'
  BY <1>1 DEF NoStrays, LlamaTypes
<1>9. CountsOnOwn'
  <2> SUFFICES ASSUME NEW c \in Children,
                      stage'[c.host] \notin {"over", "gone"},
                      server'[c.host][c.role] # NoPort
               PROVE  /\ server'[c.host][c.role] = portOf'[c]
                      /\ \/ c \in loaded' /\ listener'[server'[c.host][c.role]] = c
                         \/ c \in died'
                         \/ server'[c.host][c.role] \in collided'
    BY DEF CountsOnOwn
  <2>1. c # k /\ portOf'[c] = portOf[c]
    BY <1>1, <1>2 DEF LlamaTypes
  <2>2. stage[c.host] \notin {"over", "gone"}
    BY <1>1 DEF LlamaTypes
  <2> QED
    BY <1>1, <2>1, <2>2 DEF CountsOnOwn
<1> QED
  BY <1>3, <1>4, <1>5, <1>6, <1>7, <1>8, <1>9

LEMMA ChildKeepsInv ==
    ASSUME LlamaInv, NEW h \in Hosts, StartChild(h)
    PROVE  LlamaInv'
<1> USE DEF LlamaInv
<1> DEFINE k == Current(h)
<1>1. /\ stage[h] = "start" /\ starting[h] \in Roles
      /\ k \in Children /\ k.host = h /\ k.role = starting[h]
      /\ stage' = [stage EXCEPT ![h] = "poll"]
      /\ alive' = alive \cup {k}
      /\ UNCHANGED <<starting, server, portOf, loaded, listener, died, collided>>
  BY CurrentIsChild DEF StartChild, StartsOne
<1>2. LlamaTypes'
  BY <1>1 DEF LlamaTypes, Stages
<1>3. StartsOne'
  BY <1>1 DEF StartsOne, LlamaTypes, Current
<1>4. OneByOne'
  <2>1. starting[h] \notin Later(starting[h])
    BY <1>1 DEF Later, Roles
  <2>2. \A c \in Children : NotYet(c)' => NotYet(c) /\ c # k
    BY <1>1, <2>1, ChildIsPair DEF NotYet, LlamaTypes
  <2>3. \A c \in Children : stage'[c.host] = "poll" /\ c.role = starting'[c.host]
            => NotYet(c) \/ (stage[c.host] = "poll" /\ c.role = starting[c.host])
    BY <1>1, ChildIsPair DEF NotYet, LlamaTypes
  <2> QED
    BY <1>1, <2>2, <2>3 DEF OneByOne
<1>5. ListensWhereTold' /\ CollisionsKnown' /\ PollsOwn'
  <2>1. \A g \in Hosts : Current(g)' = Current(g)
    BY <1>1 DEF Current
  <2>2. \A c \in Children, q \in Ports : Holds(c, q)' => Holds(c, q)
    BY <1>1, <2>1, ChildIsPair DEF Holds, LlamaTypes
  <2>3. CollisionsKnown'
    BY <1>1, <2>2 DEF CollisionsKnown
  <2>4. PollsOwn'
    BY <1>1, <2>1 DEF PollsOwn, StartsOne, LlamaTypes
  <2> QED
    BY <1>1, <2>3, <2>4 DEF ListensWhereTold
<1>6. NoStrays'
  BY <1>1, ChildIsPair DEF NoStrays, LlamaTypes
<1>7. CountsOnOwn'
  BY <1>1, ChildIsPair DEF CountsOnOwn, LlamaTypes
<1> QED
  BY <1>2, <1>3, <1>4, <1>5, <1>6, <1>7

(* What the end of one start and the beginning of the next have in common. *)
LEMMA MovesOn ==
    ASSUME LlamaInv, NEW h \in Hosts, stage[h] \in {"port", "start", "poll"},
           GoOn(h) \/ DoWithout(h), UNCHANGED portOf
    PROVE  /\ stage' \in [Hosts -> Stages]
           /\ starting' \in [Hosts -> Roles \cup {NoRole}]
           /\ stage'[h] \in {"port", "serve"}
           /\ \A g \in Hosts : g # h => /\ stage'[g] = stage[g]
                                        /\ starting'[g] = starting[g]
           /\ StartsOne'
           /\ \A c \in Children : NotYet(c)' => NotYet(c) /\ c # Current(h)
           /\ \A c \in Children :
                  stage'[c.host] = "poll" =>
                      /\ c.host # h
                      /\ stage[c.host] = "poll"
                      /\ starting'[c.host] = starting[c.host]
<1> USE DEF LlamaInv
<1>1. starting[h] \in Roles
  BY DEF StartsOne
<1>2. PICK st \in {"port", "serve"}, r \in Roles \cup {NoRole} :
          /\ stage' = [stage EXCEPT ![h] = st]
          /\ starting' = [starting EXCEPT ![h] = r]
          /\ st = "port" => r \in Roles /\ r \in Later(starting[h])
  BY <1>1, NextServer
<1>3. /\ stage' \in [Hosts -> Stages]
      /\ starting' \in [Hosts -> Roles \cup {NoRole}]
      /\ stage'[h] = st /\ starting'[h] = r
      /\ \A g \in Hosts : g # h => /\ stage'[g] = stage[g]
                                   /\ starting'[g] = starting[g]
  BY <1>2 DEF LlamaTypes, Stages
<1>4. StartsOne'
  BY <1>2, <1>3 DEF StartsOne, Current
<1>5. \A c \in Children : NotYet(c)' => NotYet(c) /\ c # Current(h)
  <2> SUFFICES ASSUME NEW c \in Children, NotYet(c)'
               PROVE  NotYet(c) /\ c # Current(h)
    OBVIOUS
  <2>1. CASE c.host = h
    <3>1. st = "port" /\ c.role \in {r} \cup Later(r)
      BY <1>3, <2>1 DEF NotYet
    <3>2. c.role \in Later(starting[h]) /\ starting[h] \notin Later(starting[h])
      BY <1>1, <1>2, <3>1, LaterIsOrder
    <3> QED
      BY <2>1, <3>2 DEF NotYet, Current
  <2>2. CASE c.host # h
    BY <1>3, <2>2, ChildIsPair DEF NotYet, Current
  <2> QED
    BY <2>1, <2>2
<1>6. \A c \in Children :
          stage'[c.host] = "poll" =>
              /\ c.host # h
              /\ stage[c.host] = "poll"
              /\ starting'[c.host] = starting[c.host]
  BY <1>3, ChildIsPair
<1> QED
  BY <1>3, <1>4, <1>5, <1>6

LEMMA HealthKeepsInv ==
    ASSUME LlamaInv, NEW h \in Hosts, HealthOK(h)
    PROVE  LlamaInv'
<1> USE DEF LlamaInv
<1> DEFINE k == Current(h)
           p == portOf[k]
<1>1. /\ stage[h] = "poll" /\ starting[h] \in Roles
      /\ k \in Children /\ k.host = h /\ k.role = starting[h]
      /\ p \in Ports
      /\ listener[p] \in loaded
      /\ server' = [server EXCEPT ![h][starting[h]] = p]
      /\ GoOn(h)
      /\ UNCHANGED <<portOf, alive, loaded, listener, died, collided>>
  BY CurrentIsChild DEF HealthOK, Answerer, StartsOne
<1>2. /\ stage' \in [Hosts -> Stages]
      /\ starting' \in [Hosts -> Roles \cup {NoRole}]
      /\ stage'[h] \in {"port", "serve"}
      /\ \A g \in Hosts : g # h => /\ stage'[g] = stage[g]
                                   /\ starting'[g] = starting[g]
      /\ StartsOne'
      /\ \A c \in Children : NotYet(c)' => NotYet(c) /\ c # k
      /\ \A c \in Children :
             stage'[c.host] = "poll" =>
                 /\ c.host # h
                 /\ stage[c.host] = "poll"
                 /\ starting'[c.host] = starting[c.host]
  BY <1>1, MovesOn
<1>3. /\ server'[h][k.role] = p
      /\ \A c \in Children : c # k =>
             server'[c.host][c.role] = server[c.host][c.role]
  BY <1>1, ChildIsPair DEF LlamaTypes
<1>4. LlamaTypes'
  BY <1>1, <1>2 DEF LlamaTypes
<1>5. OneByOne'
  BY <1>1, <1>2, <1>3 DEF OneByOne
<1>6. ListensWhereTold' /\ CollisionsKnown' /\ PollsOwn'
  <2>1. \A g \in Hosts : stage'[g] \in {"start", "poll"} =>
            stage'[g] = stage[g] /\ starting'[g] = starting[g]
    BY <1>2
  <2> QED
    BY <1>1, <2>1, KnownStays DEF ListensWhereTold
<1>7. NoStrays'
  <2>1. p # NoPort
    BY <1>1, LlamaAssumption
  <2> SUFFICES ASSUME NEW c \in alive
               PROVE  /\ stage'[c.host] # "over"
                      /\ \/ server'[c.host][c.role] # NoPort
                         \/ starting'[c.host] = c.role
    BY <1>1 DEF NoStrays
  <2>2. c \in Children
    BY DEF LlamaTypes
  <2>3. CASE c = k
    BY <1>1, <1>2, <1>3, <2>1, <2>3
  <2>4. CASE c # k /\ c.host = h
    BY <1>1, <1>2, <1>3, <2>2, <2>4, ChildIsPair DEF NoStrays
  <2>5. CASE c.host # h
    BY <1>1, <1>2, <1>3, <2>2, <2>5, ChildIsPair DEF NoStrays
  <2> QED
    BY <2>3, <2>4, <2>5
<1>8. CountsOnOwn'
  <2> SUFFICES ASSUME NEW c \in Children,
                      stage'[c.host] \notin {"over", "gone"},
                      server'[c.host][c.role] # NoPort
               PROVE  /\ server'[c.host][c.role] = portOf[c]
                      /\ \/ c \in loaded /\ listener[server'[c.host][c.role]] = c
                         \/ c \in died
                         \/ server'[c.host][c.role] \in collided
    BY <1>1 DEF CountsOnOwn
  <2>1. CASE c = k
    <3>1. server'[c.host][c.role] = p /\ p = portOf[c]
      BY <1>1, <1>3, <2>1
    <3>2. listener[p] \in Children /\ portOf[listener[p]] = p
      BY <1>1, ChildIsPair DEF LlamaTypes, ListensWhereTold
    <3>3. listener[p] \in alive /\ Holds(listener[p], p)
      BY <1>1, <3>2, ChildIsPair DEF ListensWhereTold, Holds
    <3>4. c \in alive => Holds(c, p)
      BY <3>1 DEF Holds
    <3>5. listener[p] = c \/ c \in died \/ p \in collided
      BY <1>1, <2>1, <3>2, <3>3, <3>4 DEF CollisionsKnown, PollsOwn
    <3> QED
      BY <1>1, <3>1, <3>5
  <2>2. CASE c # k
    <3>1. stage[c.host] \notin {"over", "gone"}
      BY <1>1, <1>2, ChildIsPair
    <3> QED
      BY <1>3, <2>2, <3>1 DEF CountsOnOwn
  <2> QED
    BY <2>1, <2>2
<1> QED
  BY <1>2, <1>4, <1>5, <1>6, <1>7, <1>8

(* The end of children that nobody counts on, or that a host leaves with. *)
LEMMA EndKeepsPorts ==
    ASSUME LlamaInv, NEW ended, End(ended), UNCHANGED portOf
    PROVE  /\ alive' \subseteq alive /\ alive' = alive \ ended
           /\ loaded' \subseteq Children
           /\ listener' \in [Ports -> Children \cup {Free}]
           /\ ListensWhereTold'
           /\ \A c \in Children \ ended, q \in Ports :
                  c \in loaded /\ listener[q] = c => c \in loaded' /\ listener'[q] = c
<1>1. /\ alive' = alive \ ended
      /\ loaded' = loaded \ ended
      /\ listener' = [q \in Ports |-> IF listener[q] \in ended THEN Free
                                      ELSE listener[q]]
  BY DEF End
<1>2. loaded' \subseteq Children /\ listener' \in [Ports -> Children \cup {Free}]
  BY <1>1 DEF LlamaInv, LlamaTypes
<1>3. ListensWhereTold'
  BY <1>1 DEF LlamaInv, ListensWhereTold, LlamaTypes
<1>4. \A c \in Children \ ended, q \in Ports :
          c \in loaded /\ listener[q] = c => c \in loaded' /\ listener'[q] = c
  BY <1>1
<1> QED
  BY <1>1, <1>2, <1>3, <1>4

LEMMA FailureKeepsInv ==
    ASSUME LlamaInv, NEW h \in Hosts, ServerFails(h)
    PROVE  LlamaInv'
<1> USE DEF LlamaInv
<1> DEFINE k == Current(h)
<1>1. /\ stage[h] \in {"port", "start", "poll"} /\ starting[h] \in Roles
      /\ k \in Children /\ k.host = h /\ k.role = starting[h]
      /\ End({k})
      /\ DoWithout(h)
      /\ UNCHANGED <<server, portOf, died, collided>>
  BY CurrentIsChild DEF ServerFails, StartsOne
<1>2. /\ alive' = alive \ {k}
      /\ loaded' \subseteq Children
      /\ listener' \in [Ports -> Children \cup {Free}]
      /\ ListensWhereTold'
      /\ \A c \in Children \ {k}, q \in Ports :
             c \in loaded /\ listener[q] = c => c \in loaded' /\ listener'[q] = c
  BY <1>1, EndKeepsPorts
<1>3. /\ stage' \in [Hosts -> Stages]
      /\ starting' \in [Hosts -> Roles \cup {NoRole}]
      /\ stage'[h] \in {"port", "serve"}
      /\ \A g \in Hosts : g # h => /\ stage'[g] = stage[g]
                                   /\ starting'[g] = starting[g]
      /\ StartsOne'
      /\ \A c \in Children : NotYet(c)' => NotYet(c) /\ c # k
      /\ \A c \in Children :
             stage'[c.host] = "poll" =>
                 /\ c.host # h
                 /\ stage[c.host] = "poll"
                 /\ starting'[c.host] = starting[c.host]
  BY <1>1, MovesOn
<1>9. CollisionsKnown' /\ PollsOwn'
  <2>1. \A g \in Hosts : stage'[g] \in {"start", "poll"} =>
            stage'[g] = stage[g] /\ starting'[g] = starting[g] /\ g # h
    BY <1>3
  <2>2. \A g \in Hosts : g # h => Current(g) # k
    BY <1>1 DEF Current
  <2> QED
    BY <1>1, <1>2, <2>1, <2>2, KnownStays
<1>4. server[h][k.role] = NoPort
  BY <1>1 DEF OneByOne, NotYet
<1>5. LlamaTypes'
  BY <1>1, <1>2, <1>3 DEF LlamaTypes
<1>6. OneByOne'
  BY <1>1, <1>2, <1>3 DEF OneByOne
<1>7. NoStrays'
  <2> SUFFICES ASSUME NEW c \in alive'
               PROVE  /\ stage'[c.host] # "over"
                      /\ \/ server[c.host][c.role] # NoPort
                         \/ starting'[c.host] = c.role
    BY <1>1 DEF NoStrays
  <2>1. c \in alive /\ c \in Children /\ c # k
    BY <1>2 DEF LlamaTypes
  <2>2. CASE c.host = h
    BY <1>1, <1>3, <2>1, <2>2, ChildIsPair DEF NoStrays
  <2>3. CASE c.host # h
    BY <1>3, <2>1, <2>3, ChildIsPair DEF NoStrays
  <2> QED
    BY <2>2, <2>3
<1>8. CountsOnOwn'
  <2> SUFFICES ASSUME NEW c \in Children,
                      stage'[c.host] \notin {"over", "gone"},
                      server[c.host][c.role] # NoPort
               PROVE  /\ server[c.host][c.role] = portOf[c]
                      /\ \/ c \in loaded' /\ listener'[server[c.host][c.role]] = c
                         \/ c \in died
                         \/ server[c.host][c.role] \in collided
    BY <1>1 DEF CountsOnOwn
  <2>1. c # k
    BY <1>1, <1>4
  <2>2. stage[c.host] \notin {"over", "gone"}
    BY <1>1, <1>3, ChildIsPair
  <2>3. server[c.host][c.role] \in Ports
    BY ChildIsPair DEF LlamaTypes
  <2> QED
    BY <1>2, <2>1, <2>2, <2>3 DEF CountsOnOwn
<1> QED
  BY <1>2, <1>3, <1>5, <1>6, <1>7, <1>8, <1>9

LEMMA StopKeepsInv ==
    ASSUME LlamaInv, NEW h \in Hosts, StopLlamaServers(h)
    PROVE  LlamaInv'
<1> USE DEF LlamaInv
<1>1. /\ End(ChildrenOf(h))
      /\ stage[h] = "serve"
      /\ stage' = [stage EXCEPT ![h] = "over"]
      /\ UNCHANGED <<starting, server, portOf, died, collided>>
  BY DEF StopLlamaServers
<1>2. \A c \in Children : c \in ChildrenOf(h) <=> c.host = h
  BY DEF Children, ChildrenOf
<1>3. /\ alive' = alive \ ChildrenOf(h)
      /\ loaded' \subseteq Children
      /\ listener' \in [Ports -> Children \cup {Free}]
      /\ ListensWhereTold'
      /\ \A c \in Children \ ChildrenOf(h), q \in Ports :
             c \in loaded /\ listener[q] = c => c \in loaded' /\ listener'[q] = c
  BY <1>1, EndKeepsPorts
<1>4. /\ stage'[h] = "over"
      /\ \A g \in Hosts : g # h => stage'[g] = stage[g]
  BY <1>1 DEF LlamaTypes
<1>10. CollisionsKnown' /\ PollsOwn'
  <2>1. \A g \in Hosts : stage'[g] \in {"start", "poll"} =>
            stage'[g] = stage[g] /\ starting'[g] = starting[g] /\ g # h
    BY <1>1, <1>4
  <2>2. \A g \in Hosts : g # h => Current(g) \notin ChildrenOf(h)
    BY DEF Current, ChildrenOf
  <2> QED
    BY <1>1, <1>3, <2>1, <2>2, KnownStays
<1>5. LlamaTypes'
  BY <1>1, <1>3 DEF LlamaTypes, Stages
<1>6. StartsOne'
  BY <1>1, <1>4 DEF StartsOne, Current
<1>7. OneByOne'
  <2>1. \A c \in Children :
            /\ NotYet(c)' => NotYet(c)
            /\ stage'[c.host] = "poll" => stage[c.host] = "poll"
    BY <1>1, <1>4, ChildIsPair DEF NotYet
  <2> QED
    BY <1>1, <1>3, <2>1 DEF OneByOne
<1>8. NoStrays'
  BY <1>1, <1>2, <1>3, <1>4, ChildIsPair DEF NoStrays, LlamaTypes
<1>9. CountsOnOwn'
  <2> SUFFICES ASSUME NEW c \in Children,
                      stage'[c.host] \notin {"over", "gone"},
                      server[c.host][c.role] # NoPort
               PROVE  /\ server[c.host][c.role] = portOf[c]
                      /\ \/ c \in loaded' /\ listener'[server[c.host][c.role]] = c
                         \/ c \in died
                         \/ server[c.host][c.role] \in collided
    BY <1>1 DEF CountsOnOwn
  <2>1. c \notin ChildrenOf(h) /\ stage[c.host] \notin {"over", "gone"}
    BY <1>2, <1>4, ChildIsPair
  <2>2. server[c.host][c.role] \in Ports
    BY ChildIsPair DEF LlamaTypes
  <2> QED
    BY <1>3, <2>1, <2>2 DEF CountsOnOwn
<1> QED
  BY <1>3, <1>5, <1>6, <1>7, <1>8, <1>9, <1>10

LEMMA ExitKeepsInv ==
    ASSUME LlamaInv, NEW h \in Hosts, HostExits(h)
    PROVE  LlamaInv'
<1> USE DEF LlamaInv
<1>1. /\ stage' = [stage EXCEPT ![h] = "gone"]
      /\ UNCHANGED <<starting, server, portOf, alive, loaded, listener, died,
                     collided>>
  BY DEF HostExits
<1>2. /\ stage'[h] = "gone"
      /\ \A g \in Hosts : g # h => stage'[g] = stage[g]
  BY <1>1 DEF LlamaTypes
<1>3. LlamaTypes'
  BY <1>1 DEF LlamaTypes, Stages
<1>4. StartsOne'
  BY <1>1, <1>2 DEF StartsOne, Current
<1>5. OneByOne'
  <2>1. \A c \in Children :
            /\ NotYet(c)' => NotYet(c)
            /\ stage'[c.host] = "poll" => stage[c.host] = "poll"
    BY <1>1, <1>2, ChildIsPair DEF NotYet
  <2> QED
    BY <1>1, <2>1 DEF OneByOne
<1>6. ListensWhereTold' /\ CollisionsKnown' /\ PollsOwn'
  <2>1. \A g \in Hosts : stage'[g] \in {"start", "poll"} =>
            stage'[g] = stage[g] /\ starting'[g] = starting[g]
    BY <1>1, <1>2
  <2> QED
    BY <1>1, <2>1, KnownStays DEF ListensWhereTold
<1>7. NoStrays'
  BY <1>1, <1>2, ChildIsPair DEF NoStrays, LlamaTypes
<1>8. CountsOnOwn'
  BY <1>1, <1>2, ChildIsPair DEF CountsOnOwn
<1> QED
  BY <1>3, <1>4, <1>5, <1>6, <1>7, <1>8

-----------------------------------------------------------------------------
(* Steps of the children. *)

(* Children change no host, and so only what is said of listeners and of what a
   host counts on is at stake. *)
LEMMA ChildStep ==
    ASSUME LlamaInv, UNCHANGED <<stage, starting, server, portOf, collided>>,
           alive' \subseteq alive, died \subseteq died',
           \A c \in alive \ alive' : c \in died' \/ portOf[c] \in collided,
           loaded' \subseteq Children,
           listener' \in [Ports -> Children \cup {Free}],
           ListensWhereTold', CountsOnOwn'
    PROVE  LlamaInv'
<1> USE DEF LlamaInv
<1>1. LlamaTypes'
  BY DEF LlamaTypes
<1>2. StartsOne'
  BY DEF StartsOne, Current
<1>3. OneByOne'
  BY DEF OneByOne, NotYet
<1>4. CollisionsKnown' /\ PollsOwn'
  BY KnownStays
<1>5. NoStrays'
  BY DEF NoStrays
<1> QED
  BY <1>1, <1>2, <1>3, <1>4, <1>5

LEMMA ListenKeepsInv ==
    ASSUME LlamaInv, NEW c \in Children, Listen(c)
    PROVE  LlamaInv'
<1> USE DEF LlamaInv
<1>1. /\ c \in alive /\ ~Listens(c)
      /\ UNCHANGED <<stage, starting, server, portOf, died, collided>>
  BY DEF Listen
<1>2. CASE /\ listener[portOf[c]] = Free
           /\ listener' = [listener EXCEPT ![portOf[c]] = c]
           /\ UNCHANGED <<alive, loaded, hung>>
  <2>1. \A q \in Ports : listener'[q] = listener[q]
                            \/ /\ listener[q] = Free /\ listener'[q] = c
                               /\ portOf[c] = q
    BY <1>2 DEF LlamaTypes
  <2>2. listener' \in [Ports -> Children \cup {Free}]
    BY <1>2 DEF LlamaTypes
  <2>3. ListensWhereTold'
    BY <1>1, <1>2, <2>1 DEF ListensWhereTold
  <2>4. CountsOnOwn'
    BY <1>1, <1>2, <2>1, ChildIsPair DEF CountsOnOwn, LlamaTypes
  <2>5. loaded' \subseteq Children
    BY <1>2 DEF LlamaTypes
  <2> QED
    BY <1>1, <1>2, <2>2, <2>3, <2>4, <2>5, ChildStep
<1>3. CASE listener[portOf[c]] # Free /\ End({c})
  <2>4. \A d \in alive \ alive' : d \in died' \/ portOf[d] \in collided
    <3> DEFINE q == portOf[c]
    <3>1. q \in Ports /\ listener[q] # Free /\ listener[q] # c
      BY <1>1, <1>3 DEF PollsOwn, Listens
    <3>2. listener[q] \in alive /\ portOf[listener[q]] = q /\ listener[q] \in Children
      BY <3>1 DEF ListensWhereTold, LlamaTypes
    <3>3. q \in collided
      BY <1>1, <3>1, <3>2 DEF CollisionsKnown, Holds
    <3>4. \A d \in alive \ alive' : d = c
      BY <1>3 DEF End
    <3> QED
      BY <3>3, <3>4
  <2>1. /\ alive' \subseteq alive
        /\ loaded' \subseteq Children
        /\ listener' \in [Ports -> Children \cup {Free}]
        /\ ListensWhereTold'
        /\ \A d \in Children \ {c}, q \in Ports :
               d \in loaded /\ listener[q] = d => d \in loaded' /\ listener'[q] = d
    BY <1>1, <1>3, EndKeepsPorts
  <2>2. \A d \in Children, q \in Ports : listener[q] = d => d # c
    BY <1>1 DEF Listens
  <2>3. CountsOnOwn'
    BY <1>1, <2>1, <2>2, ChildIsPair DEF CountsOnOwn, LlamaTypes
  <2> QED
    BY <1>1, <2>1, <2>3, <2>4, ChildStep
<1> QED
  BY <1>2, <1>3 DEF Listen

LEMMA LoadKeepsInv ==
    ASSUME LlamaInv, NEW c \in Children, LoadModel(c) \/ ChildHangs(c)
    PROVE  LlamaInv'
<1> USE DEF LlamaInv
<1>1. /\ loaded \subseteq loaded' /\ loaded' \subseteq Children
      /\ UNCHANGED <<stage, starting, server, portOf, alive, listener, died,
                     collided>>
  BY DEF LoadModel, ChildHangs, LlamaTypes
<1>2. ListensWhereTold' /\ listener' \in [Ports -> Children \cup {Free}]
  BY <1>1 DEF ListensWhereTold, LlamaTypes
<1>3. CountsOnOwn'
  BY <1>1 DEF CountsOnOwn
<1> QED
  BY <1>1, <1>2, <1>3, ChildStep

LEMMA DeathKeepsInv ==
    ASSUME LlamaInv, NEW c \in Children, ChildDies(c)
    PROVE  LlamaInv'
<1> USE DEF LlamaInv
<1>1. /\ End({c})
      /\ died' = died \cup {c}
      /\ UNCHANGED <<stage, starting, server, portOf, collided>>
  BY DEF ChildDies
<1>2. /\ alive' \subseteq alive /\ alive' = alive \ {c}
      /\ loaded' \subseteq Children
      /\ listener' \in [Ports -> Children \cup {Free}]
      /\ ListensWhereTold'
      /\ \A d \in Children \ {c}, q \in Ports :
             d \in loaded /\ listener[q] = d => d \in loaded' /\ listener'[q] = d
  BY <1>1, EndKeepsPorts
<1>3. CountsOnOwn'
  BY <1>1, <1>2, ChildIsPair DEF CountsOnOwn, LlamaTypes
<1> QED
  BY <1>1, <1>2, <1>3, ChildStep

-----------------------------------------------------------------------------
LEMMA LlamaInitially == LlamaInit => LlamaInv
<1> SUFFICES ASSUME LlamaInit PROVE LlamaInv
  OBVIOUS
<1>1. LlamaTypes
  BY DEF LlamaInit, LlamaTypes, Stages
<1>2. StartsOne /\ OneByOne
  BY ChildIsPair DEF LlamaInit, StartsOne, OneByOne
<1>3. ListensWhereTold /\ CollisionsKnown /\ PollsOwn /\ NoStrays
  BY ChildIsPair, LlamaAssumption
     DEF LlamaInit, ListensWhereTold, CollisionsKnown, PollsOwn, Holds, NoStrays
<1>4. CountsOnOwn
  BY ChildIsPair DEF LlamaInit, CountsOnOwn
<1> QED
  BY <1>1, <1>2, <1>3, <1>4 DEF LlamaInv

LEMMA LlamaStep == LlamaInv /\ [LlamaNext]_llamaVars => LlamaInv'
<1> SUFFICES ASSUME LlamaInv, [LlamaNext]_llamaVars PROVE LlamaInv'
  OBVIOUS
<1>1. ASSUME NEW h \in Hosts, StartLlamaServers(h) PROVE LlamaInv'
  BY <1>1, StartKeepsInv
<1>2. ASSUME NEW h \in Hosts, HostStep(h) PROVE LlamaInv'
  BY <1>2, PortKeepsInv, ChildKeepsInv, HealthKeepsInv, FailureKeepsInv
     DEF HostStep
<1>3. ASSUME NEW h \in Hosts, StopLlamaServers(h) \/ HostExits(h) PROVE LlamaInv'
  BY <1>3, StopKeepsInv, ExitKeepsInv
<1>4. ASSUME NEW c \in Children,
             Listen(c) \/ LoadModel(c) \/ ChildHangs(c) \/ ChildDies(c)
      PROVE  LlamaInv'
  BY <1>4, ListenKeepsInv, LoadKeepsInv, DeathKeepsInv
<1>5. CASE UNCHANGED llamaVars
  <2> USE <1>5 DEF llamaVars
  <2>1. LlamaTypes'
    BY DEF LlamaInv, LlamaTypes
  <2>2. StartsOne' /\ OneByOne' /\ NoStrays'
    BY DEF LlamaInv, StartsOne, Current, OneByOne, NotYet, NoStrays
  <2>3. ListensWhereTold' /\ CollisionsKnown' /\ PollsOwn' /\ CountsOnOwn'
    BY DEF LlamaInv, ListensWhereTold, CollisionsKnown, Holds, Current, PollsOwn,
           CountsOnOwn
  <2> QED
    BY <2>1, <2>2, <2>3 DEF LlamaInv
<1> QED
  BY <1>1, <1>2, <1>3, <1>4, <1>5 DEF LlamaNext

(* Every child that runs is one that its host counts on or is starting, unless
   the host has ended without its deferred calls.  (embed.go, llamasrv.go.) *)
THEOREM NoChildStrays == LlamaSpec => []NoStrays
<1>1. LlamaInv => NoStrays
  BY DEF LlamaInv
<1> QED
  BY <1>1, LlamaInitially, LlamaStep, PTL DEF LlamaSpec

(* However many processes look for ports at the same time, a server that one
   counts on is its own, unless the port was given out twice or the child has
   ended.  (embed.go:33-44, 151-171.) *)
THEOREM ServersAreOwn == LlamaSpec => []ServerIsOwn
<1>1. LlamaInv => ServerIsOwn
  <2> SUFFICES ASSUME LlamaInv, NEW h \in Hosts, NEW r \in Roles,
                      stage[h] = "serve", server[h][r] # NoPort
               PROVE  \/ /\ [host |-> h, role |-> r] \in loaded
                         /\ listener[server[h][r]] = [host |-> h, role |-> r]
                      \/ [host |-> h, role |-> r] \in died
                      \/ server[h][r] \in collided
    BY DEF ServerIsOwn
  <2>1. [host |-> h, role |-> r] \in Children
    BY ChildIsPair
  <2> QED
    BY <2>1 DEF LlamaInv, CountsOnOwn
<1> QED
  BY <1>1, LlamaInitially, LlamaStep, PTL DEF LlamaSpec
=============================================================================
