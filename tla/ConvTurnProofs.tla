--------------------------- MODULE ConvTurnProofs ---------------------------
(***************************************************************************)
(* Theorems about ConvTurn, for every set of handlers, every number of     *)
(* prompts and turns, every choice of client operations, and with or       *)
(* without connection failures; the last three are about one client, which *)
(* their statements describe.                                              *)
(***************************************************************************)
EXTENDS ConvTurn, FiniteSetTheorems, SequenceTheorems, TLAPS

(* What is left of a sequence when one entry is taken out: its entries are
   old ones, at most one new position per old position. *)
LEMMA RemoveAtProperties ==
    ASSUME NEW S, NEW s \in Seq(S), NEW i \in 1 .. Len(s)
    PROVE  /\ RemoveAt(s, i) \in Seq(S)
           /\ Len(RemoveAt(s, i)) = Len(s) - 1
           /\ \A j \in 1 .. Len(s) - 1 :
                 RemoveAt(s, i)[j] = IF j < i THEN s[j] ELSE s[j + 1]
<1> DEFINE a == SubSeq(s, 1, i - 1)
           b == SubSeq(s, i + 1, Len(s))
<1>1. Len(s) \in Nat /\ \A j \in 1 .. Len(s) : s[j] \in S
  BY LenProperties, ElementOfSeq
<1>2. /\ a \in Seq(S)
      /\ Len(a) = i - 1
      /\ \A j \in 1 .. i - 1 : a[j] = s[j]
  <2>1. \A j \in 1 .. i - 1 : s[j] \in S
    BY <1>1
  <2>2. /\ a \in Seq(S)
        /\ Len(a) = IF 1 <= i - 1 THEN (i - 1) - 1 + 1 ELSE 0
        /\ \A j \in 1 .. (i - 1) - 1 + 1 : a[j] = s[1 + j - 1]
    BY <1>1, <2>1, SubSeqProperties
  <2>3. QED
    BY <1>1, <2>2
<1>3. /\ b \in Seq(S)
      /\ Len(b) = Len(s) - i
      /\ \A j \in 1 .. Len(s) - i : b[j] = s[i + j]
  <2>1. \A j \in i + 1 .. Len(s) : s[j] \in S
    BY <1>1
  <2>2. /\ b \in Seq(S)
        /\ Len(b) = IF i + 1 <= Len(s) THEN Len(s) - (i + 1) + 1 ELSE 0
        /\ \A j \in 1 .. Len(s) - (i + 1) + 1 : b[j] = s[(i + 1) + j - 1]
    BY <1>1, <2>1, SubSeqProperties
  <2>3. QED
    BY <1>1, <2>2
<1>4. /\ a \o b \in Seq(S)
      /\ Len(a \o b) = Len(a) + Len(b)
      /\ \A j \in 1 .. Len(a) + Len(b) :
            (a \o b)[j] = IF j <= Len(a) THEN a[j] ELSE b[j - Len(a)]
  BY <1>2, <1>3, ConcatProperties
<1>5. RemoveAt(s, i) = a \o b
  BY DEF RemoveAt
<1> HIDE DEF a, b
<1>6. ASSUME NEW j \in 1 .. Len(s) - 1
      PROVE  (a \o b)[j] = IF j < i THEN s[j] ELSE s[j + 1]
  <2>1. CASE j < i
    BY <1>1, <1>2, <1>3, <1>4, <2>1
  <2>2. CASE ~(j < i)
    <3>1. j - (i - 1) \in 1 .. Len(s) - i /\ i + (j - (i - 1)) = j + 1
      BY <1>1, <2>2
    <3>2. (a \o b)[j] = b[j - (i - 1)]
      BY <1>1, <1>2, <1>3, <1>4, <2>2
    <3>3. b[j - (i - 1)] = s[i + (j - (i - 1))]
      BY <1>3, <3>1
    <3>4. QED
      BY <2>2, <3>1, <3>2, <3>3
  <2>3. QED
    BY <2>1, <2>2
<1>7. Len(a \o b) = Len(s) - 1
  BY <1>1, <1>2, <1>3, <1>4
<1>8. QED
  BY <1>4, <1>5, <1>6, <1>7

LEMMA FrontProperties ==
    ASSUME NEW S, NEW s \in Seq(S), s # <<>>
    PROVE  Front(s) \in Seq(S)
<1>1. Len(s) \in Nat \ {0} /\ \A j \in 1 .. Len(s) : s[j] \in S
  BY LenProperties, ElementOfSeq, EmptySeq
<1>2. \A j \in 1 .. Len(s) - 1 : s[j] \in S
  BY <1>1
<1>3. SubSeq(s, 1, Len(s) - 1) \in Seq(S)
  BY <1>1, <1>2, SubSeqProperties
<1>4. QED
  BY <1>3 DEF Front

-----------------------------------------------------------------------------
(* The steps, named once: what a proof by cases on Next has to treat. *)
LEMMA StepCases ==
    ASSUME Next
    PROVE  \/ \E h \in Handlers : ClientRequest(h)
           \/ \E h \in Handlers : HandlerStep(h)
           \/ \E t \in Turns : TurnStep(t)
           \/ ConnectElsewhere \/ AgentDies
BY DEF Next

-----------------------------------------------------------------------------
(* Every variable keeps its type: no index, prompt or turn number leaves the
   range the code could produce. *)
THEOREM TypeCorrect == Spec => []TypeOK
<1> USE ConvTurnAssumption DEF Prompts, Turns, OldPrompt, NoPrompt, NoTurn
<1>1. Init => TypeOK
  <2> SUFFICES ASSUME Init PROVE TypeOK
    OBVIOUS
  <2>1. messages \in Seq(Prompts \cup {OldPrompt})
    <3>1. <<>> \in Seq(Prompts \cup {OldPrompt}) /\ OldPrompt \in Prompts \cup {OldPrompt}
      BY EmptySeq
    <3>2. <<OldPrompt>> \in Seq(Prompts \cup {OldPrompt})
      BY <3>1
    <3>3. QED
      BY <3>1, <3>2 DEF Init
  <2>2. queue \in Seq(Prompts)
    BY EmptySeq DEF Init
  <2>3. /\ hpc \in [Handlers -> HandlerPC]
        /\ hprompt \in [Handlers -> Prompts \cup {NoPrompt}]
        /\ tpc \in [Turns -> TurnPC]
        /\ tprompt \in [Turns -> Prompts \cup {NoPrompt}]
        /\ tnext \in [Turns -> Prompts \cup {NoPrompt}]
    BY DEF Init, HandlerPC, TurnPC
  <2>4. /\ exists \in BOOLEAN /\ running \in BOOLEAN /\ agent \in {"none", "up", "dead"}
        /\ session \in {"none", "stale", "live"}
    BY DEF Init
  <2>5. /\ promptCancel \in Turns \cup {NoTurn} /\ tcancelled \subseteq Turns
        /\ spawned \in 0 .. MaxTurns /\ arrived \in 0 .. MaxPrompts
    BY DEF Init
  <2>6. QED
    BY <2>1, <2>2, <2>3, <2>4, <2>5 DEF TypeOK
<1>2. TypeOK /\ [Next]_vars => TypeOK'
  <2> SUFFICES ASSUME TypeOK, [Next]_vars PROVE TypeOK'
    OBVIOUS
  <2>1. ASSUME NEW h \in Handlers, ClientRequest(h) PROVE TypeOK'
    <3>1. CASE ConvInit(h)
      BY <3>1 DEF TypeOK, HandlerPC, ConvInit, ArriveWithPrompt, Arrive, conv, tvars
    <3>2. CASE ConvPrompt(h)
      BY <3>2 DEF TypeOK, HandlerPC, ConvPrompt, ArriveWithPrompt, Arrive, conv, tvars
    <3>3. CASE ConvEnqueue(h)
      <4>1. arrived + 1 \in Prompts /\ arrived' \in 0 .. MaxPrompts
        BY <3>3 DEF TypeOK, ConvEnqueue
      <4>2. queue' \in Seq(Prompts)
        BY <3>3, <4>1, AppendProperties DEF TypeOK, ConvEnqueue
      <4>3. QED
        BY <3>3, <4>1, <4>2 DEF TypeOK, ConvEnqueue, hvars, tvars
    <3>4. CASE ConvQueueDelete(h)
      <4>1. queue' \in Seq(Prompts)
        BY <3>4, RemoveAtProperties DEF TypeOK, ConvQueueDelete
      <4>2. QED
        BY <3>4, <4>1 DEF TypeOK, ConvQueueDelete, hvars, tvars
    <3>5. CASE ConvCancel(h)
      BY <3>5 DEF TypeOK, HandlerPC, ConvCancel, Arrive, conv, tvars
    <3>6. CASE ConvUndo(h)
      <4>1. messages' \in Seq(Prompts \cup {OldPrompt})
        BY <3>6, FrontProperties DEF TypeOK, ConvUndo
      <4>2. QED
        BY <3>6, <4>1 DEF TypeOK, ConvUndo, hvars, tvars
    <3>7. CASE ConvDelete(h)
      BY <3>7 DEF TypeOK, ConvDelete, hvars, tvars
    <3>8. QED
      BY <2>1, <3>1, <3>2, <3>3, <3>4, <3>5, <3>6, <3>7 DEF ClientRequest
  <2>2. ASSUME NEW h \in Handlers, HandlerStep(h) PROVE TypeOK'
    <3>1. CASE InitConnect(h)
      BY <3>1 DEF TypeOK, HandlerPC, InitConnect, EnsureConnected, conv, tvars
    <3>2. CASE InitNewSession(h)
      BY <3>2 DEF TypeOK, HandlerPC, InitNewSession, tvars
    <3>3. CASE InitFails(h)
      BY <3>3 DEF TypeOK, HandlerPC, InitFails, Answer, conv, tvars
    <3>4. CASE PromptCheckRunning(h)
      BY <3>4 DEF TypeOK, HandlerPC, PromptCheckRunning, Answer, conv, tvars
    <3>5. CASE ManualToolCallsFail(h)
      BY <3>5 DEF TypeOK, HandlerPC, ManualToolCallsFail, Answer, conv, tvars
    <3>6. CASE AppendUserMessage(h)
      <4>1. messages' \in Seq(Prompts \cup {OldPrompt})
        BY <3>6, AppendProperties DEF TypeOK, AppendUserMessage
      <4>2. QED
        BY <3>6, <4>1 DEF TypeOK, HandlerPC, AppendUserMessage, tvars
    <3>7. CASE ArmRunning(h)
      BY <3>7 DEF TypeOK, HandlerPC, ArmRunning, SetConvRunning, tvars
    <3>8. CASE SpawnTurn(h)
      BY <3>8 DEF TypeOK, HandlerPC, TurnPC, SpawnTurn, StartTurn, Answer, conv
    <3>9. CASE CancelContext(h)
      BY <3>9 DEF TypeOK, HandlerPC, CancelContext
    <3>10. CASE CancelClearRunning(h)
      BY <3>10 DEF TypeOK, HandlerPC, CancelClearRunning, SetConvRunning, Answer, tvars
    <3>11. QED
      BY <2>2, <3>1, <3>2, <3>3, <3>4, <3>5, <3>6, <3>7, <3>8, <3>9, <3>10 DEF HandlerStep
  <2>3. ASSUME NEW t \in Turns, TurnStep(t) PROVE TypeOK'
    <3>1. CASE TurnLookup(t)
      BY <3>1 DEF TypeOK, TurnPC, TurnLookup, Goto, conv, hvars
    <3>2. CASE TurnCheckConn(t)
      BY <3>2 DEF TypeOK, TurnPC, TurnCheckConn, Goto, conv, hvars
    <3>3. CASE TurnConnect(t)
      BY <3>3 DEF TypeOK, TurnPC, TurnConnect, EnsureConnected, Goto, conv, hvars
    <3>4. CASE TurnNewSession(t)
      BY <3>4 DEF TypeOK, TurnPC, TurnNewSession, Goto, hvars
    <3>5. CASE TurnConnectFails(t)
      BY <3>5 DEF TypeOK, TurnPC, TurnConnectFails, Goto, conv, hvars
    <3>6. CASE TurnAbort(t)
      BY <3>6 DEF TypeOK, TurnPC, TurnAbort, SetConvRunning, Goto, hvars
    <3>7. CASE TurnStoreCancel(t)
      BY <3>7 DEF TypeOK, TurnPC, TurnStoreCancel, Goto, hvars
    <3>8. CASE PromptReturns(t)
      BY <3>8 DEF TypeOK, TurnPC, PromptReturns, Goto, conv, hvars
    <3>9. CASE TurnFinish(t)
      BY <3>9 DEF TypeOK, TurnPC, TurnFinish, SetConvRunning, Goto, hvars
    <3>10. CASE DequeuePrompt(t)
      <4>1. queue # <<>> => Head(queue) \in Prompts /\ Tail(queue) \in Seq(Prompts)
        BY HeadTailProperties DEF TypeOK
      <4>2. QED
        BY <3>10, <4>1 DEF TypeOK, TurnPC, DequeuePrompt, Goto, hvars
    <3>11. CASE HandOffAppend(t)
      <4>1. Append(messages, tnext[t]) \in Seq(Prompts \cup {OldPrompt})
        BY AppendProperties DEF TypeOK
      <4>2. messages' \in Seq(Prompts \cup {OldPrompt})
        BY <3>11, <4>1 DEF TypeOK, HandOffAppend
      <4>3. QED
        BY <3>11, <4>2 DEF TypeOK, TurnPC, HandOffAppend, Goto, hvars
    <3>12. CASE HandOffArm(t)
      BY <3>12 DEF TypeOK, TurnPC, HandOffArm, SetConvRunning, Goto, hvars
    <3>13. CASE HandOffSpawn(t)
      <4>1. tpc' \in [Turns -> TurnPC]
        BY <3>13 DEF TypeOK, TurnPC, HandOffSpawn, StartTurn
      <4>2. /\ tprompt' \in [Turns -> Prompts \cup {NoPrompt}]
            /\ tnext' \in [Turns -> Prompts \cup {NoPrompt}]
            /\ spawned' \in 0 .. MaxTurns
        BY <3>13 DEF TypeOK, HandOffSpawn, StartTurn
      <4>3. QED
        BY <3>13, <4>1, <4>2 DEF TypeOK, HandOffSpawn, conv, hvars
    <3>14. CASE TurnCleanup(t)
      BY <3>14 DEF TypeOK, TurnPC, TurnCleanup, Goto, hvars
    <3>15. QED
      BY <2>3, <3>1, <3>2, <3>3, <3>4, <3>5, <3>6, <3>7, <3>8, <3>9, <3>10,
         <3>11, <3>12, <3>13, <3>14 DEF TurnStep
  <2>4. CASE ConnectElsewhere \/ AgentDies
    BY <2>4 DEF TypeOK, ConnectElsewhere, AgentDies, EnsureConnected, conv, hvars, tvars
  <2>5. CASE UNCHANGED vars
    BY <2>5 DEF TypeOK, vars, conv, hvars, tvars
  <2>6. QED
    BY <2>1, <2>2, <2>3, <2>4, <2>5, StepCases
<1>3. QED
  BY <1>1, <1>2, PTL DEF Spec

-----------------------------------------------------------------------------
(* A conversation marked running always has a goroutine that will clear the
   mark: the mark cannot be left behind.  The invariant is inductive as it
   stands: the mark is set by a goroutine that is about to start a turn, the
   turn inherits it, and every way out of a turn clears it, except the return
   on a missing conversation. *)
THEOREM RunningOwned == Spec => []RunningHasOwner
<1> USE DEF Turns, NoPrompt, NoTurn
<1> DEFINE Owned == \/ \E t \in Turns : tpc[t] \in Busy \cup {"spawn"}
                    \/ \E h \in Handlers : hpc[h] = "spawn"
<1>1. RunningHasOwner <=> (exists /\ running => Owned)
  BY DEF RunningHasOwner, BusyTurns
<1>2. RunningHasOwner' <=> (exists' /\ running' => Owned')
  BY DEF RunningHasOwner, BusyTurns
<1>3. Init => RunningHasOwner
  BY DEF Init, RunningHasOwner
<1>4. TypeOK /\ RunningHasOwner /\ [Next]_vars => RunningHasOwner'
  <2> SUFFICES ASSUME TypeOK, exists /\ running => Owned, [Next]_vars,
                      exists', running'
               PROVE  Owned'
    BY <1>1, <1>2
  <2> USE DEF TypeOK
  <2>1. ASSUME NEW h \in Handlers, ClientRequest(h) PROVE Owned'
    <3>1. exists /\ running /\ UNCHANGED tpc
      BY <2>1 DEF ClientRequest, ConvInit, ConvPrompt, ConvEnqueue, ConvQueueDelete,
                  ConvCancel, ConvUndo, ConvDelete, ArriveWithPrompt, Arrive, conv, tvars
    <3>2. ASSUME NEW g \in Handlers, hpc[g] = "spawn" PROVE hpc'[g] = "spawn"
      BY <2>1, <3>2 DEF ClientRequest, ConvInit, ConvPrompt, ConvEnqueue, ConvQueueDelete,
                  ConvCancel, ConvUndo, ConvDelete, ArriveWithPrompt, Arrive, hvars
    <3>3. QED
      BY <3>1, <3>2
  <2>2. ASSUME NEW h \in Handlers, HandlerStep(h) PROVE Owned'
    <3>1. CASE SpawnTurn(h)
      <4>1. spawned + 1 \in Turns /\ tpc'[spawned + 1] = "lookup"
        BY <3>1, ConvTurnAssumption DEF SpawnTurn, StartTurn
      <4>2. QED
        BY <4>1 DEF Busy
    <3>2. CASE ArmRunning(h)
      BY <3>2 DEF ArmRunning
    <3>3. CASE CancelClearRunning(h)
      BY <3>3 DEF CancelClearRunning, SetConvRunning
    <3>4. CASE ~SpawnTurn(h) /\ ~ArmRunning(h) /\ ~CancelClearRunning(h)
      <4>1. exists /\ running /\ UNCHANGED tpc
        BY <2>2, <3>4 DEF HandlerStep, InitConnect, InitNewSession, InitFails,
              PromptCheckRunning, ManualToolCallsFail, AppendUserMessage,
              CancelContext, conv, tvars
      <4>2. ASSUME NEW g \in Handlers, hpc[g] = "spawn" PROVE hpc'[g] = "spawn"
        BY <2>2, <3>4, <4>2 DEF HandlerStep, InitConnect, InitNewSession, InitFails,
              PromptCheckRunning, ManualToolCallsFail, AppendUserMessage,
              CancelContext, Answer
      <4>3. QED
        BY <4>1, <4>2
    <3>5. QED
      BY <3>1, <3>2, <3>3, <3>4
  <2>3. ASSUME NEW t \in Turns, TurnStep(t) PROVE Owned'
    <3>1. CASE HandOffSpawn(t)
      <4>1. spawned + 1 \in Turns /\ tpc'[spawned + 1] = "lookup"
        BY <3>1, ConvTurnAssumption DEF HandOffSpawn, StartTurn
      <4>2. QED
        BY <4>1 DEF Busy
    <3>2. CASE HandOffArm(t)
      BY <3>2 DEF HandOffArm, Goto
    <3>3. CASE TurnAbort(t) \/ TurnFinish(t)
      BY <3>3 DEF TurnAbort, TurnFinish, SetConvRunning
    <3>4. CASE TurnLookup(t) \/ TurnCheckConn(t) \/ TurnConnect(t) \/ TurnNewSession(t)
                  \/ TurnConnectFails(t) \/ TurnStoreCancel(t) \/ PromptReturns(t)
      <4>1. tpc'[t] \in Busy
        BY <3>4 DEF TurnLookup, TurnCheckConn, TurnConnect, TurnNewSession,
              TurnConnectFails, TurnStoreCancel, PromptReturns, Goto, Busy, conv
      <4>2. QED
        BY <4>1
    <3>5. CASE DequeuePrompt(t) \/ HandOffAppend(t) \/ TurnCleanup(t)
      <4>1. exists /\ running /\ UNCHANGED hpc
        BY <3>5 DEF DequeuePrompt, HandOffAppend, TurnCleanup, hvars
      <4>2. tpc[t] \notin Busy \cup {"spawn"} /\ \A u \in Turns : u # t => tpc'[u] = tpc[u]
        BY <3>5 DEF DequeuePrompt, HandOffAppend, TurnCleanup, Goto, Busy
      <4>3. QED
        BY <4>1, <4>2
    <3>6. QED
      BY <2>3, <3>1, <3>2, <3>3, <3>4, <3>5 DEF TurnStep
  <2>4. CASE ConnectElsewhere \/ AgentDies
    BY <2>4 DEF ConnectElsewhere, AgentDies, conv, hvars, tvars
  <2>5. CASE UNCHANGED vars
    BY <2>5 DEF vars, conv, hvars, tvars
  <2>6. QED
    BY <2>1, <2>2, <2>3, <2>4, <2>5, StepCases
<1>5. QED
  BY <1>3, <1>4, TypeCorrect, PTL DEF Spec

-----------------------------------------------------------------------------
(* Turns are numbered in the order they are started, and a number that has not
   been given out carries nothing. *)
SlotsInOrder ==
    \A t \in Turns : t > spawned => tpc[t] = "unborn" /\ tprompt[t] = NoPrompt

LEMMA SlotsStayInOrder == Spec => []SlotsInOrder
<1> USE DEF Turns, NoPrompt, NoTurn
<1>1. Init => SlotsInOrder
  BY DEF Init, SlotsInOrder
<1>2. TypeOK /\ SlotsInOrder /\ [Next]_vars => SlotsInOrder'
  <2> SUFFICES ASSUME TypeOK, SlotsInOrder, [Next]_vars,
                      NEW u \in Turns, u > spawned'
               PROVE  tpc'[u] = "unborn" /\ tprompt'[u] = NoPrompt
    BY DEF SlotsInOrder
  <2> USE DEF TypeOK, SlotsInOrder
  <2>1. ASSUME NEW h \in Handlers, ClientRequest(h)
        PROVE  tpc'[u] = "unborn" /\ tprompt'[u] = NoPrompt
    BY <2>1 DEF ClientRequest, ConvInit, ConvPrompt, ConvEnqueue, ConvQueueDelete,
                ConvCancel, ConvUndo, ConvDelete, tvars
  <2>2. ASSUME NEW h \in Handlers, HandlerStep(h)
        PROVE  tpc'[u] = "unborn" /\ tprompt'[u] = NoPrompt
    <3>1. CASE SpawnTurn(h)
      BY <3>1 DEF SpawnTurn, StartTurn
    <3>2. CASE ~SpawnTurn(h)
      BY <2>2, <3>2 DEF HandlerStep, InitConnect, InitNewSession, InitFails,
            PromptCheckRunning, ManualToolCallsFail, AppendUserMessage, ArmRunning,
            CancelContext, CancelClearRunning, tvars
    <3>3. QED
      BY <3>1, <3>2
  <2>3. ASSUME NEW t \in Turns, TurnStep(t)
        PROVE  tpc'[u] = "unborn" /\ tprompt'[u] = NoPrompt
    <3>1. CASE HandOffSpawn(t)
      BY <3>1 DEF HandOffSpawn, StartTurn
    <3>2. CASE TurnLookup(t) \/ TurnCheckConn(t) \/ TurnConnect(t) \/ TurnNewSession(t)
                  \/ TurnConnectFails(t) \/ TurnAbort(t) \/ TurnStoreCancel(t)
      BY <3>2 DEF TurnLookup, TurnCheckConn, TurnConnect, TurnNewSession,
            TurnConnectFails, TurnAbort, TurnStoreCancel, Goto
    <3>3. CASE PromptReturns(t) \/ TurnFinish(t) \/ DequeuePrompt(t)
                  \/ HandOffAppend(t) \/ HandOffArm(t) \/ TurnCleanup(t)
      BY <3>3 DEF PromptReturns, TurnFinish, DequeuePrompt, HandOffAppend,
            HandOffArm, TurnCleanup, Goto
    <3>4. QED
      BY <2>3, <3>1, <3>2, <3>3 DEF TurnStep
  <2>4. CASE ConnectElsewhere \/ AgentDies
    BY <2>4 DEF ConnectElsewhere, AgentDies, tvars
  <2>5. CASE UNCHANGED vars
    BY <2>5 DEF vars, tvars
  <2>6. QED
    BY <2>1, <2>2, <2>3, <2>4, <2>5, StepCases
<1>3. QED
  BY <1>1, <1>2, TypeCorrect, PTL DEF Spec

-----------------------------------------------------------------------------
(* The handle a cancel request finds belongs to a turn that has not yet run
   its deferred functions. *)
THEOREM CancelHandleOwned == Spec => []CancelHandleLive
<1> USE DEF Turns, NoPrompt, NoTurn
<1>1. Init => CancelHandleLive
  BY DEF Init, CancelHandleLive
<1>2. TypeOK /\ SlotsInOrder /\ CancelHandleLive /\ [Next]_vars => CancelHandleLive'
  <2> SUFFICES ASSUME TypeOK, SlotsInOrder, CancelHandleLive, [Next]_vars,
                      promptCancel' # NoTurn
               PROVE  tpc'[promptCancel'] \in OwesCleanup
    BY DEF CancelHandleLive
  <2> USE DEF TypeOK, SlotsInOrder, CancelHandleLive
  <2>1. ASSUME NEW h \in Handlers, ClientRequest(h)
        PROVE  UNCHANGED promptCancel /\ UNCHANGED tpc
    BY <2>1 DEF ClientRequest, ConvInit, ConvPrompt, ConvEnqueue, ConvQueueDelete,
                ConvCancel, ConvUndo, ConvDelete, conv, tvars
  <2>2. ASSUME NEW h \in Handlers, HandlerStep(h)
        PROVE  tpc'[promptCancel'] \in OwesCleanup
    <3>1. CASE SpawnTurn(h)
      BY <3>1 DEF SpawnTurn, StartTurn, conv, OwesCleanup
    <3>2. CASE CancelContext(h)
      BY <3>2 DEF CancelContext
    <3>3. CASE ~SpawnTurn(h) /\ ~CancelContext(h)
      BY <2>2, <3>3 DEF HandlerStep, InitConnect, InitNewSession, InitFails,
            PromptCheckRunning, ManualToolCallsFail, AppendUserMessage, ArmRunning,
            CancelClearRunning, conv, tvars
    <3>4. QED
      BY <3>1, <3>2, <3>3
  <2>3. ASSUME NEW t \in Turns, TurnStep(t)
        PROVE  tpc'[promptCancel'] \in OwesCleanup
    <3>1. CASE HandOffSpawn(t)
      BY <3>1 DEF HandOffSpawn, StartTurn, conv, OwesCleanup
    <3>2. CASE TurnStoreCancel(t)
      BY <3>2 DEF TurnStoreCancel, Goto, OwesCleanup
    <3>3. CASE TurnCleanup(t)
      BY <3>3 DEF TurnCleanup
    <3>4. CASE TurnLookup(t) \/ TurnCheckConn(t) \/ TurnConnect(t)
      BY <3>4 DEF TurnLookup, TurnCheckConn, TurnConnect, Goto, OwesCleanup, conv
    <3>5. CASE TurnNewSession(t) \/ TurnConnectFails(t) \/ TurnAbort(t)
      BY <3>5 DEF TurnNewSession, TurnConnectFails, TurnAbort, Goto, OwesCleanup, conv
    <3>6. CASE PromptReturns(t) \/ TurnFinish(t) \/ DequeuePrompt(t)
      BY <3>6 DEF PromptReturns, TurnFinish, DequeuePrompt, Goto, OwesCleanup, conv
    <3>7. CASE HandOffAppend(t) \/ HandOffArm(t)
      BY <3>7 DEF HandOffAppend, HandOffArm, Goto, OwesCleanup, conv
    <3> QED
      BY <2>3, <3>1, <3>2, <3>3, <3>4, <3>5, <3>6, <3>7 DEF TurnStep
  <2>4. CASE ConnectElsewhere \/ AgentDies
    BY <2>4 DEF ConnectElsewhere, AgentDies, conv, tvars
  <2>5. CASE UNCHANGED vars
    BY <2>5 DEF vars, conv, tvars
  <2>6. QED
    BY <2>1, <2>2, <2>3, <2>4, <2>5, StepCases
<1>3. QED
  BY <1>1, <1>2, TypeCorrect, SlotsStayInOrder, PTL DEF Spec

-----------------------------------------------------------------------------
(* Where prompts are.  PromptOnce and the step simulation need to know more
   than they say: that an idle handler, a turn outside its hand-off and an
   unborn turn carry no prompt, that every prompt met anywhere has arrived,
   and that the four kinds of places do not share one. *)
OnlyCarriersCarry ==
    /\ \A h \in Handlers : hpc[h] = "idle" => hprompt[h] = NoPrompt
    /\ \A t \in Turns : tpc[t] \notin {"append", "arm", "spawn"} => tnext[t] = NoPrompt

AllArrived ==
    /\ \A h \in Handlers : hprompt[h] <= arrived
    /\ \A t \in Turns : tnext[t] <= arrived /\ tprompt[t] <= arrived
    /\ \A i \in 1 .. Len(queue) : queue[i] <= arrived

CarriersApart ==
    /\ \A g, h \in Handlers : hprompt[g] = hprompt[h] /\ hprompt[g] # NoPrompt => g = h
    /\ \A t, u \in Turns : tnext[t] = tnext[u] /\ tnext[t] # NoPrompt => t = u
    /\ \A t, u \in Turns : tprompt[t] = tprompt[u] /\ tprompt[t] # NoPrompt => t = u
    /\ \A h \in Handlers, t \in Turns :
          hprompt[h] # NoPrompt => hprompt[h] # tnext[t] /\ hprompt[h] # tprompt[t]
    /\ \A t, u \in Turns : tnext[t] # NoPrompt => tnext[t] # tprompt[u]

QueueApart ==
    /\ \A i, j \in 1 .. Len(queue) : queue[i] = queue[j] => i = j
    /\ \A i \in 1 .. Len(queue) :
          /\ \A h \in Handlers : queue[i] # hprompt[h]
          /\ \A t \in Turns : queue[i] # tnext[t] /\ queue[i] # tprompt[t]

PlacesInv == OnlyCarriersCarry /\ AllArrived /\ CarriersApart /\ QueueApart

(* What a step does to the prompts, whatever else it does.  Handlers and turns
   differ in their control; they move prompts in only eight ways. *)
Received(h) ==
    /\ hprompt[h] = NoPrompt /\ arrived < MaxPrompts
    /\ arrived' = arrived + 1
    /\ hprompt' = [hprompt EXCEPT ![h] = arrived + 1]
    /\ UNCHANGED <<queue, tnext, tprompt>>

Enqueued ==
    /\ arrived < MaxPrompts
    /\ arrived' = arrived + 1
    /\ queue' = Append(queue, arrived + 1)
    /\ UNCHANGED <<hprompt, tnext, tprompt>>

Withdrawn ==
    /\ \E i \in 1 .. Len(queue) : queue' = RemoveAt(queue, i)
    /\ UNCHANGED <<arrived, hprompt, tnext, tprompt>>

Refused(h) ==
    /\ hprompt' = [hprompt EXCEPT ![h] = NoPrompt]
    /\ UNCHANGED <<arrived, queue, tnext, tprompt>>

Started(h) ==
    /\ spawned + 1 \in Turns /\ tprompt[spawned + 1] = NoPrompt
    /\ hprompt' = [hprompt EXCEPT ![h] = NoPrompt]
    /\ tprompt' = [tprompt EXCEPT ![spawned + 1] = hprompt[h]]
    /\ UNCHANGED <<arrived, queue, tnext>>

Taken(t) ==
    /\ tnext[t] = NoPrompt /\ queue # <<>>
    /\ tnext' = [tnext EXCEPT ![t] = Head(queue)]
    /\ queue' = Tail(queue)
    /\ UNCHANGED <<arrived, hprompt, tprompt>>

Lost(t) ==
    /\ tnext' = [tnext EXCEPT ![t] = NoPrompt]
    /\ UNCHANGED <<arrived, queue, hprompt, tprompt>>

HandedOn(t) ==
    /\ spawned + 1 \in Turns /\ tprompt[spawned + 1] = NoPrompt
    /\ tnext' = [tnext EXCEPT ![t] = NoPrompt]
    /\ tprompt' = [tprompt EXCEPT ![spawned + 1] = tnext[t]]
    /\ UNCHANGED <<arrived, queue, hprompt>>

Move ==
    \/ \E h \in Handlers : Received(h) \/ Refused(h) \/ Started(h)
    \/ \E t \in Turns : Taken(t) \/ Lost(t) \/ HandedOn(t)
    \/ Enqueued \/ Withdrawn
    \/ UNCHANGED <<arrived, queue, hprompt, tnext, tprompt>>

LEMMA EveryStepMoves ==
    ASSUME TypeOK, SlotsInOrder, OnlyCarriersCarry, [Next]_vars
    PROVE  Move
<1> USE ConvTurnAssumption DEF Turns, NoPrompt, NoTurn
<1>1. ASSUME NEW h \in Handlers, ClientRequest(h) PROVE Move
  <2>1. CASE ConvInit(h) \/ ConvPrompt(h)
    <3>1. Received(h)
      BY <2>1 DEF ConvInit, ConvPrompt, ArriveWithPrompt, Arrive, Received,
                  OnlyCarriersCarry, conv, tvars
    <3>2. QED
      BY <3>1 DEF Move
  <2>2. CASE ConvEnqueue(h)
    BY <2>2 DEF ConvEnqueue, Move, Enqueued, hvars, tvars
  <2>3. CASE ConvQueueDelete(h)
    BY <2>3 DEF ConvQueueDelete, Move, Withdrawn, hvars, tvars
  <2>4. CASE ConvCancel(h) \/ ConvUndo(h) \/ ConvDelete(h)
    BY <2>4 DEF ConvCancel, ConvUndo, ConvDelete, Move, conv, hvars, tvars
  <2>5. QED
    BY <1>1, <2>1, <2>2, <2>3, <2>4 DEF ClientRequest
<1>2. ASSUME NEW h \in Handlers, HandlerStep(h) PROVE Move
  <2>1. CASE SpawnTurn(h)
    <3>1. spawned + 1 \in Turns /\ tprompt[spawned + 1] = NoPrompt
      BY <2>1 DEF SpawnTurn, StartTurn, SlotsInOrder, TypeOK
    <3>2. Started(h)
      BY <2>1, <3>1 DEF SpawnTurn, StartTurn, Answer, Started, conv
    <3>3. QED
      BY <3>2 DEF Move
  <2>2. CASE InitFails(h) \/ ManualToolCallsFail(h) \/ CancelClearRunning(h)
    <3>1. Refused(h)
      BY <2>2 DEF InitFails, ManualToolCallsFail, CancelClearRunning, Answer,
                  Refused, conv, tvars
    <3>2. QED
      BY <3>1 DEF Move
  <2>3. CASE PromptCheckRunning(h)
    <3>1. Refused(h) \/ UNCHANGED <<arrived, queue, hprompt, tnext, tprompt>>
      BY <2>3 DEF PromptCheckRunning, Answer, Refused, conv, tvars
    <3>2. QED
      BY <3>1 DEF Move
  <2>4. CASE InitConnect(h) \/ InitNewSession(h) \/ AppendUserMessage(h)
                \/ ArmRunning(h) \/ CancelContext(h)
    BY <2>4 DEF InitConnect, InitNewSession, AppendUserMessage, ArmRunning,
                CancelContext, Move, conv, tvars
  <2>5. QED
    BY <1>2, <2>1, <2>2, <2>3, <2>4 DEF HandlerStep
<1>3. ASSUME NEW t \in Turns, TurnStep(t) PROVE Move
  <2>1. CASE HandOffSpawn(t)
    <3>1. spawned + 1 \in Turns /\ tprompt[spawned + 1] = NoPrompt
      BY <2>1 DEF HandOffSpawn, StartTurn, SlotsInOrder, TypeOK
    <3>2. HandedOn(t)
      BY <2>1, <3>1 DEF HandOffSpawn, StartTurn, HandedOn, conv, hvars
    <3>3. QED
      BY <3>2 DEF Move
  <2>2. CASE DequeuePrompt(t)
    <3>1. tpc[t] = "dequeue"
      BY <2>2 DEF DequeuePrompt, Goto
    <3>2. tnext[t] = NoPrompt
      BY <3>1 DEF OnlyCarriersCarry
    <3>3. Taken(t) \/ UNCHANGED <<arrived, queue, hprompt, tnext, tprompt>>
      BY <2>2, <3>2 DEF DequeuePrompt, Taken, hvars
    <3>4. QED
      BY <3>3 DEF Move
  <2>3. CASE HandOffAppend(t)
    <3>1. Lost(t) \/ UNCHANGED <<arrived, queue, hprompt, tnext, tprompt>>
      BY <2>3 DEF HandOffAppend, Lost, hvars
    <3>2. QED
      BY <3>1 DEF Move
  <2>4. CASE TurnLookup(t) \/ TurnCheckConn(t) \/ TurnConnect(t) \/ TurnNewSession(t)
                \/ TurnConnectFails(t) \/ TurnAbort(t) \/ TurnStoreCancel(t)
    BY <2>4 DEF TurnLookup, TurnCheckConn, TurnConnect, TurnNewSession,
          TurnConnectFails, TurnAbort, TurnStoreCancel, Move, conv, hvars
  <2>5. CASE PromptReturns(t) \/ TurnFinish(t) \/ HandOffArm(t) \/ TurnCleanup(t)
    BY <2>5 DEF PromptReturns, TurnFinish, HandOffArm, TurnCleanup, Move, conv, hvars
  <2>6. QED
    BY <1>3, <2>1, <2>2, <2>3, <2>4, <2>5 DEF TurnStep
<1>4. CASE ConnectElsewhere \/ AgentDies
  BY <1>4 DEF ConnectElsewhere, AgentDies, Move, conv, hvars, tvars
<1>5. CASE UNCHANGED vars
  BY <1>5 DEF vars, Move, conv, hvars, tvars
<1>6. QED
  BY <1>1, <1>2, <1>3, <1>4, <1>5, StepCases

(* A prompt is carried only by a handler at work and by a turn in hand-off. *)
LEMMA CarriersStep ==
    ASSUME TypeOK, SlotsInOrder, OnlyCarriersCarry, [Next]_vars
    PROVE  OnlyCarriersCarry'
<1> USE DEF Turns, NoPrompt, NoTurn, TypeOK, OnlyCarriersCarry
<1>1. ASSUME NEW h \in Handlers, ClientRequest(h) PROVE OnlyCarriersCarry'
  BY <1>1 DEF ClientRequest, ConvInit, ConvPrompt, ConvEnqueue, ConvQueueDelete,
              ConvCancel, ConvUndo, ConvDelete, ArriveWithPrompt, Arrive, hvars, tvars
<1>2. ASSUME NEW h \in Handlers, HandlerStep(h) PROVE OnlyCarriersCarry'
  <2>1. CASE SpawnTurn(h)
    BY <2>1, ConvTurnAssumption DEF SpawnTurn, StartTurn, Answer, SlotsInOrder
  <2>2. CASE ~SpawnTurn(h)
    BY <1>2, <2>2 DEF HandlerStep, InitConnect, InitNewSession, InitFails,
          PromptCheckRunning, ManualToolCallsFail, AppendUserMessage, ArmRunning,
          CancelContext, CancelClearRunning, Answer, tvars
  <2>3. QED
    BY <2>1, <2>2
<1>3. ASSUME NEW t \in Turns, TurnStep(t) PROVE OnlyCarriersCarry'
  <2>1. CASE HandOffSpawn(t)
    BY <2>1, ConvTurnAssumption DEF HandOffSpawn, StartTurn, SlotsInOrder, hvars
  <2>2. CASE DequeuePrompt(t) \/ HandOffAppend(t) \/ HandOffArm(t) \/ TurnCleanup(t)
    BY <2>2 DEF DequeuePrompt, HandOffAppend, HandOffArm, TurnCleanup, Goto, hvars
  <2>3. CASE TurnLookup(t) \/ TurnCheckConn(t) \/ TurnConnect(t) \/ TurnNewSession(t)
                \/ TurnConnectFails(t) \/ TurnAbort(t) \/ TurnStoreCancel(t)
                \/ PromptReturns(t) \/ TurnFinish(t)
    BY <2>3 DEF TurnLookup, TurnCheckConn, TurnConnect, TurnNewSession,
          TurnConnectFails, TurnAbort, TurnStoreCancel, PromptReturns,
          TurnFinish, Goto, hvars
  <2>4. QED
    BY <1>3, <2>1, <2>2, <2>3 DEF TurnStep
<1>4. CASE ConnectElsewhere \/ AgentDies
  BY <1>4 DEF ConnectElsewhere, AgentDies, hvars, tvars
<1>5. CASE UNCHANGED vars
  BY <1>5 DEF vars, hvars, tvars
<1>6. QED
  BY <1>1, <1>2, <1>3, <1>4, <1>5, StepCases

LEMMA MovesKeepPlaces ==
    ASSUME TypeOK, AllArrived, CarriersApart, QueueApart, Move
    PROVE  AllArrived' /\ CarriersApart' /\ QueueApart'
<1> USE DEF Turns, Prompts, NoPrompt, TypeOK, AllArrived, CarriersApart, QueueApart
<1>0. Len(queue) \in Nat /\ \A i \in 1 .. Len(queue) : queue[i] \in Prompts
  BY LenProperties, ElementOfSeq
<1>a. /\ arrived \in Nat
      /\ \A h \in Handlers : hprompt[h] \in Nat
      /\ \A t \in Turns : tnext[t] \in Nat /\ tprompt[t] \in Nat
      /\ \A i \in 1 .. Len(queue) : queue[i] \in Nat
  <2>1. arrived \in Nat
    BY ConvTurnAssumption
  <2>2. \A p \in Prompts \cup {NoPrompt} : p \in Nat
    BY ConvTurnAssumption
  <2>3. \A h \in Handlers : hprompt[h] \in Nat
    <3>1. \A h \in Handlers : hprompt[h] \in Prompts \cup {NoPrompt}
      OBVIOUS
    <3>2. QED
      BY <2>2, <3>1
  <2>4. \A t \in Turns : tnext[t] \in Nat /\ tprompt[t] \in Nat
    <3>1. \A t \in Turns : /\ tnext[t] \in Prompts \cup {NoPrompt}
                           /\ tprompt[t] \in Prompts \cup {NoPrompt}
      OBVIOUS
    <3>2. QED
      BY <2>2, <3>1
  <2>5. \A i \in 1 .. Len(queue) : queue[i] \in Nat
    BY <1>0, <2>2
  <2>6. QED
    BY <2>1, <2>3, <2>4, <2>5
<1>1. ASSUME NEW h \in Handlers, Received(h)
      PROVE  AllArrived' /\ CarriersApart' /\ QueueApart'
  <2>1. AllArrived'
    <3>1. \A g \in Handlers : hprompt'[g] = hprompt[g] \/ hprompt'[g] = arrived + 1
      BY <1>1 DEF Received
    <3>2. \A g \in Handlers : hprompt'[g] <= arrived'
      BY <1>a, <1>1, <3>1 DEF Received
    <3>3. \A t \in Turns : tnext'[t] <= arrived' /\ tprompt'[t] <= arrived'
      BY <1>a, <1>1 DEF Received
    <3>4. \A i \in 1 .. Len(queue') : queue'[i] <= arrived'
      BY <1>a, <1>1 DEF Received
    <3>5. QED
      BY <3>2, <3>3, <3>4
  <2>2. CarriersApart'
    <3>1. /\ \A g \in Handlers : hprompt[g] # arrived + 1
          /\ \A t \in Turns : tnext[t] # arrived + 1 /\ tprompt[t] # arrived + 1
          /\ arrived + 1 # NoPrompt
      OBVIOUS
    <3>2. QED
      BY <1>1, <3>1 DEF Received
  <2>3. QueueApart'
    BY <1>0, <1>1 DEF Received
  <2>4. QED
    BY <2>1, <2>2, <2>3
<1>2. ASSUME NEW h \in Handlers, Refused(h)
      PROVE  AllArrived' /\ CarriersApart' /\ QueueApart'
  <2>1. AllArrived'
    BY <1>0, <1>2 DEF Refused
  <2>2. CarriersApart'
    BY <1>2 DEF Refused
  <2>3. QueueApart'
    BY <1>0, <1>2 DEF Refused
  <2>4. QED
    BY <2>1, <2>2, <2>3
<1>3. ASSUME NEW h \in Handlers, Started(h)
      PROVE  AllArrived' /\ CarriersApart' /\ QueueApart'
  <2>1. AllArrived'
    BY <1>0, <1>3 DEF Started
  <2>2. CarriersApart'
    BY <1>3 DEF Started
  <2>3. QueueApart'
    BY <1>0, <1>3 DEF Started
  <2>4. QED
    BY <2>1, <2>2, <2>3
<1>4. ASSUME NEW t \in Turns, Taken(t)
      PROVE  AllArrived' /\ CarriersApart' /\ QueueApart'
  <2>1. /\ Len(queue) >= 1 /\ Head(queue) = queue[1]
        /\ Len(queue') = Len(queue) - 1
        /\ \A i \in 1 .. Len(queue') : queue'[i] = queue[i + 1]
    BY <1>0, <1>4, HeadTailProperties, EmptySeq DEF Taken
  <2>2. AllArrived'
    BY <1>0, <1>4, <2>1 DEF Taken
  <2>3. CarriersApart'
    BY <1>0, <1>4, <2>1 DEF Taken
  <2>4. QueueApart'
    BY <1>0, <1>4, <2>1 DEF Taken
  <2>5. QED
    BY <2>2, <2>3, <2>4
<1>5. ASSUME NEW t \in Turns, Lost(t)
      PROVE  AllArrived' /\ CarriersApart' /\ QueueApart'
  <2>1. AllArrived'
    BY <1>0, <1>5 DEF Lost
  <2>2. CarriersApart'
    BY <1>5 DEF Lost
  <2>3. QueueApart'
    BY <1>0, <1>5 DEF Lost
  <2>4. QED
    BY <2>1, <2>2, <2>3
<1>6. ASSUME NEW t \in Turns, HandedOn(t)
      PROVE  AllArrived' /\ CarriersApart' /\ QueueApart'
  <2>1. AllArrived'
    BY <1>0, <1>6 DEF HandedOn
  <2>2. CarriersApart'
    BY <1>6 DEF HandedOn
  <2>3. QueueApart'
    BY <1>0, <1>6 DEF HandedOn
  <2>4. QED
    BY <2>1, <2>2, <2>3
<1>7. CASE Enqueued
  <2>1. /\ Len(queue') = Len(queue) + 1
        /\ \A i \in 1 .. Len(queue) : queue'[i] = queue[i]
        /\ queue'[Len(queue) + 1] = arrived + 1
    BY <1>7, ConvTurnAssumption, AppendProperties DEF Enqueued
  <2>2. \A i \in 1 .. Len(queue') : i \in 1 .. Len(queue) \/ i = Len(queue) + 1
    BY <1>0, <2>1
  <2>3. AllArrived'
    <3>1. \A h \in Handlers : hprompt'[h] <= arrived'
      BY <1>a, <1>7 DEF Enqueued
    <3>2. \A t \in Turns : tnext'[t] <= arrived' /\ tprompt'[t] <= arrived'
      BY <1>a, <1>7 DEF Enqueued
    <3>3. \A i \in 1 .. Len(queue') : queue'[i] <= arrived'
      BY <1>a, <1>7, <2>1, <2>2 DEF Enqueued
    <3>4. QED
      BY <3>1, <3>2, <3>3
  <2>4. CarriersApart'
    BY <1>7 DEF Enqueued
  <2>5. QueueApart'
    <3>1. /\ \A i \in 1 .. Len(queue) : queue[i] # arrived + 1
          /\ \A h \in Handlers : hprompt[h] # arrived + 1
          /\ \A t \in Turns : tnext[t] # arrived + 1 /\ tprompt[t] # arrived + 1
      BY <1>0
    <3>2. QED
      BY <1>0, <1>7, <2>1, <2>2, <3>1 DEF Enqueued
  <2>6. QED
    BY <2>3, <2>4, <2>5
<1>8. CASE Withdrawn
  <2>1. PICK k \in 1 .. Len(queue) : queue' = RemoveAt(queue, k)
    BY <1>8 DEF Withdrawn
  <2>2. /\ Len(RemoveAt(queue, k)) = Len(queue) - 1
        /\ \A i \in 1 .. Len(queue) - 1 :
              RemoveAt(queue, k)[i] = IF i < k THEN queue[i] ELSE queue[i + 1]
    BY RemoveAtProperties
  <2>3. \A i \in 1 .. Len(queue') : \E j \in 1 .. Len(queue) :
            queue'[i] = queue[j] /\ j = IF i < k THEN i ELSE i + 1
    BY <1>0, <2>1, <2>2
  <2>4. AllArrived'
    BY <1>8, <2>3 DEF Withdrawn
  <2>5. CarriersApart'
    BY <1>8 DEF Withdrawn
  <2>6. QueueApart'
    <3>1. ASSUME NEW i \in 1 .. Len(queue'), NEW j \in 1 .. Len(queue'),
                 queue'[i] = queue'[j]
          PROVE  i = j
      <4>1. PICK m \in 1 .. Len(queue) :
                queue'[i] = queue[m] /\ m = IF i < k THEN i ELSE i + 1
        BY <2>3
      <4>2. PICK n \in 1 .. Len(queue) :
                queue'[j] = queue[n] /\ n = IF j < k THEN j ELSE j + 1
        BY <2>3
      <4>3. m = n
        BY <3>1, <4>1, <4>2
      <4>4. i \in Nat /\ j \in Nat
        BY <1>0, <2>1, <2>2
      <4>5. QED
        BY <4>1, <4>2, <4>3, <4>4
    <3>2. ASSUME NEW i \in 1 .. Len(queue')
          PROVE  /\ \A h \in Handlers : queue'[i] # hprompt'[h]
                 /\ \A t \in Turns : queue'[i] # tnext'[t] /\ queue'[i] # tprompt'[t]
      BY <1>8, <2>3 DEF Withdrawn
    <3>3. QED
      BY <3>1, <3>2
  <2>7. QED
    BY <2>4, <2>5, <2>6
<1>9. CASE UNCHANGED <<arrived, queue, hprompt, tnext, tprompt>>
  BY <1>9
<1>10. QED
  BY <1>1, <1>2, <1>3, <1>4, <1>5, <1>6, <1>7, <1>8, <1>9 DEF Move

LEMMA PlacesCorrect == Spec => []PlacesInv
<1>1. Init => PlacesInv
  <2> SUFFICES ASSUME Init PROVE PlacesInv
    OBVIOUS
  <2>1. Len(queue) = 0
    BY DEF Init
  <2>2. QED
    BY <2>1 DEF Init, PlacesInv, OnlyCarriersCarry, AllArrived, CarriersApart,
                QueueApart, NoPrompt
<1>2. TypeOK /\ SlotsInOrder /\ PlacesInv /\ [Next]_vars => PlacesInv'
  BY EveryStepMoves, CarriersStep, MovesKeepPlaces DEF PlacesInv
<1>3. QED
  BY <1>1, <1>2, TypeCorrect, SlotsStayInOrder, PTL DEF Spec

(* However requests and turns interleave, no prompt is sent twice, and none is
   sent while it still waits in the queue. *)
THEOREM PromptSentOnce == Spec => []PromptOnce
<1>1. TypeOK /\ PlacesInv => PromptOnce
  <2> SUFFICES ASSUME TypeOK, PlacesInv PROVE PromptOnce
    OBVIOUS
  <2> USE DEF PlacesInv, CarriersApart, QueueApart, NoPrompt
  <2>1. Queued = {queue[i] : i \in 1 .. Len(queue)}
    BY RangeEquality DEF Queued, TypeOK
  <2>2. Queued \cap InHand = {}
    BY <2>1 DEF InHand
  <2>3. Queued \cap Sent = {}
    BY <2>1 DEF Sent
  <2>4. InHand \cap Sent = {}
    BY DEF InHand, Sent
  <2>5. QED
    BY <2>2, <2>3, <2>4 DEF PromptOnce
<1>2. QED
  BY <1>1, TypeCorrect, PlacesCorrect, PTL
-----------------------------------------------------------------------------
(* The refinement.  A prompt is in hand when some handler or turn carries it. *)
LEMMA InHandMembers ==
    /\ \A p : p \in InHand <=> /\ p # NoPrompt
                               /\ \/ \E h \in Handlers : hprompt[h] = p
                                  \/ \E t \in Turns : tnext[t] = p
    /\ \A p : p \in InHand' <=> /\ p # NoPrompt
                                /\ \/ \E h \in Handlers : hprompt'[h] = p
                                   \/ \E t \in Turns : tnext'[t] = p
BY DEF InHand, NoPrompt

LEMMA SentMembers ==
    /\ \A p : p \in Sent <=> p # NoPrompt /\ \E t \in Turns : tprompt[t] = p
    /\ \A p : p \in Sent' <=> p # NoPrompt /\ \E t \in Turns : tprompt'[t] = p
BY DEF Sent, NoPrompt, Turns

(* What a carrier puts down leaves the prompts in hand, and nothing else does. *)
LEMMA HandlerPutsDown ==
    ASSUME TypeOK, CarriersApart, NEW h \in Handlers,
           hprompt' = [hprompt EXCEPT ![h] = NoPrompt], UNCHANGED tnext
    PROVE  InHand' = InHand \ {hprompt[h]}
<1>1. \A p : p \in InHand' <=> p \in InHand /\ p # hprompt[h]
  BY InHandMembers DEF TypeOK, CarriersApart, NoPrompt
<1>2. QED
  BY <1>1

LEMMA TurnPutsDown ==
    ASSUME TypeOK, CarriersApart, NEW t \in Turns,
           tnext' = [tnext EXCEPT ![t] = NoPrompt], UNCHANGED hprompt
    PROVE  InHand' = InHand \ {tnext[t]}
<1>1. \A p : p \in InHand' <=> p \in InHand /\ p # tnext[t]
  BY InHandMembers DEF TypeOK, CarriersApart, NoPrompt
<1>2. QED
  BY <1>1

(* What a new turn is given joins the prompts that have been sent. *)
LEMMA NewTurnSends ==
    ASSUME TypeOK, NEW p, spawned + 1 \in Turns, tprompt[spawned + 1] = NoPrompt,
           tprompt' = [tprompt EXCEPT ![spawned + 1] = p]
    PROVE  Sent' = Sent \cup ({p} \ {NoPrompt})
<1>1. \A q : q \in Sent' <=> q \in Sent \/ (q = p /\ q # NoPrompt)
  BY SentMembers DEF TypeOK
<1>2. QED
  BY <1>1

(* Each of the eight moves is a step of PromptDelivery, or changes nothing. *)
LEMMA MovesKeepPromise ==
    ASSUME TypeOK, AllArrived, CarriersApart, QueueApart, Move
    PROVE  [Promise!PDNext]_(Promise!pdvars)
<1> DEFINE Kept == [Promise!PDNext]_(Promise!pdvars)
<1> USE DEF Promise!PDNext, Promise!pdvars
<1>1. ASSUME NEW h \in Handlers, Received(h) PROVE Kept
  <2>1. arrived + 1 # NoPrompt
    BY ConvTurnAssumption DEF TypeOK, NoPrompt
  <2>2. \A p : p \in InHand' <=> p \in InHand \/ p = arrived + 1
    BY <1>1, <2>1, InHandMembers DEF Received, TypeOK
  <2>3. InHand' = InHand \cup {arrived + 1} /\ Sent' = Sent
    BY <1>1, <2>2, SentMembers DEF Received, Sent
  <2>4. QED
    BY <1>1, <2>3 DEF Received, Promise!Receive
<1>2. ASSUME NEW h \in Handlers, Refused(h) PROVE Kept
  <2>1. InHand' = InHand \ {hprompt[h]} /\ Sent' = Sent
    BY <1>2, HandlerPutsDown DEF Refused, Sent
  <2>2. CASE hprompt[h] \in InHand
    BY <1>2, <2>1, <2>2 DEF Refused, Promise!Refuse
  <2>3. CASE hprompt[h] \notin InHand
    BY <1>2, <2>1, <2>3 DEF Refused
  <2>4. QED
    BY <2>2, <2>3
<1>3. ASSUME NEW h \in Handlers, Started(h) PROVE Kept
  <2>1. InHand' = InHand \ {hprompt[h]}
    BY <1>3, HandlerPutsDown DEF Started
  <2>2. Sent' = Sent \cup ({hprompt[h]} \ {NoPrompt})
    BY <1>3, NewTurnSends DEF Started
  <2>3. CASE hprompt[h] = NoPrompt
    <3>1. hprompt[h] \notin InHand
      BY <2>3, InHandMembers
    <3>2. InHand' = InHand /\ Sent' = Sent
      BY <2>1, <2>2, <2>3, <3>1
    <3>3. QED
      BY <1>3, <3>2 DEF Started
  <2>4. CASE hprompt[h] # NoPrompt
    <3>1. hprompt[h] \in InHand
      BY <2>4, InHandMembers
    <3>2. hprompt[h] \notin Sent
      BY <2>4, SentMembers DEF CarriersApart
    <3>3. Sent' = Sent \cup {hprompt[h]}
      BY <2>2, <2>4
    <3>4. QED
      BY <1>3, <2>1, <3>1, <3>2, <3>3 DEF Started, Promise!Send
  <2>5. QED
    BY <2>3, <2>4
<1>4. ASSUME NEW t \in Turns, Taken(t) PROVE Kept
  <2>1. Head(queue) \in Prompts
    BY <1>4, HeadTailProperties DEF Taken, TypeOK
  <2>2. Head(queue) # NoPrompt
    BY <2>1, ConvTurnAssumption DEF Prompts, NoPrompt
  <2>3. \A p : p \in InHand' <=> p \in InHand \/ p = Head(queue)
    BY <1>4, <2>2, InHandMembers DEF Taken, TypeOK
  <2>4. InHand' = InHand \cup {Head(queue)} /\ Sent' = Sent
    BY <1>4, <2>3 DEF Taken, Sent
  <2>5. QED
    BY <1>4, <2>4 DEF Taken, Promise!TakeHead
<1>5. ASSUME NEW t \in Turns, Lost(t) PROVE Kept
  <2>1. InHand' = InHand \ {tnext[t]} /\ Sent' = Sent
    BY <1>5, TurnPutsDown DEF Lost, Sent
  <2>2. CASE tnext[t] \in InHand
    BY <1>5, <2>1, <2>2 DEF Lost, Promise!Refuse
  <2>3. CASE tnext[t] \notin InHand
    BY <1>5, <2>1, <2>3 DEF Lost
  <2>4. QED
    BY <2>2, <2>3
<1>6. ASSUME NEW t \in Turns, HandedOn(t) PROVE Kept
  <2>1. InHand' = InHand \ {tnext[t]}
    BY <1>6, TurnPutsDown DEF HandedOn
  <2>2. Sent' = Sent \cup ({tnext[t]} \ {NoPrompt})
    BY <1>6, NewTurnSends DEF HandedOn
  <2>3. CASE tnext[t] = NoPrompt
    <3>1. tnext[t] \notin InHand
      BY <2>3, InHandMembers
    <3>2. InHand' = InHand /\ Sent' = Sent
      BY <2>1, <2>2, <2>3, <3>1
    <3>3. QED
      BY <1>6, <3>2 DEF HandedOn
  <2>4. CASE tnext[t] # NoPrompt
    <3>1. tnext[t] \in InHand
      BY <2>4, InHandMembers
    <3>2. tnext[t] \notin Sent
      BY <2>4, SentMembers DEF CarriersApart
    <3>3. Sent' = Sent \cup {tnext[t]}
      BY <2>2, <2>4
    <3>4. QED
      BY <1>6, <2>1, <3>1, <3>2, <3>3 DEF HandedOn, Promise!Send
  <2>5. QED
    BY <2>3, <2>4
<1>7. CASE Enqueued
  BY <1>7 DEF Enqueued, InHand, Sent, Promise!Enqueue
<1>8. CASE Withdrawn
  BY <1>8 DEF Withdrawn, InHand, Sent, RemoveAt, Promise!Withdraw,
              Promise!RemoveAt
<1>9. CASE UNCHANGED <<arrived, queue, hprompt, tnext, tprompt>>
  BY <1>9 DEF InHand, Sent
<1>10. QED
  BY <1>1, <1>2, <1>3, <1>4, <1>5, <1>6, <1>7, <1>8, <1>9 DEF Move

(* The server keeps the promise of PromptDelivery: every prompt it accepts is
   taken in hand or waits its turn, the queue is served from its head, and a
   prompt is sent to the agent at most once. *)
THEOREM ServerKeepsPromise == Spec => PromptDeliverySpec
<1>1. Init => Promise!PDInit
  BY DEF Init, Promise!PDInit, InHand, Sent, NoPrompt
<1>2. TypeOK /\ SlotsInOrder /\ PlacesInv /\ [Next]_vars
          => [Promise!PDNext]_(Promise!pdvars)
  BY EveryStepMoves, MovesKeepPromise DEF PlacesInv
<1>3. QED
  BY <1>1, <1>2, TypeCorrect, SlotsStayInOrder, PlacesCorrect, PTL
     DEF Spec, PromptDeliverySpec, Promise!PDSpec

-----------------------------------------------------------------------------
(* One client that waits for each answer.  It does not cancel and does not
   initialize a conversation again; it may queue prompts, delete queue entries and
   delete the conversation.  Before its first prompt has a session nothing
   else of its conversation is at work: the mark is set. *)
LiveClient(h) ==
    /\ Handlers = {h} /\ ~AcpMayFail
    /\ Ops \cap {"cancel", "undo", "reinit", "connectElsewhere", "agentDies"} = {}

(* The only turn of a reloaded conversation on its way to a session. *)
FirstTurn(h) ==
    /\ tpc[1] \in {"lookup", "checkConn", "connect", "newSession", "done"}
    /\ tpc[1] # "newSession" => agent = "none"
    /\ exists => running /\ hpc[h] \in {"idle", "checkRunning"} /\ tpc[1] # "done"

LiveInv(h) ==
    /\ agent # "dead" /\ (hpc[h] # "idle" => exists)
    /\ session = "none" => spawned = 0 /\ hpc[h] \in {"idle", "connect", "newSession"}
    /\ session = "stale" =>
          /\ hpc[h] \in {"idle", "checkRunning", "append", "arm", "spawn"}
          /\ \/ spawned = 0 /\ agent = "none" /\ (hpc[h] = "spawn" => running)
             \/ spawned = 1 /\ FirstTurn(h)

LEMMA TurnsAtWork ==
    ASSUME TypeOK, SlotsInOrder, NEW t \in Turns, TurnStep(t)
    PROVE  tpc[t] # "unborn" /\ t <= spawned
<1>1. tpc[t] # "unborn"
  <2>1. CASE TurnLookup(t) \/ TurnCheckConn(t) \/ TurnConnect(t) \/ TurnNewSession(t)
                \/ TurnConnectFails(t) \/ TurnAbort(t) \/ TurnStoreCancel(t)
    BY <2>1 DEF TurnLookup, TurnCheckConn, TurnConnect, TurnNewSession,
          TurnConnectFails, TurnAbort, TurnStoreCancel, Goto
  <2>2. CASE PromptReturns(t) \/ TurnFinish(t) \/ DequeuePrompt(t) \/ HandOffAppend(t)
                \/ HandOffArm(t) \/ HandOffSpawn(t) \/ TurnCleanup(t)
    BY <2>2 DEF PromptReturns, TurnFinish, DequeuePrompt, HandOffAppend, HandOffArm,
          HandOffSpawn, TurnCleanup, Goto
  <2> QED
    BY <2>1, <2>2 DEF TurnStep
<1>2. t \in Nat /\ spawned \in Nat /\ (t > spawned => tpc[t] = "unborn")
  BY DEF TypeOK, SlotsInOrder, Turns
<1> QED
  BY <1>1, <1>2

LEMMA LiveInvHolds ==
    ASSUME NEW h, LiveClient(h)
    PROVE  Spec => []LiveInv(h)
<1> USE DEF LiveClient, LiveInv, Turns, NoPrompt, NoTurn
<1>1. Init => LiveInv(h)
  BY DEF Init
<1>2. TypeOK /\ SlotsInOrder /\ LiveInv(h) /\ [Next]_vars => LiveInv(h)'
  <2> SUFFICES ASSUME TypeOK, SlotsInOrder, LiveInv(h), [Next]_vars PROVE LiveInv(h)'
    OBVIOUS
  <2> USE DEF FirstTurn
  <2>1. CASE ClientRequest(h)
    <3>1. CASE ConvInit(h) \/ ConvPrompt(h)
      BY <3>1 DEF TypeOK, ConvInit, ConvPrompt, ArriveWithPrompt, Arrive, conv, tvars
    <3>2. CASE ConvEnqueue(h) \/ ConvQueueDelete(h) \/ ConvDelete(h)
      BY <3>2 DEF ConvEnqueue, ConvQueueDelete, ConvDelete, Arrive, hvars, tvars
    <3>3. CASE ConvCancel(h) \/ ConvUndo(h)
      BY <3>3 DEF ConvCancel, ConvUndo, Arrive
    <3> QED
      BY <2>1, <3>1, <3>2, <3>3 DEF ClientRequest
  <2>2. CASE HandlerStep(h)
    <3>1. CASE InitConnect(h) \/ InitNewSession(h) \/ InitFails(h)
      BY <3>1 DEF TypeOK, InitConnect, InitNewSession, InitFails, EnsureConnected, Answer,
                  conv, tvars
    <3>2. CASE PromptCheckRunning(h) \/ ManualToolCallsFail(h) \/ AppendUserMessage(h)
      BY <3>2 DEF TypeOK, PromptCheckRunning, ManualToolCallsFail, AppendUserMessage, Answer,
                  conv, tvars
    <3>3. CASE ArmRunning(h)
      BY <3>3 DEF TypeOK, ArmRunning, SetConvRunning, tvars
    <3>4. CASE SpawnTurn(h)
      BY <3>4, ConvTurnAssumption DEF TypeOK, SpawnTurn, StartTurn, Answer, conv
    <3>5. CASE CancelContext(h) \/ CancelClearRunning(h)
      BY <3>5 DEF CancelContext, CancelClearRunning, Answer, SetConvRunning, tvars
    <3> QED
      BY <2>2, <3>1, <3>2, <3>3, <3>4, <3>5 DEF HandlerStep
  <2>3. ASSUME NEW t \in Turns, TurnStep(t) PROVE LiveInv(h)'
    <3>1. tpc[t] # "unborn" /\ t <= spawned
      BY <2>3, TurnsAtWork
    <3>2. CASE session = "live"
      <4>1. session' = "live" /\ UNCHANGED <<exists, hpc>>
            /\ agent' \in {agent, "up"}
        BY <2>3, <3>2 DEF TurnStep, TurnLookup, TurnCheckConn, TurnConnect,
                  TurnNewSession, TurnConnectFails, TurnAbort, TurnStoreCancel, PromptReturns,
                  TurnFinish, DequeuePrompt, HandOffAppend, HandOffArm, HandOffSpawn,
                  TurnCleanup, EnsureConnected, conv, hvars
      <4> QED
        BY <4>1
    <3>3. CASE session = "stale"
      <4>1. t = 1 /\ spawned = 1 /\ FirstTurn(h)
        BY <3>1, <3>3 DEF TypeOK
      <4>2. CASE TurnLookup(t) \/ TurnCheckConn(t) \/ TurnConnect(t)
        <5>1. CASE TurnLookup(t)
          BY <3>3, <4>1, <5>1 DEF TypeOK, TurnLookup, Goto, conv, hvars
        <5>2. CASE TurnCheckConn(t)
          BY <3>3, <4>1, <5>2 DEF TypeOK, TurnCheckConn, Goto, conv, hvars
        <5>3. CASE TurnConnect(t)
          BY <3>3, <4>1, <5>3 DEF TypeOK, TurnConnect, Goto, EnsureConnected, conv, hvars
        <5> QED
          BY <4>2, <5>1, <5>2, <5>3
      <4>3. CASE TurnNewSession(t)
        BY <3>3, <4>1, <4>3 DEF TurnNewSession, hvars
      <4>4. ~ TurnConnectFails(t)
        BY DEF TurnConnectFails
      <4>5. /\ ~ TurnAbort(t) /\ ~ TurnStoreCancel(t) /\ ~ PromptReturns(t)
            /\ ~ TurnFinish(t) /\ ~ DequeuePrompt(t) /\ ~ HandOffAppend(t)
            /\ ~ HandOffArm(t) /\ ~ HandOffSpawn(t) /\ ~ TurnCleanup(t)
        BY <4>1 DEF TurnAbort, TurnStoreCancel, PromptReturns, TurnFinish, DequeuePrompt,
                    HandOffAppend, HandOffArm, HandOffSpawn, TurnCleanup, Goto
      <4> QED
        BY <2>3, <4>2, <4>3, <4>4, <4>5 DEF TurnStep
    <3>4. CASE session = "none"
      BY <3>1, <3>4 DEF TypeOK
    <3> QED
      BY <3>2, <3>3, <3>4 DEF TypeOK
  <2>4. CASE ConnectElsewhere \/ AgentDies
    BY <2>4 DEF ConnectElsewhere, AgentDies
  <2>5. CASE UNCHANGED vars
    BY <2>5 DEF vars, conv, hvars, tvars
  <2> QED
    BY <2>1, <2>2, <2>3, <2>4, <2>5, StepCases
<1> QED
  BY <1>1, <1>2, TypeCorrect, SlotsStayInOrder, PTL DEF Spec

(* Such a client's prompts are only sent under a session that the running agent
   has issued, whatever was reloaded and however many prompts and turns there
   are.  (server_acp.go:299-345, runACPPrompt's justConnected.) *)
THEOREM PromptsUnderLiveSession ==
    ASSUME NEW h, LiveClient(h)
    PROVE  Spec => PromptUnderLiveSession
<1>1. TypeOK /\ SlotsInOrder /\ LiveInv(h) /\ [Next]_vars
          => [\A t \in Turns : tpc[t] # "rpc" /\ tpc'[t] = "rpc" => session = "live"]_vars
  <2> SUFFICES ASSUME TypeOK, SlotsInOrder, LiveInv(h), [Next]_vars,
                      NEW t \in Turns, tpc[t] # "rpc", tpc'[t] = "rpc"
               PROVE  session = "live"
    OBVIOUS
  <2> USE DEF Turns
  <2>1. tpc[t] = "storeCancel"
    <3>1. ASSUME NEW g \in Handlers, ClientRequest(g) PROVE FALSE
      BY <3>1 DEF ClientRequest, ConvInit, ConvPrompt, ConvEnqueue, ConvQueueDelete,
                  ConvCancel, ConvUndo, ConvDelete, tvars
    <3>2. ASSUME NEW g \in Handlers, HandlerStep(g) PROVE FALSE
      BY <3>2 DEF TypeOK, HandlerStep, InitConnect, InitNewSession, InitFails,
            PromptCheckRunning, ManualToolCallsFail, AppendUserMessage, ArmRunning,
            SpawnTurn, StartTurn, CancelContext, CancelClearRunning, tvars
    <3>3. ASSUME NEW u \in Turns, TurnStep(u), ~ TurnStoreCancel(u) PROVE FALSE
      BY <3>3 DEF TypeOK, TurnStep, TurnLookup, TurnCheckConn, TurnConnect,
            TurnNewSession, TurnConnectFails, TurnAbort, PromptReturns, TurnFinish,
            DequeuePrompt, HandOffAppend, HandOffArm, HandOffSpawn, StartTurn,
            TurnCleanup, Goto
    <3>4. ASSUME NEW u \in Turns, TurnStoreCancel(u) PROVE tpc[t] = "storeCancel"
      BY <3>4 DEF TypeOK, TurnStoreCancel, Goto
    <3>5. ~ (ConnectElsewhere \/ AgentDies) /\ ~ UNCHANGED vars
      BY DEF ConnectElsewhere, AgentDies, vars, tvars
    <3> QED
      BY <3>1, <3>2, <3>3, <3>4, <3>5, StepCases
  <2>2. t <= spawned
    BY <2>1 DEF TypeOK, SlotsInOrder
  <2> QED
    BY <2>1, <2>2 DEF TypeOK, LiveInv, FirstTurn
<1> QED
  BY <1>1, LiveInvHolds, TypeCorrect, SlotsStayInOrder, PTL DEF Spec, PromptUnderLiveSession

(* One client that waits for each answer, never cancels, queues nothing and does
   not initialize a conversation again. *)
CarefulClient(h) == Handlers = {h} /\ Ops \cap {"cancel", "enqueue", "reinit"} = {}

AtWork(t) == tpc[t] \in Busy

(* The mark is set while a turn is at work, and no request that would start
   another or cut the conversation gets past it. *)
CareInv(h) ==
    /\ queue = <<>> /\ (hpc[h] # "idle" => exists)
    /\ hpc[h] \notin {"cancelContext", "clearRunning"}
    /\ hpc[h] \in {"checkRunning", "append", "arm", "spawn"} => session # "none"
    /\ hpc[h] = "spawn" => running
    /\ hpc[h] \in {"arm", "spawn"} => hprompt[h] \in Range(messages)
    /\ \A t \in Turns :
          /\ tpc[t] \notin {"append", "arm", "spawn"}
          /\ AtWork(t) =>
                /\ exists => running
                /\ session # "none" /\ hpc[h] \in {"idle", "checkRunning"}
                /\ tprompt[t] \in Range(messages)
                /\ \A u \in Turns : AtWork(u) => u = t

LEMMA RangeOfAppend ==
    ASSUME NEW S, NEW s \in Seq(S), NEW e
    PROVE  Range(Append(s, e)) = Range(s) \cup {e}
<1> DEFINE a == Append(s, e)
           n == Len(s)
<1>1. /\ n \in Nat /\ DOMAIN s = 1 .. n /\ DOMAIN a = 1 .. n + 1
      /\ \A i \in 1 .. n : a[i] = s[i]
      /\ a[n + 1] = e
  BY LenProperties
<1> HIDE DEF a, n
<1>2. \A i : i \in 1 .. n + 1 <=> i \in 1 .. n \/ i = n + 1
  BY <1>1
<1>3. n + 1 \in 1 .. n + 1 /\ n + 1 \notin 1 .. n
  BY <1>1
<1>4. {a[i] : i \in 1 .. n + 1} = {s[i] : i \in 1 .. n} \cup {e}
  BY ONLY <1>1, <1>2, <1>3
<1>5. Range(a) = {a[i] : i \in DOMAIN a} /\ Range(s) = {s[i] : i \in DOMAIN s}
  BY DEF Range
<1> QED
  BY <1>1, <1>4, <1>5 DEF a

LEMMA CareInvHolds ==
    ASSUME NEW h, CarefulClient(h)
    PROVE  Spec => []CareInv(h)
<1> USE DEF CarefulClient, Turns, NoPrompt, NoTurn
<1>1. Init => CareInv(h)
  BY DEF Init, CareInv, AtWork, Busy
<1>2. TypeOK /\ SlotsInOrder /\ CareInv(h) /\ [Next]_vars => CareInv(h)'
  <2> SUFFICES ASSUME TypeOK, SlotsInOrder, CareInv(h), [Next]_vars PROVE CareInv(h)'
    OBVIOUS
  <2> USE DEF CareInv, AtWork
  <2>1. CASE ClientRequest(h)
    <3>1. CASE ConvInit(h) \/ ConvPrompt(h)
      BY <3>1 DEF TypeOK, ConvInit, ConvPrompt, ArriveWithPrompt, Arrive, conv, tvars
    <3>2. CASE ConvEnqueue(h) \/ ConvCancel(h)
      BY <3>2 DEF ConvEnqueue, ConvCancel, Arrive
    <3>3. CASE ConvQueueDelete(h)
      BY <3>3 DEF ConvQueueDelete
    <3>4. CASE ConvDelete(h)
      BY <3>4 DEF ConvDelete, Arrive, hvars, tvars
    <3>5. CASE ConvUndo(h)
      <4>1. \A t \in Turns : ~ AtWork(t)
        BY <3>5 DEF ConvUndo, Arrive
      <4> QED
        BY <3>5, <4>1 DEF ConvUndo, Arrive, hvars, tvars
    <3> QED
      BY <2>1, <3>1, <3>2, <3>3, <3>4, <3>5 DEF ClientRequest
  <2>2. CASE HandlerStep(h)
    <3>1. CASE InitConnect(h) \/ InitNewSession(h) \/ InitFails(h)
      BY <3>1 DEF TypeOK, InitConnect, InitNewSession, InitFails, Answer, conv, tvars
    <3>2. CASE PromptCheckRunning(h) \/ ManualToolCallsFail(h)
      BY <3>2 DEF TypeOK, PromptCheckRunning, ManualToolCallsFail, Answer, conv, tvars
    <3>3. CASE AppendUserMessage(h)
      <4>1. Range(messages') = Range(messages) \cup {hprompt[h]}
        BY <3>3, RangeOfAppend DEF TypeOK, AppendUserMessage
      <4> QED
        BY <3>3, <4>1 DEF TypeOK, AppendUserMessage, tvars
    <3>4. CASE ArmRunning(h)
      BY <3>4 DEF TypeOK, ArmRunning, SetConvRunning, tvars
    <3>5. CASE SpawnTurn(h)
      <4> DEFINE new == spawned + 1
      <4>1. /\ new \in Turns /\ hpc[h] = "spawn" /\ hpc'[h] = "idle"
            /\ tpc' = [tpc EXCEPT ![new] = "lookup"]
            /\ tprompt' = [tprompt EXCEPT ![new] = hprompt[h]]
            /\ UNCHANGED conv
        BY <3>5, ConvTurnAssumption DEF TypeOK, SpawnTurn, StartTurn, Answer
      <4>2. /\ \A t \in Turns : t # new => tpc'[t] = tpc[t] /\ tprompt'[t] = tprompt[t]
            /\ tpc'[new] = "lookup" /\ tprompt'[new] = hprompt[h]
        BY <4>1 DEF TypeOK
      <4>3. \A t \in Turns : ~ AtWork(t)
        BY <4>1
      <4>4. \A t \in Turns : AtWork(t)' => t = new
        BY <4>2, <4>3
      <4>5. running /\ session # "none" /\ hprompt[h] \in Range(messages) /\ queue = <<>>
        BY <4>1
      <4>6. /\ queue' = queue /\ session' = session /\ running' = running
            /\ messages' = messages
        BY <4>1 DEF conv
      <4> HIDE DEF new
      <4> QED
        BY <4>1, <4>2, <4>4, <4>5, <4>6
    <3>6. CASE CancelContext(h) \/ CancelClearRunning(h)
      <4>1. hpc[h] \notin {"cancelContext", "clearRunning"}
        OBVIOUS
      <4> QED
        BY <3>6, <4>1 DEF CancelContext, CancelClearRunning
    <3> QED
      BY <2>2, <3>1, <3>2, <3>3, <3>4, <3>5, <3>6 DEF HandlerStep
  <2>3. ASSUME NEW t \in Turns, TurnStep(t) PROVE CareInv(h)'
    <3>1. /\ UNCHANGED <<exists, messages, queue, hpc, hprompt, tprompt>>
          /\ \A u \in Turns : u # t => tpc'[u] = tpc[u]
          /\ tpc'[t] \notin {"append", "arm", "spawn"}
          /\ AtWork(t)' => AtWork(t)
          /\ session' = session \/ session' = "live"
          /\ running' = running \/ (AtWork(t) /\ ~ AtWork(t)')
      <4>1. CASE TurnLookup(t) \/ TurnCheckConn(t) \/ TurnConnect(t) \/ TurnConnectFails(t)
        <5>1. CASE TurnLookup(t)
          BY <5>1 DEF TypeOK, TurnLookup, Goto, Busy, conv, hvars
        <5>2. CASE TurnCheckConn(t)
          BY <5>2 DEF TypeOK, TurnCheckConn, Goto, Busy, conv, hvars
        <5>3. CASE TurnConnect(t)
          BY <5>3 DEF TypeOK, TurnConnect, Goto, Busy, conv, hvars
        <5>4. CASE TurnConnectFails(t)
          BY <5>4 DEF TypeOK, TurnConnectFails, Goto, Busy, conv, hvars
        <5> QED
          BY <4>1, <5>1, <5>2, <5>3, <5>4
      <4>2. CASE TurnStoreCancel(t) \/ PromptReturns(t) \/ TurnNewSession(t)
        <5>1. CASE TurnStoreCancel(t)
          BY <5>1 DEF TypeOK, TurnStoreCancel, Goto, Busy, hvars
        <5>2. CASE PromptReturns(t)
          BY <5>2 DEF TypeOK, PromptReturns, Goto, Busy, conv, hvars
        <5>3. CASE TurnNewSession(t)
          BY <5>3 DEF TypeOK, TurnNewSession, Goto, Busy, hvars
        <5> QED
          BY <4>2, <5>1, <5>2, <5>3
      <4>3. CASE TurnAbort(t) \/ TurnFinish(t)
        <5>1. CASE TurnAbort(t)
          BY <5>1 DEF TypeOK, TurnAbort, Goto, Busy, hvars
        <5>2. CASE TurnFinish(t)
          BY <5>2 DEF TypeOK, TurnFinish, Goto, Busy, hvars
        <5> QED
          BY <4>3, <5>1, <5>2
      <4>4. CASE DequeuePrompt(t) \/ TurnCleanup(t)
        <5>1. UNCHANGED <<exists, session, running, messages, queue, hpc, hprompt, tprompt>>
          BY <4>4 DEF DequeuePrompt, TurnCleanup, hvars
        <5>2. Goto(t, "dequeue", "cleanup") \/ Goto(t, "cleanup", "done")
          BY <4>4 DEF DequeuePrompt, TurnCleanup
        <5>3. /\ tpc[t] \in {"dequeue", "cleanup"} /\ tpc'[t] \in {"cleanup", "done"}
              /\ \A u \in Turns : u # t => tpc'[u] = tpc[u]
          BY <5>2 DEF TypeOK, Goto
        <5>4. ~ AtWork(t) /\ ~ AtWork(t)'
          BY <5>3 DEF Busy
        <5> QED
          BY <5>1, <5>3, <5>4
      <4>5. ~ HandOffAppend(t) /\ ~ HandOffArm(t) /\ ~ HandOffSpawn(t)
        BY DEF HandOffAppend, HandOffArm, HandOffSpawn, Goto
      <4> QED
        BY <2>3, <4>1, <4>2, <4>3, <4>4, <4>5 DEF TurnStep
    <3>2. \A u \in Turns : AtWork(u)' => AtWork(u)
      BY <3>1
    <3>3. running' # running => \A u \in Turns : ~ AtWork(u)'
      BY <3>1, <3>2
    <3>4. running' # running => hpc[h] # "spawn"
      BY <3>1
    <3> QED
      BY <3>1, <3>2, <3>3, <3>4
  <2>4. CASE ConnectElsewhere \/ AgentDies
    BY <2>4 DEF ConnectElsewhere, AgentDies, conv, hvars, tvars
  <2>5. CASE UNCHANGED vars
    BY <2>5 DEF vars, conv, hvars, tvars
  <2> QED
    BY <2>1, <2>2, <2>3, <2>4, <2>5, StepCases
<1> QED
  BY <1>1, <1>2, TypeCorrect, SlotsStayInOrder, PTL DEF Spec

(* With such a client at most one turn of the conversation is at work, also when
   the agent ends, connecting fails or the conversation is undone or deleted.
   (handleConvPrompt, server_conversations.go:301; runACPPrompt,
   server_acp.go:435-451.) *)
THEOREM CarefulOneTurn ==
    ASSUME NEW h, CarefulClient(h)
    PROVE  Spec => []OneTurnAtATime
<1>1. CareInv(h) => OneTurnAtATime
  <2> SUFFICES ASSUME CareInv(h) PROVE OneTurnAtATime
    OBVIOUS
  <2> DEFINE c == Cardinality(BusyTurns)
  <2>1. BusyTurns = {} \/ \E t \in Turns : BusyTurns = {t}
    BY DEF CareInv, AtWork, BusyTurns
  <2>2. Cardinality({}) = 0 /\ \A t : Cardinality({t}) = 1
    BY FS_EmptySet, FS_Singleton, Zenon
  <2>3. c = 0 \/ c = 1
    BY <2>1, <2>2, Zenon
  <2> HIDE DEF c
  <2>4. c <= 1
    BY <2>3
  <2> QED
    BY <2>4 DEF c, OneTurnAtATime
<1> QED
  BY <1>1, CareInvHolds, PTL

(* Nor does such a client cut what is being answered: the user message of the
   turn at work stays in the conversation.  (handleConvUndo,
   server_conversations.go:454.) *)
THEOREM CarefulTurnRecorded ==
    ASSUME NEW h, CarefulClient(h)
    PROVE  Spec => []BusyTurnRecorded
<1>1. CareInv(h) => BusyTurnRecorded
  BY DEF CareInv, AtWork, BusyTurnRecorded, BusyTurns
<1> QED
  BY <1>1, CareInvHolds, PTL
=============================================================================
