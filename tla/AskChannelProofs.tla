-------------------------- MODULE AskChannelProofs --------------------------
(***************************************************************************)
(* Proofs about AskChannel, for any number of conversations, asks and      *)
(* tabs: no handler waits for an answer that cannot come, and no answer    *)
(* waits for room in a channel.                                            *)
(***************************************************************************)
EXTENDS AskChannel, FiniteSetTheorems, SequenceTheorems, TLAPS

(* Where a handler can be. *)
Places == {"idle", "route", "show", "register", "wait", "run", "running", "reply", "done"}

(* The variables the argument is about hold what their types allow. *)
ChannelTypes ==
    /\ apc \in [Asks -> Places]
    /\ askPends \subseteq Asks
    /\ channel \in [Asks -> Seq(BOOLEAN)]
    /\ tpc \in [Tabs -> {"idle", "send"}]
    /\ posted \in [Tabs -> Seq(Asks \X BOOLEAN)]

(* An ask has at most one of: an entry in s.askPends, an answer being sent, an
   answer in its channel; and it has one exactly while its handler waits. *)
OneToken ==
    /\ \A t \in Tabs : tpc[t] = "send" => posted[t] # <<>>
    /\ \A a \in askPends : Sending(a) = {} /\ channel[a] = <<>>
    /\ \A a \in Asks : \A t, u \in Sending(a) : t = u
    /\ \A a \in Asks : Sending(a) # {} => channel[a] = <<>>
    /\ \A a \in Asks :
          apc[a] = "wait" <=> a \in askPends \/ Sending(a) # {} \/ channel[a] # <<>>

IInv == ChannelTypes /\ OneToken

LEMMA InitIInv == Init => IInv
  BY DEF Init, IInv, ChannelTypes, OneToken, Sending, Places

(* Who is sending is decided by tpc and posted alone. *)
LEMMA SendingSame ==
    ASSUME UNCHANGED <<tpc, posted>>
    PROVE  \A a : Sending(a)' = Sending(a)
  BY DEF Sending

(* Steps that leave the tokens and the waiting handlers alone. *)
LEMMA TokensUntouched ==
    ASSUME IInv, UNCHANGED <<askPends, channel, tpc, posted>>,
           apc' \in [Asks -> Places],
           \A a \in Asks : apc'[a] = "wait" <=> apc[a] = "wait"
    PROVE  IInv'
<1>1. ChannelTypes'
  BY DEF IInv, ChannelTypes
<1>2. \A a : Sending(a)' = Sending(a)
  BY SendingSame
<1>3. OneToken'
  BY <1>2 DEF IInv, ChannelTypes, OneToken
<1> QED
  BY <1>1, <1>3 DEF IInv

LEMMA TurnsKeepTokens ==
    ASSUME IInv, NEW c \in Convs,
           StartTurn(c) \/ EndTurn(c) \/ CancelTurn(c) \/ DeleteConv(c)
           \/ UndoConv(c)
    PROVE  IInv'
<1>1. UNCHANGED <<apc, askPends, channel, tpc, posted>>
  BY DEF StartTurn, EndTurn, CancelTurn, DeleteConv, UndoConv, CutLast, avars
<1> QED
  BY <1>1, TokensUntouched DEF IInv, ChannelTypes

LEMMA AskMovesOn ==
    ASSUME IInv, NEW a \in Asks,
           \/ Ask(a) \/ Route(a) \/ Show(a) \/ RunCommand(a) \/ RunFails(a)
           \/ CommandEnds(a) \/ HolderEnds(a) \/ ReplyToCaller(a)
    PROVE  IInv'
<1>1. UNCHANGED <<askPends, channel, tpc, posted>>
  BY DEF Ask, Route, Show, RunCommand, RunFails, CommandEnds, HolderEnds, ReplyToCaller
<1>2. CASE HolderEnds(a)
  BY <1>1, <1>2, TokensUntouched DEF HolderEnds, IInv, ChannelTypes
<1>3. CASE ~HolderEnds(a)
  <2>1. PICK to \in {"route", "show", "register", "running", "reply", "done"} :
          apc[a] # "wait" /\ apc' = [apc EXCEPT ![a] = to]
    BY <1>3 DEF Ask, Route, Show, RunCommand, RunFails, CommandEnds, ReplyToCaller, AskGoto
  <2>2. apc' \in [Asks -> Places]
    BY <2>1 DEF IInv, ChannelTypes, Places
  <2>3. \A b \in Asks : apc'[b] = "wait" <=> apc[b] = "wait"
    BY <2>1 DEF IInv, ChannelTypes
  <2> QED
    BY <1>1, <2>2, <2>3, TokensUntouched
<1> QED
  BY <1>2, <1>3

LEMMA RegisterMakesToken ==
    ASSUME IInv, NEW a \in Asks, Register(a)
    PROVE  IInv'
<1>1. /\ apc[a] = "register"
      /\ apc' = [apc EXCEPT ![a] = "wait"]
      /\ askPends' = askPends \cup {a}
      /\ UNCHANGED <<channel, tpc, posted>>
  BY DEF Register, AskGoto
<1>2. \A b : Sending(b)' = Sending(b)
  BY <1>1, SendingSame
<1>3. ChannelTypes'
  BY <1>1 DEF IInv, ChannelTypes, Places
<1>4. a \notin askPends /\ Sending(a) = {} /\ channel[a] = <<>>
  BY <1>1 DEF IInv, ChannelTypes, OneToken
<1>5. OneToken'
  BY <1>1, <1>2, <1>4 DEF IInv, ChannelTypes, OneToken
<1> QED
  BY <1>3, <1>5 DEF IInv

LEMMA ReceiveTakesToken ==
    ASSUME IInv, NEW a \in Asks, ReceiveAnswer(a)
    PROVE  IInv'
<1>1. PICK to \in {"run", "reply"} :
        /\ channel[a] # <<>>
        /\ apc' = [apc EXCEPT ![a] = to]
        /\ channel' = [channel EXCEPT ![a] = <<>>]
        /\ UNCHANGED <<askPends, tpc, posted>>
  BY DEF ReceiveAnswer, AskGoto
<1>2. \A b : Sending(b)' = Sending(b)
  BY <1>1, SendingSame
<1>3. ChannelTypes'
  BY <1>1 DEF IInv, ChannelTypes, Places
<1>4. a \notin askPends /\ Sending(a) = {}
  BY <1>1 DEF IInv, OneToken
<1>5. OneToken'
  BY <1>1, <1>2, <1>4 DEF IInv, ChannelTypes, OneToken
<1> QED
  BY <1>3, <1>5 DEF IInv

LEMMA TakeMovesToken ==
    ASSUME IInv, NEW t \in Tabs, NEW a \in Asks, TakePending(t, a)
    PROVE  IInv'
<1>1. /\ tpc[t] = "idle"
      /\ tpc' = IF a \in askPends THEN [tpc EXCEPT ![t] = "send"] ELSE tpc
      /\ askPends' = askPends \ {a}
      /\ UNCHANGED <<apc, channel>>
  BY DEF TakePending, Answers, avars
<1>2. PICK v \in BOOLEAN : posted' = [posted EXCEPT ![t] = Append(posted[t], <<a, v>>)]
  BY DEF TakePending, Answers
<1>3. /\ posted'[t] = Append(posted[t], <<a, v>>)
      /\ posted'[t] # <<>>
      /\ Last(posted'[t]) = <<a, v>>
      /\ posted'[t] \in Seq(Asks \X BOOLEAN)
  <2>1. posted \in [Tabs -> Seq(Asks \X BOOLEAN)] /\ <<a, v>> \in Asks \X BOOLEAN
    BY DEF IInv, ChannelTypes
  <2>2. posted[t] \in Seq(Asks \X BOOLEAN) /\ posted'[t] = Append(posted[t], <<a, v>>)
    BY <1>2, <2>1
  <2>3. /\ posted'[t] \in Seq(Asks \X BOOLEAN) /\ posted'[t] # <<>>
        /\ posted'[t][Len(posted'[t])] = <<a, v>>
    BY <2>1, <2>2, AppendProperties
  <2> QED
    BY <2>2, <2>3 DEF Last
<1>4. \A u \in Tabs \ {t} : posted'[u] = posted[u] /\ tpc'[u] = tpc[u]
  BY <1>1, <1>2 DEF IInv, ChannelTypes
<1>5. ChannelTypes'
  BY <1>1, <1>2, <1>3 DEF IInv, ChannelTypes
<1>6. \A b \in Asks : t \notin Sending(b)
  BY <1>1 DEF Sending
<1>7. \A b \in Asks : Sending(b)' = IF b = a /\ a \in askPends THEN Sending(b) \cup {t} ELSE Sending(b)
  <2> SUFFICES ASSUME NEW b \in Asks
               PROVE  Sending(b)' = IF b = a /\ a \in askPends THEN Sending(b) \cup {t} ELSE Sending(b)
    OBVIOUS
  <2>1. \A u \in Tabs \ {t} : u \in Sending(b)' <=> u \in Sending(b)
    BY <1>4 DEF Sending
  <2>2. tpc'[t] = "send" <=> a \in askPends
    BY <1>1 DEF IInv, ChannelTypes
  <2>3. Last(posted'[t])[1] = a
    BY <1>3
  <2>4. t \in Sending(b)' <=> b = a /\ a \in askPends
    BY <2>2, <2>3 DEF Sending
  <2>5. Sending(b) \subseteq Tabs /\ Sending(b)' \subseteq Tabs
    BY DEF Sending
  <2> QED
    BY <1>6, <2>1, <2>4, <2>5
<1>8. \A u \in Tabs : tpc'[u] = "send" => posted'[u] # <<>>
  BY <1>1, <1>3, <1>4 DEF IInv, OneToken
<1>9. \A b \in askPends' : Sending(b)' = {} /\ channel'[b] = <<>>
  BY <1>1, <1>7 DEF IInv, ChannelTypes, OneToken
<1>10. \A b \in Asks : \A u, w \in Sending(b)' : u = w
  BY <1>7 DEF IInv, OneToken
<1>11. \A b \in Asks : Sending(b)' # {} => channel'[b] = <<>>
  BY <1>1, <1>7 DEF IInv, OneToken
<1>12. \A b \in Asks :
          apc'[b] = "wait" <=> b \in askPends' \/ Sending(b)' # {} \/ channel'[b] # <<>>
  BY <1>1, <1>7 DEF IInv, OneToken
<1> QED
  BY <1>5, <1>8, <1>9, <1>10, <1>11, <1>12 DEF IInv, OneToken

LEMMA SendMovesToken ==
    ASSUME IInv, NEW t \in Tabs, SendAnswer(t)
    PROVE  IInv'
<1>1. PICK ask \in Asks, approved \in BOOLEAN : Last(posted[t]) = <<ask, approved>>
  <2>1. posted[t] \in Seq(Asks \X BOOLEAN) /\ posted[t] # <<>>
    BY DEF IInv, ChannelTypes, OneToken, SendAnswer
  <2>2. Last(posted[t]) \in Asks \X BOOLEAN
    BY <2>1 DEF Last
  <2> QED
    BY <2>2
<1>2. /\ tpc[t] = "send"
      /\ channel[ask] = <<>>
      /\ channel' = [channel EXCEPT ![ask] = <<approved>>]
      /\ tpc' = [tpc EXCEPT ![t] = "idle"]
      /\ UNCHANGED <<apc, askPends, posted>>
  BY <1>1 DEF SendAnswer, avars
<1>3. channel'[ask] = <<approved>> /\ channel'[ask] # <<>>
  BY <1>1, <1>2 DEF IInv, ChannelTypes
<1>4. \A b \in Asks \ {ask} : channel'[b] = channel[b]
  BY <1>2 DEF IInv, ChannelTypes
<1>5. ChannelTypes'
  BY <1>1, <1>2 DEF IInv, ChannelTypes
<1>6. t \in Sending(ask)
  BY <1>1, <1>2 DEF Sending
<1>7. \A b \in Asks : Sending(b)' = Sending(b) \ {t}
  BY <1>2 DEF Sending, IInv, ChannelTypes
<1>8. Sending(ask)' = {}
  <2>1. \A u \in Sending(ask) : u = t
    BY <1>1, <1>6 DEF IInv, OneToken
  <2> QED
    BY <1>1, <1>7, <2>1
<1>9. \A b \in Asks \ {ask} : t \notin Sending(b)
  BY <1>1 DEF Sending
<1>10. ask \notin askPends
  BY <1>6 DEF IInv, OneToken
<1>11. \A u \in Tabs : tpc'[u] = "send" => posted'[u] # <<>>
  BY <1>2 DEF IInv, ChannelTypes, OneToken
<1>12. \A b \in askPends' : Sending(b)' = {} /\ channel'[b] = <<>>
  BY <1>2, <1>4, <1>7, <1>10 DEF IInv, ChannelTypes, OneToken
<1>13. \A b \in Asks : \A u, w \in Sending(b)' : u = w
  BY <1>7 DEF IInv, OneToken
<1>14. \A b \in Asks : Sending(b)' # {} => channel'[b] = <<>>
  <2>1. \A b \in Asks \ {ask} : Sending(b)' # {} => channel'[b] = <<>>
    BY <1>4, <1>7 DEF IInv, OneToken
  <2> QED
    BY <1>8, <2>1
<1>15. \A b \in Asks :
          apc'[b] = "wait" <=> b \in askPends' \/ Sending(b)' # {} \/ channel'[b] # <<>>
  <2>1. apc[ask] = "wait"
    BY <1>1, <1>6 DEF IInv, OneToken
  <2>2. \A b \in Asks \ {ask} : Sending(b)' = Sending(b)
    BY <1>7, <1>9
  <2> QED
    BY <1>2, <1>3, <1>4, <2>1, <2>2 DEF IInv, OneToken
<1> QED
  BY <1>5, <1>11, <1>12, <1>13, <1>14, <1>15 DEF IInv, OneToken

LEMMA StepIInv == IInv /\ [Next]_vars => IInv'
<1> SUFFICES ASSUME IInv, [Next]_vars PROVE IInv'
  OBVIOUS
<1>1. CASE \E c \in Convs : StartTurn(c) \/ EndTurn(c) \/ CancelTurn(c) \/ DeleteConv(c)
           \/ UndoConv(c)
  BY <1>1, TurnsKeepTokens
<1>2. CASE \E a \in Asks : \/ Ask(a) \/ Route(a) \/ Show(a) \/ RunCommand(a) \/ RunFails(a)
                            \/ CommandEnds(a) \/ HolderEnds(a) \/ ReplyToCaller(a)
  BY <1>2, AskMovesOn
<1>3. CASE \E a \in Asks : Register(a)
  BY <1>3, RegisterMakesToken
<1>4. CASE \E a \in Asks : ReceiveAnswer(a)
  BY <1>4, ReceiveTakesToken
<1>5. CASE \E t \in Tabs : \E a \in Asks : TakePending(t, a)
  BY <1>5, TakeMovesToken
<1>6. CASE \E t \in Tabs : SendAnswer(t)
  BY <1>6, SendMovesToken
<1>7. CASE UNCHANGED vars
  BY <1>7, TokensUntouched DEF vars, avars, IInv, ChannelTypes
<1> QED
  BY <1>1, <1>2, <1>3, <1>4, <1>5, <1>6, <1>7 DEF Next, AskStep

LEMMA AlwaysIInv == Spec => []IInv
  BY InitIInv, StepIInv, PTL DEF Spec

(* A handler that waits for an answer (waitForAskAnswer) can always still get
   one, for any number of asks and tabs. *)
THEOREM WaiterNeverStranded == Spec => []WaiterReachable
<1>1. IInv => WaiterReachable
  BY DEF IInv, OneToken, WaiterReachable
<1> QED
  BY <1>1, AlwaysIInv, PTL

(* handleAskAnswer never blocks on the channel it sends to, however many tabs
   answer one question. *)
THEOREM NoAnswerBlocks == Spec => []AnswersNeverBlock
<1>1. IInv => AnswersNeverBlock
  <2> SUFFICES ASSUME IInv, NEW a \in Asks
               PROVE  /\ Cardinality(Sending(a)) <= 1
                      /\ Sending(a) # {} => channel[a] = <<>> /\ apc[a] = "wait"
    BY DEF AnswersNeverBlock
  <2>1. Sending(a) # {} => channel[a] = <<>> /\ apc[a] = "wait"
    BY DEF IInv, OneToken
  <2>2. CASE Sending(a) = {}
    BY <2>1, <2>2, FS_EmptySet
  <2>3. CASE Sending(a) # {}
    <3>1. PICK t \in Sending(a) : TRUE
      BY <2>3
    <3>2. Sending(a) = {t}
      BY <3>1 DEF IInv, OneToken
    <3>3. Cardinality(Sending(a)) = 1
      BY <3>2, FS_Singleton
    <3> QED
      BY <2>1, <3>3
  <2> QED
    BY <2>2, <2>3
<1> QED
  BY <1>1, AlwaysIInv, PTL

-----------------------------------------------------------------------------
(* What was run is on record. *)

(* Every entry of the list is there once. *)
Distinct(s) == \A j, k \in 1 .. Len(s) : s[j] = s[k] => j = k

(* The conversations are a list, and an ask has one bubble. *)
RecordTypes ==
    /\ order \in Seq(Convs) /\ Distinct(order) /\ turns \in Seq(Convs)
    /\ shownIn = [a \in Asks |-> shownIn[a]]
    /\ owner = [a \in Asks |-> owner[a]]
    /\ caller \in [Asks -> {"none", "waiting", "gone", "replied"}]
    /\ bubble \in [Asks -> {"none", "open", "approved", "answered", "cut"}]
    /\ ran \subseteq Asks

(* A tool waits only for as long as its turn runs, or for ever when the
   conversation has been deleted. *)
WaitsInTurn ==
    \A a \in Asks : caller[a] = "waiting" =>
        owner[a] \in Range(turns) \/ owner[a] \notin Range(order)

(* The tool waits in the conversation that shows the question. *)
WaitsHere(a) == caller[a] = "waiting" /\ owner[a] = shownIn[a]

(* The bubble of an ask has a past that goes with where its handler is: it is
   there before anybody can answer, and says "approved" before the command
   runs, unless an undo has cut it.  The conversation may be gone at any of these
   moments. *)
OnRecord ==
    /\ \A a \in Asks : apc[a] \in {"idle", "route", "show"} => bubble[a] = "none"
    /\ \A a \in Asks : shownIn[a] \in Range(order) =>
          /\ apc[a] \in {"register", "wait"} => bubble[a] # "none"
          /\ apc[a] = "run" \/ a \in ran => bubble[a] \in {"approved", "cut"}
          /\ bubble[a] = "cut" => ~WaitsHere(a)
    /\ \A a \in ran : apc[a] \in {"running", "reply", "done"}

RInv == ChannelTypes /\ RecordTypes /\ WaitsInTurn /\ OnRecord

(* What a list is without one of its entries. *)
LEMMA RemoveAtIs ==
    ASSUME NEW S, NEW s \in Seq(S), NEW i \in 1 .. Len(s)
    PROVE  /\ RemoveAt(s, i) \in Seq(S)
           /\ Len(RemoveAt(s, i)) = Len(s) - 1
           /\ \A j \in 1 .. Len(s) - 1 :
                 RemoveAt(s, i)[j] = IF j < i THEN s[j] ELSE s[j + 1]
<1> DEFINE a == SubSeq(s, 1, i - 1)
           b == SubSeq(s, i + 1, Len(s))
<1>1. Len(s) \in Nat /\ \A j \in 1 .. Len(s) : s[j] \in S
  BY LenProperties, ElementOfSeq
<1>2. /\ a \in Seq(S)
      /\ Len(a) = i - 1
      /\ \A j \in 1 .. i - 1 : a[j] = s[j]
  <2>1. \A j \in 1 .. i - 1 : s[j] \in S
    BY <1>1
  <2>2. /\ a \in Seq(S)
        /\ Len(a) = IF 1 <= i - 1 THEN (i - 1) - 1 + 1 ELSE 0
        /\ \A j \in 1 .. (i - 1) - 1 + 1 : a[j] = s[1 + j - 1]
    BY <1>1, <2>1, SubSeqProperties
  <2>3. QED
    BY <1>1, <2>2
<1>3. /\ b \in Seq(S)
      /\ Len(b) = Len(s) - i
      /\ \A j \in 1 .. Len(s) - i : b[j] = s[i + j]
  <2>1. \A j \in i + 1 .. Len(s) : s[j] \in S
    BY <1>1
  <2>2. /\ b \in Seq(S)
        /\ Len(b) = IF i + 1 <= Len(s) THEN Len(s) - (i + 1) + 1 ELSE 0
        /\ \A j \in 1 .. Len(s) - (i + 1) + 1 : b[j] = s[(i + 1) + j - 1]
    BY <1>1, <2>1, SubSeqProperties
  <2>3. QED
    BY <1>1, <2>2
<1>4. /\ a \o b \in Seq(S)
      /\ Len(a \o b) = Len(a) + Len(b)
      /\ \A j \in 1 .. Len(a) + Len(b) :
            (a \o b)[j] = IF j <= Len(a) THEN a[j] ELSE b[j - Len(a)]
  BY <1>2, <1>3, ConcatProperties
<1>5. RemoveAt(s, i) = a \o b
  BY DEF RemoveAt
<1> HIDE DEF a, b
<1>6. ASSUME NEW j \in 1 .. Len(s) - 1
      PROVE  (a \o b)[j] = IF j < i THEN s[j] ELSE s[j + 1]
  <2>1. CASE j < i
    BY <1>1, <1>2, <1>3, <1>4, <2>1
  <2>2. CASE ~(j < i)
    <3>1. j - (i - 1) \in 1 .. Len(s) - i /\ i + (j - (i - 1)) = j + 1
      BY <1>1, <2>2
    <3>2. (a \o b)[j] = b[j - (i - 1)]
      BY <1>1, <1>2, <1>3, <1>4, <2>2
    <3>3. b[j - (i - 1)] = s[i + (j - (i - 1))]
      BY <1>3, <3>1
    <3>4. QED
      BY <2>2, <3>1, <3>2, <3>3
  <2>3. QED
    BY <2>1, <2>2
<1>7. Len(a \o b) = Len(s) - 1
  BY <1>1, <1>2, <1>3, <1>4
<1> QED
  BY <1>4, <1>5, <1>6, <1>7

(* Taking an entry out of a list adds none, and keeps all the others. *)
LEMMA RangeOfRemoveAt ==
    ASSUME NEW S, NEW s \in Seq(S), NEW i \in 1 .. Len(s)
    PROVE  /\ RemoveAt(s, i) \in Seq(S)
           /\ Range(RemoveAt(s, i)) \subseteq Range(s)
           /\ \A j \in 1 .. Len(s) : j # i => s[j] \in Range(RemoveAt(s, i))
           /\ Distinct(s) => Distinct(RemoveAt(s, i)) /\ s[i] \notin Range(RemoveAt(s, i))
<1> DEFINE r == RemoveAt(s, i)
<1>1. /\ r \in Seq(S) /\ Len(r) = Len(s) - 1
      /\ \A k \in 1 .. Len(s) - 1 : r[k] = IF k < i THEN s[k] ELSE s[k + 1]
  BY RemoveAtIs
<1>2. Range(r) = {r[k] : k \in 1 .. Len(r)} /\ Range(s) = {s[k] : k \in 1 .. Len(s)}
  BY <1>1, RangeEquality
<1>3. Len(s) \in Nat /\ i \in Nat /\ i <= Len(s) /\ i >= 1
  BY LenProperties
<1> HIDE DEF r
<1>4. Range(r) \subseteq Range(s)
  BY <1>1, <1>2, <1>3
<1>5. ASSUME NEW j \in 1 .. Len(s), j # i
      PROVE  s[j] \in Range(r)
  <2>1. CASE j < i
    <3>1. j \in 1 .. Len(r) /\ r[j] = s[j]
      BY <1>1, <1>3, <2>1
    <3> QED
      BY <1>2, <3>1
  <2>2. CASE j > i
    <3>1. j - 1 \in 1 .. Len(r) /\ r[j - 1] = s[j]
      BY <1>1, <1>3, <2>2
    <3> QED
      BY <1>2, <3>1
  <2> QED
    BY <1>3, <1>5, <2>1, <2>2
<1>6. ASSUME Distinct(s)
      PROVE  Distinct(r) /\ s[i] \notin Range(r)
  <2>1. \A k \in 1 .. Len(r) : r[k] # s[i]
    BY <1>1, <1>3, <1>6 DEF Distinct
  <2>2. \A j, k \in 1 .. Len(r) : r[j] = r[k] => j = k
    BY <1>1, <1>3, <1>6 DEF Distinct
  <2> QED
    BY <1>2, <2>1, <2>2 DEF Distinct
<1> QED
  BY <1>1, <1>4, <1>5, <1>6 DEF r

(* Stopping a turn leaves the others. *)
LEMMA StopKeepsOthers ==
    ASSUME NEW c, turns \in Seq(Convs), Stop(c)
    PROVE  /\ turns' \in Seq(Convs)
           /\ \A d \in Range(turns) : d # c => d \in Range(turns')
<1>1. DOMAIN turns = 1 .. Len(turns) /\ Range(turns) = {turns[j] : j \in 1 .. Len(turns)}
  BY LenProperties, RangeEquality
<1>2. CASE UNCHANGED turns
  BY <1>2
<1>3. CASE \E i \in DOMAIN turns : turns[i] = c /\ turns' = RemoveAt(turns, i)
  BY <1>1, <1>3, RangeOfRemoveAt
<1> QED
  BY <1>2, <1>3 DEF Stop

LEMMA InitRInv == Init => RInv
<1> SUFFICES ASSUME Init PROVE RInv
  OBVIOUS
<1>1. Cardinality(Convs) \in Nat
  BY AskChannelAssumption, FS_CardinalityType
<1>2. order \in Seq(Convs)
  BY <1>1, SeqDef DEF Init
<1>3. turns \in Seq(Convs)
  BY EmptySeq DEF Init
<1>5. Distinct(order)
  <2>1. DOMAIN order = 1 .. Len(order) /\ Len(order) \in Nat
    BY <1>2, LenProperties
  <2>2. \A j \in 1 .. Len(order) : order[j] \in Nat
    BY <1>2, <2>1, ElementOfSeq, AskChannelAssumption
  <2>3. \A i, j \in 1 .. Len(order) : i < j => order[i] # order[j]
    BY <2>1, <2>2 DEF Init
  <2> QED
    BY <2>1, <2>3 DEF Distinct
<1>4. ChannelTypes
  BY InitIInv DEF IInv
<1> QED
  BY <1>2, <1>3, <1>4, <1>5 DEF Init, RInv, RecordTypes, WaitsInTurn, OnRecord, WaitsHere

(* Steps of the turns: the conversations that are there are among those that
   were, a tool that still waits did so before, and its turn goes on. *)
LEMMA TurnsKeepRecord ==
    ASSUME RInv, NEW c \in Convs,
           StartTurn(c) \/ EndTurn(c) \/ CancelTurn(c) \/ DeleteConv(c)
    PROVE  RecordTypes' /\ WaitsInTurn' /\ OnRecord'
<1>1. UNCHANGED <<apc, owner, shownIn, bubble, ran>>
  BY DEF StartTurn, EndTurn, CancelTurn, DeleteConv, avars
<1>2. order' \in Seq(Convs) /\ Distinct(order') /\ Range(order') \subseteq Range(order)
  <2>1. CASE StartTurn(c) \/ EndTurn(c) \/ CancelTurn(c)
    BY <2>1 DEF StartTurn, EndTurn, CancelTurn, RInv, RecordTypes
  <2>2. CASE DeleteConv(c)
    <3>1. DOMAIN order = 1 .. Len(order)
      BY LenProperties DEF RInv, RecordTypes
    <3> QED
      BY <2>2, <3>1, RangeOfRemoveAt DEF DeleteConv, RInv, RecordTypes
  <2> QED
    BY <2>1, <2>2
<1>3. /\ caller' \in [Asks -> {"none", "waiting", "gone", "replied"}]
      /\ \A a \in Asks : caller'[a] = "waiting" => caller[a] = "waiting"
  BY DEF StartTurn, EndTurn, CancelTurn, DeleteConv, avars, RInv, RecordTypes
<1>4. turns' \in Seq(Convs) /\ WaitsInTurn'
  <2>1. CASE StartTurn(c)
    <3>1. turns' = Append(turns, c)
      BY <2>1 DEF StartTurn
    <3>2. turns' \in Seq(Convs)
      BY <3>1, AppendProperties DEF RInv, RecordTypes
    <3>3. Range(turns) \subseteq Range(turns')
      <4>1. /\ Len(turns) \in Nat /\ Len(turns') = Len(turns) + 1
            /\ \A j \in 1 .. Len(turns) : turns'[j] = turns[j]
        BY <3>1, AppendProperties, LenProperties DEF RInv, RecordTypes
      <4>2. /\ Range(turns) = {turns[j] : j \in 1 .. Len(turns)}
            /\ Range(turns') = {turns'[j] : j \in 1 .. Len(turns')}
        BY <3>2, RangeEquality DEF RInv, RecordTypes
      <4> QED
        BY <4>1, <4>2
    <3> QED
      BY <1>1, <1>2, <1>3, <3>2, <3>3 DEF RInv, WaitsInTurn
  <2>2. CASE EndTurn(c)
    <3>1. turns' \in Seq(Convs) /\ \A d \in Range(turns) : d # c => d \in Range(turns')
      BY <2>2, StopKeepsOthers DEF EndTurn, RInv, RecordTypes
    <3>2. \A a \in Asks : caller[a] = "waiting" => owner[a] # c
      BY <2>2 DEF EndTurn, Waiting
    <3> QED
      BY <1>1, <1>2, <1>3, <3>1, <3>2 DEF RInv, WaitsInTurn
  <2>3. CASE CancelTurn(c)
    <3>1. turns' \in Seq(Convs) /\ \A d \in Range(turns) : d # c => d \in Range(turns')
      BY <2>3, StopKeepsOthers DEF CancelTurn, RInv, RecordTypes
    <3>2. \A a \in Asks : caller'[a] = "waiting" => owner[a] # c
      BY <2>3 DEF CancelTurn, Waiting, RInv, RecordTypes
    <3> QED
      BY <1>1, <1>2, <1>3, <3>1, <3>2 DEF RInv, WaitsInTurn
  <2>4. CASE DeleteConv(c)
    <3>1. turns' \in Seq(Convs) /\ \A d \in Range(turns) : d # c => d \in Range(turns')
      BY <2>4, StopKeepsOthers DEF DeleteConv, RInv, RecordTypes
    <3>2. c \notin Range(order')
      <4>1. DOMAIN order = 1 .. Len(order)
        BY LenProperties DEF RInv, RecordTypes
      <4> QED
        BY <2>4, <4>1, RangeOfRemoveAt DEF DeleteConv, RInv, RecordTypes
    <3> QED
      BY <1>1, <1>2, <1>3, <3>1, <3>2 DEF RInv, WaitsInTurn
  <2> QED
    BY <2>1, <2>2, <2>3, <2>4
<1>5. RecordTypes'
  BY <1>1, <1>2, <1>3, <1>4 DEF RInv, RecordTypes
<1>6. OnRecord'
  BY <1>1, <1>2, <1>3 DEF RInv, OnRecord, WaitsHere
<1> QED
  BY <1>4, <1>5, <1>6

(* An undo cuts bubbles, in a conversation where no turn runs. *)
LEMMA UndoKeepsRecord ==
    ASSUME RInv, NEW c \in Convs, UndoConv(c)
    PROVE  RecordTypes' /\ WaitsInTurn' /\ OnRecord'
<1>1. /\ c \in Range(order) \ Range(turns)
      /\ UNCHANGED <<apc, caller, owner, shownIn, ran, order, turns>>
      /\ bubble' = [a \in Asks |->
                      IF shownIn[a] = c /\ under[a] = said[c] /\ bubble[a] # "none"
                      THEN "cut" ELSE bubble[a]]
  BY DEF UndoConv, CutLast
<1>2. RecordTypes' /\ WaitsInTurn'
  BY <1>1 DEF RInv, RecordTypes, WaitsInTurn
<1>3. \A a \in Asks :
         \/ bubble'[a] = bubble[a]
         \/ bubble'[a] = "cut" /\ bubble[a] # "none" /\ shownIn[a] = c
  BY <1>1
<1>4. \A a \in Asks : shownIn[a] = c => ~WaitsHere(a)
  BY <1>1 DEF RInv, WaitsInTurn, WaitsHere
<1>5. OnRecord'
  BY <1>1, <1>3, <1>4 DEF RInv, OnRecord, WaitsHere
<1> QED
  BY <1>2, <1>5

(* A step of a handler that leaves the bubbles and what was run alone. *)
LEMMA AskKeepsRecord ==
    ASSUME RInv, NEW a \in Asks,
           \/ Ask(a) \/ Route(a) \/ Register(a) \/ RunFails(a) \/ CommandEnds(a)
           \/ HolderEnds(a) \/ ReplyToCaller(a)
    PROVE  RecordTypes' /\ WaitsInTurn' /\ OnRecord'
<1>1. UNCHANGED <<order, turns, bubble, ran>>
  BY DEF Ask, Route, Register, RunFails, CommandEnds, HolderEnds, ReplyToCaller, cvars
<1>2. CASE Ask(a)
  <2>1. PICK c \in Range(turns) : owner' = [owner EXCEPT ![a] = c]
    BY <1>2 DEF Ask
  <2>2. /\ apc[a] = "idle" /\ apc' = [apc EXCEPT ![a] = "route"]
        /\ caller' = [caller EXCEPT ![a] = "waiting"]
        /\ shownIn' = shownIn
    BY <1>2 DEF Ask, AskGoto
  <2>3. RecordTypes'
    BY <1>1, <2>1, <2>2 DEF RInv, RecordTypes
  <2>4. WaitsInTurn'
    BY <1>1, <2>1, <2>2 DEF RInv, RecordTypes, WaitsInTurn
  <2>5. bubble[a] = "none"
    BY <2>2 DEF RInv, OnRecord
  <2>6. \A b \in Asks \ {a} : owner'[b] = owner[b] /\ caller'[b] = caller[b] /\ apc'[b] = apc[b]
    BY <2>1, <2>2 DEF RInv, RecordTypes, ChannelTypes
  <2>7. apc'[a] = "route" /\ a \notin ran
    BY <2>2 DEF RInv, RecordTypes, ChannelTypes, OnRecord
  <2>8. OnRecord'
    BY <1>1, <2>2, <2>5, <2>6, <2>7 DEF RInv, RecordTypes, OnRecord, WaitsHere
  <2> QED
    BY <2>3, <2>4, <2>8
<1>3. CASE Route(a)
  <2>1. /\ apc[a] = "route" /\ apc'[a] \in {"show", "done"}
        /\ \A b \in Asks \ {a} : apc'[b] = apc[b] /\ shownIn'[b] = shownIn[b]
        /\ owner' = owner
    BY <1>3 DEF Route, AskGoto, RInv, ChannelTypes, RecordTypes
  <2>2. shownIn' = [b \in Asks |-> shownIn'[b]]
    BY <1>3 DEF Route, RInv, RecordTypes
  <2>3. /\ caller' \in [Asks -> {"none", "waiting", "gone", "replied"}]
        /\ \A b \in Asks : caller'[b] = "waiting" => caller[b] = "waiting"
    BY <1>3 DEF Route, Reply, RInv, RecordTypes
  <2>4. bubble[a] = "none" /\ a \notin ran
    BY <2>1 DEF RInv, OnRecord
  <2>5. RecordTypes' /\ WaitsInTurn'
    BY <1>1, <2>1, <2>2, <2>3 DEF RInv, RecordTypes, WaitsInTurn
  <2>6. OnRecord'
    BY <1>1, <2>1, <2>3, <2>4 DEF RInv, RecordTypes, OnRecord, WaitsHere
  <2> QED
    BY <2>5, <2>6
<1>4. CASE Register(a) \/ RunFails(a) \/ CommandEnds(a) \/ HolderEnds(a)
  <2>1. UNCHANGED <<caller, owner, shownIn>>
    BY <1>4 DEF Register, RunFails, CommandEnds, HolderEnds
  <2>2. \/ apc' = apc
        \/ apc[a] = "register" /\ apc' = [apc EXCEPT ![a] = "wait"]
        \/ apc[a] \in {"run", "running"} /\ apc' = [apc EXCEPT ![a] = "reply"]
    BY <1>4 DEF Register, RunFails, CommandEnds, HolderEnds, AskGoto
  <2>3. RecordTypes' /\ WaitsInTurn'
    BY <1>1, <2>1 DEF RInv, RecordTypes, WaitsInTurn
  <2>4. \A b \in Asks :
           /\ apc'[b] \in {"idle", "route", "show"} => apc'[b] = apc[b]
           /\ apc'[b] \in {"register", "wait"} => apc[b] \in {"register", "wait"}
           /\ apc'[b] = "run" => apc[b] = "run"
           /\ apc[b] \in {"running", "reply", "done"}
                 => apc'[b] \in {"running", "reply", "done"}
    BY <2>2 DEF RInv, ChannelTypes
  <2>5. OnRecord'
    BY <1>1, <2>1, <2>4 DEF RInv, RecordTypes, OnRecord, WaitsHere
  <2> QED
    BY <2>3, <2>5
<1>5. CASE ReplyToCaller(a)
  <2>1. /\ apc[a] = "reply" /\ apc' = [apc EXCEPT ![a] = "done"]
        /\ UNCHANGED <<owner, shownIn>>
    BY <1>5 DEF ReplyToCaller, AskGoto
  <2>2. /\ caller' \in [Asks -> {"none", "waiting", "gone", "replied"}]
        /\ \A b \in Asks : caller'[b] = "waiting" => caller[b] = "waiting"
    BY <1>5 DEF ReplyToCaller, Reply, RInv, RecordTypes
  <2>3. RecordTypes' /\ WaitsInTurn'
    BY <1>1, <2>1, <2>2 DEF RInv, RecordTypes, WaitsInTurn
  <2>4. OnRecord'
    BY <1>1, <2>1, <2>2 DEF RInv, ChannelTypes, RecordTypes, OnRecord, WaitsHere
  <2> QED
    BY <2>3, <2>4
<1> QED
  BY <1>2, <1>3, <1>4, <1>5

LEMMA ShowMakesRecord ==
    ASSUME RInv, NEW a \in Asks, Show(a)
    PROVE  RecordTypes' /\ WaitsInTurn' /\ OnRecord'
<1>1. /\ apc[a] = "show" /\ apc' = [apc EXCEPT ![a] = "register"]
      /\ bubble' = [bubble EXCEPT ![a] =
                       IF shownIn[a] \in Range(order) THEN "open" ELSE bubble[a]]
      /\ UNCHANGED <<caller, owner, shownIn, ran, order, turns>>
  BY DEF Show, AskGoto, cvars
<1>2. RecordTypes' /\ WaitsInTurn'
  BY <1>1 DEF RInv, RecordTypes, WaitsInTurn
<1>3. a \notin ran
  BY <1>1 DEF RInv, OnRecord
<1>4. OnRecord'
  BY <1>1, <1>3 DEF RInv, ChannelTypes, RecordTypes, OnRecord, WaitsHere
<1> QED
  BY <1>2, <1>4

(* The answer is marked on the bubble in the step that decides to run. *)
LEMMA ReceiveKeepsRecord ==
    ASSUME RInv, NEW a \in Asks, ReceiveAnswer(a)
    PROVE  RecordTypes' /\ WaitsInTurn' /\ OnRecord'
<1>1. /\ apc[a] = "wait"
      /\ apc' = [apc EXCEPT ![a] =
                    IF a \in Execs /\ channel[a][1] THEN "run" ELSE "reply"]
      /\ UNCHANGED <<caller, owner, order, turns, shownIn, ran>>
  BY DEF ReceiveAnswer, AskGoto, cvars
<1>2. bubble' = [bubble EXCEPT ![a] =
                    IF bubble[a] \in {"none", "cut"} \/ shownIn[a] \notin Range(order)
                    THEN bubble[a]
                    ELSE IF channel[a][1] THEN "approved" ELSE "answered"]
  BY DEF ReceiveAnswer, Mark
<1>3. RecordTypes' /\ WaitsInTurn'
  BY <1>1, <1>2 DEF RInv, RecordTypes, WaitsInTurn
<1>4. OnRecord'
  BY <1>1, <1>2 DEF RInv, ChannelTypes, RecordTypes, OnRecord, WaitsHere
<1> QED
  BY <1>3, <1>4

LEMMA RunKeepsRecord ==
    ASSUME RInv, NEW a \in Asks, RunCommand(a)
    PROVE  RecordTypes' /\ WaitsInTurn' /\ OnRecord'
<1>1. /\ apc[a] = "run" /\ apc' = [apc EXCEPT ![a] = "running"]
      /\ ran' = ran \cup {a}
      /\ UNCHANGED <<caller, owner, order, turns, shownIn, bubble>>
  BY DEF RunCommand, AskGoto, cvars
<1>2. RecordTypes' /\ WaitsInTurn'
  BY <1>1 DEF RInv, RecordTypes, WaitsInTurn
<1>3. OnRecord'
  BY <1>1 DEF RInv, ChannelTypes, RecordTypes, OnRecord, WaitsHere
<1> QED
  BY <1>2, <1>3

LEMMA TabsKeepRecord ==
    ASSUME RInv, NEW t \in Tabs, SendAnswer(t) \/ \E a \in Asks : TakePending(t, a)
    PROVE  RecordTypes' /\ WaitsInTurn' /\ OnRecord'
<1>1. UNCHANGED <<avars, cvars>>
  BY DEF SendAnswer, TakePending
<1> QED
  BY <1>1 DEF avars, cvars, RInv, RecordTypes, WaitsInTurn, OnRecord, WaitsHere

LEMMA StepRInv == IInv /\ RInv /\ [Next]_vars => RInv'
<1> SUFFICES ASSUME IInv, RInv, [Next]_vars PROVE RInv'
  OBVIOUS
<1>1. ChannelTypes'
  BY StepIInv DEF IInv
<1>2. CASE \E c \in Convs : StartTurn(c) \/ EndTurn(c) \/ CancelTurn(c) \/ DeleteConv(c)
  BY <1>1, <1>2, TurnsKeepRecord DEF RInv
<1>3. CASE \E c \in Convs : UndoConv(c)
  BY <1>1, <1>3, UndoKeepsRecord DEF RInv
<1>4. CASE \E a \in Asks : \/ Ask(a) \/ Route(a) \/ Register(a) \/ RunFails(a)
                           \/ CommandEnds(a) \/ HolderEnds(a) \/ ReplyToCaller(a)
  BY <1>1, <1>4, AskKeepsRecord DEF RInv
<1>5. CASE \E a \in Asks : Show(a)
  BY <1>1, <1>5, ShowMakesRecord DEF RInv
<1>6. CASE \E a \in Asks : ReceiveAnswer(a)
  BY <1>1, <1>6, ReceiveKeepsRecord DEF RInv
<1>7. CASE \E a \in Asks : RunCommand(a)
  BY <1>1, <1>7, RunKeepsRecord DEF RInv
<1>8. CASE \E t \in Tabs : SendAnswer(t) \/ \E a \in Asks : TakePending(t, a)
  BY <1>1, <1>8, TabsKeepRecord DEF RInv
<1>9. CASE UNCHANGED vars
  BY <1>1, <1>9
     DEF vars, avars, cvars, RInv, RecordTypes, WaitsInTurn, OnRecord, WaitsHere
<1> QED
  BY <1>2, <1>3, <1>4, <1>5, <1>6, <1>7, <1>8, <1>9 DEF Next, AskStep

(* A command that was run (ask_exec) is on record as approved, for any number
   of conversations, asks and tabs, whatever is deleted or cancelled meanwhile;
   only an undo takes the record away, and never from a turn that still waits
   for the command where it asked.  (server_sse.go, waitForAskAnswer;
   server_conversations.go, handleConvUndo.) *)
THEOREM RunIsOnRecord == Spec => []ApprovalOnRecord
<1>1. RInv => ApprovalOnRecord
  BY DEF RInv, RecordTypes, OnRecord, WaitsHere, ApprovalOnRecord
<1> QED
  BY <1>1, AlwaysIInv, InitRInv, StepRInv, PTL DEF Spec
=============================================================================
