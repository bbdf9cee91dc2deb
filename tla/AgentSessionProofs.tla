------------------------- MODULE AgentSessionProofs -------------------------
(***************************************************************************)
(* Proofs about AgentSession, for any number of prompts, rounds and calls: *)
(* what the client is told of tool calls, what session/cancel reaches,     *)
(* what the LLM is sent, and that the session keeps the promise of         *)
(* ChatHistory.                                                            *)
(***************************************************************************)
EXTENDS AgentSession, SequenceTheorems, TLAPS

CPC == {"start", "input", "run", "close", "done"}
Updates == {"start", "input", "close"}

-----------------------------------------------------------------------------
(* What the client is told of the tool calls. *)

(* IsPrefix, index by index. *)
LEMMA PrefixByIndex ==
    ASSUME NEW S, NEW s \in Seq(S), NEW t \in Seq(S),
           Len(s) <= Len(t), \A i \in 1 .. Len(s) : s[i] = t[i]
    PROVE  IsPrefix(s, t)
<1>1. Len(s) \in Nat /\ Len(t) \in Nat /\ \A i \in 1 .. Len(s) : t[i] \in S
  BY LenProperties, ElementOfSeq
<1>2. /\ SubSeq(t, 1, Len(s)) \in Seq(S)
      /\ Len(SubSeq(t, 1, Len(s))) = Len(s)
      /\ \A i \in 1 .. Len(s) : SubSeq(t, 1, Len(s))[i] = t[i]
  BY <1>1, SubSeqProperties
<1>3. SubSeq(t, 1, Len(s)) = s
  BY ONLY <1>2, SeqEqual, s \in Seq(S), \A i \in 1 .. Len(s) : s[i] = t[i]
<1>4. SubSeq(s, 1, Len(s)) = s
  BY SubSeqFull
<1> QED
  BY <1>3, <1>4 DEF IsPrefix

(* The variables the argument is about hold what their types allow, and a
   prompt has calls only while its tools run. *)
CallTypes ==
    /\ ppc \in [Prompts -> PPC]
    /\ cpc \in [Prompts -> Seq(CPC)]
    /\ \A p \in Prompts : /\ Len(cpc[p]) <= MaxCalls
                          /\ ppc[p] # "tools" => cpc[p] = <<>>
    /\ tcIDMap \in [Prompts -> [1 .. MaxCalls -> Nat]]
    /\ calls \in Seq([of : Prompts, sent : Seq(Updates)])

(* The updates that go with where the goroutine of a call is. *)
Told(pc, sent) ==
    /\ pc = "input" => sent = <<"start">>
    /\ pc \in {"run", "close"} => sent = <<"start", "input">>
    /\ pc = "done" => sent = AllUpdates

(* Call i of a round, whose goroutines are at pcs, has begun. *)
Begun(pcs, i) == i \in 1 .. Len(pcs) /\ pcs[i] # "start"

(* A call of the round at work has an id of its own, of which the client has
   been told what it should have been ... *)
IdsOwned ==
    \A p \in Prompts : \A i \in 1 .. MaxCalls : Begun(cpc[p], i) =>
        /\ tcIDMap[p][i] \in 1 .. Len(calls)
        /\ calls[tcIDMap[p][i]].of = p
        /\ p \notin cancelled => Told(cpc[p][i], calls[tcIDMap[p][i]].sent)
        /\ \A j \in 1 .. MaxCalls :
              Begun(cpc[p], j) /\ tcIDMap[p][j] = tcIDMap[p][i] => j = i

(* ... and every other id is closed. *)
OthersClosed ==
    \A k \in 1 .. Len(calls) :
        \/ calls[k].of \in cancelled
        \/ calls[k].sent = AllUpdates
        \/ \E i \in 1 .. MaxCalls :
              Begun(cpc[calls[k].of], i) /\ tcIDMap[calls[k].of][i] = k

CallsInv == CallTypes /\ IdsOwned /\ OthersClosed

LEMMA CallsInitially == Init => CallsInv
<1> SUFFICES ASSUME Init PROVE CallsInv
  OBVIOUS
<1>1. CallTypes
  BY AgentSessionAssumption DEF Init, CallTypes, PPC, CPC
<1> QED
  BY <1>1 DEF Init, CallsInv, IdsOwned, OthersClosed, Begun

(* Steps that have nothing to do with tool calls. *)
LEMMA CallsUntouched ==
    ASSUME CallsInv, UNCHANGED <<cpc, tcIDMap, calls>>,
           ppc' \in [Prompts -> PPC],
           \A p \in Prompts : ppc'[p] # "tools" => cpc[p] = <<>>,
           cancelled \subseteq cancelled'
    PROVE  CallsInv'
<1>1. CallTypes'
  BY DEF CallsInv, CallTypes
<1>2. \A p, i : Begun(cpc'[p], i) <=> Begun(cpc[p], i)
  BY DEF Begun
<1>3. IdsOwned'
  BY <1>2 DEF CallsInv, IdsOwned
<1>4. OthersClosed'
  BY <1>2 DEF CallsInv, OthersClosed
<1> QED
  BY <1>1, <1>3, <1>4 DEF CallsInv

(* A step of a prompt that is not at its tools and does not come to them. *)
LEMMA PromptMovesOn ==
    ASSUME CallsInv, NEW p \in Prompts, NEW from \in PPC, NEW to \in PPC \ {"tools"},
           Goto(p, from, to), from # "tools",
           UNCHANGED <<cpc, tcIDMap, calls, cancelled>>
    PROVE  CallsInv'
<1>1. ppc' \in [Prompts -> PPC] /\ \A q \in Prompts : ppc'[q] # "tools" => cpc[q] = <<>>
  BY DEF Goto, CallsInv, CallTypes
<1> QED
  BY <1>1, CallsUntouched

LEMMA OthersMoveOn ==
    ASSUME CallsInv, NEW p \in Prompts,
           \/ PromptArrives(p) \/ BuildFails(p) \/ BuildToolRegistry(p)
           \/ StoreCancel(p) \/ LoadHistory(p) \/ LLMReplies(p) \/ LLMFails(p)
           \/ SaveHistory(p)
    PROVE  CallsInv'
<1>1. PICK from \in PPC \ {"tools"}, to \in PPC \ {"tools"} :
        Goto(p, from, to) /\ UNCHANGED <<cpc, tcIDMap, calls, cancelled>>
  BY DEF PPC, PromptArrives, BuildFails, BuildToolRegistry, StoreCancel, LoadHistory,
         LLMReplies, LLMFails, SaveHistory
<1> QED
  BY <1>1, PromptMovesOn

(* The tool call of a hook is told at once, from its start to its end. *)
LEMMA HookKeepsCalls ==
    ASSUME CallsInv, NEW p \in Prompts, NEW runs \in BOOLEAN,
           NEW from \in PPC \ {"tools"}, NEW to \in PPC \ {"tools"},
           Hook(p, runs, from, to), UNCHANGED <<cpc, tcIDMap, cancelled>>
    PROVE  CallsInv'
<1>1. PICK there \in PPC \ {"tools"} : Goto(p, from, there)
  BY DEF Hook, PPC
<1>2. CASE UNCHANGED calls
  BY <1>1, <1>2, PromptMovesOn
<1>3. CASE calls' = Append(calls, ToolCallOf(p, AllUpdates))
  <2> USE <1>3
  <2>1. ToolCallOf(p, AllUpdates) \in [of : Prompts, sent : Seq(Updates)]
    BY DEF ToolCallOf, AllUpdates, Updates
  <2>2. /\ Len(calls') = Len(calls) + 1 /\ Len(calls) \in Nat
        /\ \A k \in 1 .. Len(calls) : calls'[k] = calls[k]
        /\ calls'[Len(calls) + 1] = ToolCallOf(p, AllUpdates)
        /\ calls' \in Seq([of : Prompts, sent : Seq(Updates)])
    BY <2>1 DEF CallsInv, CallTypes
  <2>3. ppc' \in [Prompts -> PPC] /\ \A q \in Prompts : ppc'[q] # "tools" => cpc[q] = <<>>
    BY <1>1 DEF Goto, CallsInv, CallTypes
  <2>4. CallTypes'
    BY <2>2, <2>3 DEF CallsInv, CallTypes
  <2>5. \A q, i : Begun(cpc'[q], i) <=> Begun(cpc[q], i)
    BY DEF Begun
  <2>6. IdsOwned'
    BY <2>2, <2>5 DEF CallsInv, IdsOwned
  <2>7. OthersClosed'
    <3> SUFFICES ASSUME NEW k \in 1 .. Len(calls) + 1
                 PROVE  \/ calls'[k].of \in cancelled
                        \/ calls'[k].sent = AllUpdates
                        \/ \E i \in 1 .. MaxCalls :
                              Begun(cpc'[calls'[k].of], i) /\ tcIDMap[calls'[k].of][i] = k
      BY <2>2, <2>5 DEF OthersClosed
    <3>1. CASE k = Len(calls) + 1
      BY <3>1, <2>2 DEF ToolCallOf
    <3>2. CASE k \in 1 .. Len(calls)
      BY <3>2, <2>2 DEF CallsInv, OthersClosed
    <3>3. k = Len(calls) + 1 \/ k \in 1 .. Len(calls)
      BY <2>2
    <3> QED
      BY ONLY <3>1, <3>2, <3>3
  <2> QED
    BY <2>4, <2>6, <2>7 DEF CallsInv
<1> QED
  BY <1>2, <1>3 DEF Hook

LEMMA ToolsBegin ==
    ASSUME CallsInv, NEW p \in Prompts, LLMCallsTools(p)
    PROVE  CallsInv'
<1>1. PICK n \in 1 .. MaxCalls : cpc' = [cpc EXCEPT ![p] = [i \in 1 .. n |-> "start"]]
  BY DEF LLMCallsTools
<1>2. UNCHANGED <<tcIDMap, calls, cancelled>> /\ ppc[p] = "llm" /\ ppc' = [ppc EXCEPT ![p] = "tools"]
  BY DEF LLMCallsTools, Goto
<1>3. cpc[p] = <<>> /\ n \in Nat /\ n <= MaxCalls
  BY <1>2, AgentSessionAssumption DEF CallsInv, CallTypes
<1>4. [i \in 1 .. n |-> "start"] \in Seq(CPC) /\ Len([i \in 1 .. n |-> "start"]) = n
  BY <1>3 DEF CPC
<1>5. CallTypes'
  <2>1. ppc' \in [Prompts -> PPC] /\ cpc' \in [Prompts -> Seq(CPC)]
    BY <1>1, <1>2, <1>4 DEF CallsInv, CallTypes, PPC
  <2>2. ASSUME NEW q \in Prompts
        PROVE  Len(cpc'[q]) <= MaxCalls /\ (ppc'[q] # "tools" => cpc'[q] = <<>>)
    BY <1>1, <1>2, <1>3, <1>4 DEF CallsInv, CallTypes
  <2> QED
    BY <2>1, <2>2, <1>2 DEF CallsInv, CallTypes
<1>6. \A q \in Prompts : \A i \in 1 .. MaxCalls : Begun(cpc'[q], i) <=> Begun(cpc[q], i)
  BY <1>1, <1>3, <1>4 DEF Begun, CallsInv, CallTypes
<1>7. \A q \in Prompts : \A i \in 1 .. MaxCalls : Begun(cpc[q], i) => cpc'[q][i] = cpc[q][i]
  BY <1>1, <1>3, <1>4 DEF Begun, CallsInv, CallTypes
<1>8. IdsOwned'
  <2> SUFFICES ASSUME NEW q \in Prompts, NEW i \in 1 .. MaxCalls, Begun(cpc[q], i)
               PROVE  /\ tcIDMap[q][i] \in 1 .. Len(calls)
                      /\ calls[tcIDMap[q][i]].of = q
                      /\ q \notin cancelled => Told(cpc'[q][i], calls[tcIDMap[q][i]].sent)
                      /\ \A j \in 1 .. MaxCalls :
                            Begun(cpc[q], j) /\ tcIDMap[q][j] = tcIDMap[q][i] => j = i
    BY <1>2, <1>6 DEF IdsOwned
  <2> QED
    BY <1>7 DEF CallsInv, IdsOwned
<1>9. OthersClosed'
  <2> SUFFICES ASSUME NEW k \in 1 .. Len(calls)
               PROVE  \/ calls[k].of \in cancelled
                      \/ calls[k].sent = AllUpdates
                      \/ \E i \in 1 .. MaxCalls :
                            Begun(cpc'[calls'[k].of], i) /\ tcIDMap[calls[k].of][i] = k
    BY <1>2 DEF OthersClosed
  <2>1. calls[k].of \in Prompts
    <3>1. calls \in Seq([of : Prompts, sent : Seq(Updates)])
      BY DEF CallsInv, CallTypes
    <3>2. calls[k] \in [of : Prompts, sent : Seq(Updates)]
      BY <3>1, ElementOfSeq
    <3> QED
      BY <3>2
  <2> QED
    BY <2>1, <1>2, <1>6 DEF CallsInv, OthersClosed
<1> QED
  BY <1>5, <1>8, <1>9 DEF CallsInv

(* What CallGoto does, point by point. *)
LEMMA OneCallMoves ==
    ASSUME CallTypes, NEW p \in Prompts, NEW i \in 1 .. MaxCalls,
           NEW from \in CPC, NEW to \in CPC \ {"start"}, CallGoto(p, i, from, to)
    PROVE  /\ ppc' = ppc /\ cancelled' = cancelled
           /\ ppc[p] = "tools" /\ i \in 1 .. Len(cpc[p])
           /\ cpc[p][i] = from /\ cpc'[p][i] = to
           /\ cpc' \in [Prompts -> Seq(CPC)]
           /\ \A q \in Prompts : Len(cpc'[q]) = Len(cpc[q])
           /\ \A q \in Prompts, j \in 1 .. MaxCalls :
                 Begun(cpc'[q], j) <=> Begun(cpc[q], j) \/ (q = p /\ j = i)
           /\ \A q \in Prompts, j \in 1 .. MaxCalls :
                 Begun(cpc[q], j) /\ ~(q = p /\ j = i) => cpc'[q][j] = cpc[q][j]
<1>1. cpc[p] \in Seq(CPC) /\ i \in 1 .. Len(cpc[p]) /\ cpc \in [Prompts -> Seq(CPC)]
  BY LenProperties DEF CallTypes, CallGoto
<1>2. /\ [cpc[p] EXCEPT ![i] = to] \in Seq(CPC)
      /\ Len([cpc[p] EXCEPT ![i] = to]) = Len(cpc[p])
      /\ \A j \in 1 .. Len(cpc[p]) :
            [cpc[p] EXCEPT ![i] = to][j] = IF j = i THEN to ELSE cpc[p][j]
  BY ONLY <1>1, to \in CPC, ExceptSeq
<1>3. cpc' = [cpc EXCEPT ![p] = [cpc[p] EXCEPT ![i] = to]]
  BY DEF CallGoto
<1>4. \A q \in Prompts : cpc'[q] = IF q = p THEN [cpc[p] EXCEPT ![i] = to] ELSE cpc[q]
  BY <1>1, <1>3
<1>5. cpc' \in [Prompts -> Seq(CPC)]
  BY <1>1, <1>2, <1>3
<1>6. \A q \in Prompts : Len(cpc'[q]) = Len(cpc[q])
  BY <1>2, <1>4
<1>7. ASSUME NEW q \in Prompts, NEW j \in 1 .. MaxCalls
      PROVE  /\ Begun(cpc'[q], j) <=> Begun(cpc[q], j) \/ (q = p /\ j = i)
             /\ Begun(cpc[q], j) /\ ~(q = p /\ j = i) => cpc'[q][j] = cpc[q][j]
  <2>1. CASE q = p
    BY <1>1, <1>2, <1>4, <2>1 DEF Begun
  <2>2. CASE q # p
    BY <1>4, <2>2 DEF Begun
  <2> QED
    BY <2>1, <2>2
<1> QED
  BY <1>1, <1>2, <1>4, <1>5, <1>6, <1>7 DEF CallGoto

(* The call gets an id nobody has had. *)
LEMMA CallStartKeepsCalls ==
    ASSUME CallsInv, NEW p \in Prompts, NEW i \in 1 .. MaxCalls, CallStart(p, i)
    PROVE  CallsInv'
<1>1. CallGoto(p, i, "start", "input") /\ tcIDMap' = [tcIDMap EXCEPT ![p][i] = Len(calls) + 1]
  BY DEF CallStart
<1> DEFINE id == Len(calls) + 1
<1>2. PICK sent \in {<<>>, <<"start">>} :
        /\ calls' = Append(calls, ToolCallOf(p, sent))
        /\ p \notin cancelled => sent = <<"start">>
  BY DEF CallStart
<1>3. CallTypes
  BY DEF CallsInv
<1>4. "start" \in CPC /\ "input" \in CPC \ {"start"}
  BY DEF CPC
<1> HIDE DEF id
<1>5. /\ ppc' = ppc /\ cancelled' = cancelled
      /\ ppc[p] = "tools" /\ i \in 1 .. Len(cpc[p])
      /\ cpc[p][i] = "start" /\ cpc'[p][i] = "input"
      /\ cpc' \in [Prompts -> Seq(CPC)]
      /\ \A q \in Prompts : Len(cpc'[q]) = Len(cpc[q])
      /\ \A q \in Prompts, j \in 1 .. MaxCalls :
            Begun(cpc'[q], j) <=> Begun(cpc[q], j) \/ (q = p /\ j = i)
      /\ \A q \in Prompts, j \in 1 .. MaxCalls :
            Begun(cpc[q], j) /\ ~(q = p /\ j = i) => cpc'[q][j] = cpc[q][j]
  BY <1>1, <1>3, <1>4, OneCallMoves
<1>6. /\ id \in Nat /\ id = Len(calls) + 1 /\ Len(calls) \in Nat
      /\ Len(calls') = id
      /\ \A k \in 1 .. Len(calls) : calls'[k] = calls[k]
      /\ calls'[id].of = p /\ calls'[id].sent = sent
      /\ calls' \in Seq([of : Prompts, sent : Seq(Updates)])
  <2>1. ToolCallOf(p, sent) \in [of : Prompts, sent : Seq(Updates)]
    <3>1. <<>> \in Seq(Updates) /\ <<"start">> \in Seq(Updates)
      BY DEF Updates
    <3>2. sent \in Seq(Updates)
      BY ONLY <3>1, sent \in {<<>>, <<"start">>}
    <3> QED
      BY ONLY <3>2, p \in Prompts DEF ToolCallOf
  <2>2. calls \in Seq([of : Prompts, sent : Seq(Updates)])
    BY <1>3 DEF CallTypes
  <2>3. ToolCallOf(p, sent).of = p /\ ToolCallOf(p, sent).sent = sent
    BY DEF ToolCallOf
  <2> QED
    BY ONLY <1>2, <2>1, <2>2, <2>3 DEF id
<1>7. /\ tcIDMap' \in [Prompts -> [1 .. MaxCalls -> Nat]]
      /\ tcIDMap'[p][i] = id
      /\ \A q \in Prompts, j \in 1 .. MaxCalls :
            ~(q = p /\ j = i) => tcIDMap'[q][j] = tcIDMap[q][j]
  BY <1>1, <1>3, <1>6 DEF CallTypes
<1>8. CallTypes'
  <2>1. \A q \in Prompts : Len(cpc'[q]) <= MaxCalls /\ (ppc'[q] # "tools" => cpc'[q] = <<>>)
    BY <1>3, <1>5 DEF CallTypes
  <2> QED
    BY <1>3, <1>5, <1>6, <1>7, <2>1 DEF CallTypes
<1>9. IdsOwned'
  <2> SUFFICES ASSUME NEW q \in Prompts, NEW j \in 1 .. MaxCalls, Begun(cpc'[q], j)
               PROVE  /\ tcIDMap'[q][j] \in 1 .. Len(calls')
                      /\ calls'[tcIDMap'[q][j]].of = q
                      /\ q \notin cancelled => Told(cpc'[q][j], calls'[tcIDMap'[q][j]].sent)
                      /\ \A h \in 1 .. MaxCalls :
                            Begun(cpc'[q], h) /\ tcIDMap'[q][h] = tcIDMap'[q][j] => h = j
    BY <1>5 DEF IdsOwned
  <2>1. CASE q = p /\ j = i
    <3>1. p \notin cancelled => Told("input", sent)
      BY <1>2 DEF Told
    <3>2. ASSUME NEW h \in 1 .. MaxCalls, Begun(cpc'[p], h), tcIDMap'[p][h] = id
          PROVE  h = i
      <4> SUFFICES ASSUME h # i PROVE FALSE
        OBVIOUS
      <4>1. Begun(cpc[p], h) /\ tcIDMap[p][h] = id
        BY <3>2, <1>5, <1>7
      <4>2. tcIDMap[p][h] \in 1 .. Len(calls)
        BY <4>1 DEF CallsInv, IdsOwned
      <4> QED
        BY ONLY <4>1, <4>2, <1>6
    <3> QED
      BY <2>1, <3>1, <3>2, <1>5, <1>6, <1>7
  <2>2. CASE ~(q = p /\ j = i)
    <3>1. /\ Begun(cpc[q], j) /\ cpc'[q][j] = cpc[q][j] /\ tcIDMap'[q][j] = tcIDMap[q][j]
          /\ tcIDMap[q][j] \in 1 .. Len(calls)
      BY <2>2, <1>5, <1>7 DEF CallsInv, IdsOwned
    <3>2. ASSUME NEW h \in 1 .. MaxCalls, Begun(cpc'[q], h), tcIDMap'[q][h] = tcIDMap'[q][j]
          PROVE  h = j
      <4>1. ~(q = p /\ h = i)
        BY <3>1, <3>2, <1>6, <1>7
      <4> QED
        BY <3>1, <3>2, <4>1, <1>5, <1>7 DEF CallsInv, IdsOwned
    <3>3. /\ tcIDMap[q][j] \in 1 .. Len(calls')
          /\ calls'[tcIDMap[q][j]] = calls[tcIDMap[q][j]]
      BY ONLY <3>1, <1>6
    <3>4. /\ calls[tcIDMap[q][j]].of = q
          /\ q \notin cancelled => Told(cpc[q][j], calls[tcIDMap[q][j]].sent)
      BY <3>1 DEF CallsInv, IdsOwned
    <3> QED
      BY ONLY <3>1, <3>2, <3>3, <3>4
  <2> QED
    BY <2>1, <2>2
<1>10. OthersClosed'
  <2> SUFFICES ASSUME NEW k \in 1 .. Len(calls')
               PROVE  \/ calls'[k].of \in cancelled
                      \/ calls'[k].sent = AllUpdates
                      \/ \E j \in 1 .. MaxCalls :
                            Begun(cpc'[calls'[k].of], j) /\ tcIDMap'[calls'[k].of][j] = k
    BY <1>5 DEF OthersClosed
  <2>1. CASE k = id
    BY <2>1, <1>5, <1>6, <1>7
  <2>2. CASE k \in 1 .. Len(calls)
    <3>1. calls'[k] = calls[k] /\ calls[k] \in [of : Prompts, sent : Seq(Updates)]
      BY <2>2, <1>3, <1>6, ElementOfSeq DEF CallTypes
    <3>2. calls[k].of \in Prompts
      BY <3>1
    <3>3. CASE \E j \in 1 .. MaxCalls :
                  Begun(cpc[calls[k].of], j) /\ tcIDMap[calls[k].of][j] = k
      <4>1. PICK j \in 1 .. MaxCalls :
                   Begun(cpc[calls[k].of], j) /\ tcIDMap[calls[k].of][j] = k
        BY <3>3
      <4>2. ~(calls[k].of = p /\ j = i)
        BY <4>1, <1>5 DEF Begun
      <4>3. Begun(cpc'[calls[k].of], j)
        BY <4>1, <3>2, <1>5
      <4>4. tcIDMap'[calls[k].of][j] = k
        BY <4>1, <4>2, <3>2, <1>7
      <4> QED
        BY ONLY <4>3, <4>4, <3>1, j \in 1 .. MaxCalls
    <3> QED
      BY <2>2, <3>1, <3>3 DEF CallsInv, OthersClosed
  <2>3. k = id \/ k \in 1 .. Len(calls)
    BY <1>6
  <2> QED
    BY ONLY <2>1, <2>2, <2>3
<1> QED
  BY <1>8, <1>9, <1>10 DEF CallsInv

(* What the client is told of a call goes to the call's own id.  What a cancelled
   prompt sends may be lost. *)
LEMMA NextUpdateKeepsCalls ==
    ASSUME CallsInv, NEW p \in Prompts, NEW i \in 1 .. MaxCalls,
           NEW from \in CPC \ {"start"}, NEW to \in CPC \ {"start"},
           CallGoto(p, i, from, to), tcIDMap' = tcIDMap,
           NEW sent \in Seq(Updates),
           \/ calls' = [calls EXCEPT ![tcIDMap[p][i]].sent = sent]
           \/ p \in cancelled /\ calls' = calls,
           p \notin cancelled /\ Told(from, calls[tcIDMap[p][i]].sent) => Told(to, sent)
    PROVE  CallsInv'
<1> DEFINE id == tcIDMap[p][i]
<1>1. CallTypes
  BY DEF CallsInv
<1>2. from \in CPC
  OBVIOUS
<1>3. /\ ppc' = ppc /\ cancelled' = cancelled
      /\ ppc[p] = "tools" /\ i \in 1 .. Len(cpc[p])
      /\ cpc[p][i] = from /\ cpc'[p][i] = to
      /\ cpc' \in [Prompts -> Seq(CPC)]
      /\ \A q \in Prompts : Len(cpc'[q]) = Len(cpc[q])
      /\ \A q \in Prompts, j \in 1 .. MaxCalls :
            Begun(cpc'[q], j) <=> Begun(cpc[q], j) \/ (q = p /\ j = i)
      /\ \A q \in Prompts, j \in 1 .. MaxCalls :
            Begun(cpc[q], j) /\ ~(q = p /\ j = i) => cpc'[q][j] = cpc[q][j]
  BY <1>1, <1>2, OneCallMoves
<1>4. Begun(cpc[p], i)
  BY <1>3 DEF Begun
<1>5. /\ id \in 1 .. Len(calls) /\ calls[id].of = p
      /\ p \notin cancelled => Told(from, calls[id].sent)
  BY <1>3, <1>4 DEF CallsInv, IdsOwned
<1>6. calls \in Seq([of : Prompts, sent : Seq(Updates)])
  BY <1>1 DEF CallTypes
<1>7. /\ calls' \in Seq([of : Prompts, sent : Seq(Updates)])
      /\ Len(calls') = Len(calls)
      /\ \A k \in 1 .. Len(calls) : calls'[k].of = calls[k].of
      /\ \A k \in 1 .. Len(calls) : k # id => calls'[k] = calls[k]
      /\ p \notin cancelled => calls'[id].sent = sent
  <2>1. CASE calls' = calls /\ p \in cancelled
    BY <1>6, <2>1
  <2>2. CASE calls' = [calls EXCEPT ![id].sent = sent]
    <3> DEFINE new == [calls[id] EXCEPT !.sent = sent]
    <3>1. calls[id] \in [of : Prompts, sent : Seq(Updates)]
      BY <1>5, <1>6, ElementOfSeq
    <3>2. /\ new \in [of : Prompts, sent : Seq(Updates)]
          /\ new.of = calls[id].of /\ new.sent = sent
      BY <3>1
    <3>3. calls' = [calls EXCEPT ![id] = new]
      BY <2>2
    <3> HIDE DEF new
    <3>4. /\ calls' \in Seq([of : Prompts, sent : Seq(Updates)])
          /\ Len(calls') = Len(calls)
          /\ \A k \in 1 .. Len(calls) : calls'[k] = IF k = id THEN new ELSE calls[k]
      BY ONLY <1>5, <1>6, <3>2, <3>3, ExceptSeq
    <3> QED
      BY <1>5, <2>2, <3>2, <3>4
  <2> QED
    BY <2>1, <2>2, <1>5
<1>8. CallTypes'
  <2>1. \A q \in Prompts : Len(cpc'[q]) <= MaxCalls /\ (ppc'[q] # "tools" => cpc'[q] = <<>>)
    BY <1>1, <1>3 DEF CallTypes
  <2> QED
    BY <1>1, <1>3, <1>7, <2>1 DEF CallTypes
<1>9. IdsOwned'
  <2> SUFFICES ASSUME NEW q \in Prompts, NEW j \in 1 .. MaxCalls, Begun(cpc'[q], j)
               PROVE  /\ tcIDMap[q][j] \in 1 .. Len(calls')
                      /\ calls'[tcIDMap[q][j]].of = q
                      /\ q \notin cancelled => Told(cpc'[q][j], calls'[tcIDMap[q][j]].sent)
                      /\ \A h \in 1 .. MaxCalls :
                            Begun(cpc'[q], h) /\ tcIDMap[q][h] = tcIDMap[q][j] => h = j
    BY <1>3 DEF IdsOwned
  <2>1. Begun(cpc[q], j)
    BY <1>3, <1>4
  <2>2. /\ tcIDMap[q][j] \in 1 .. Len(calls)
        /\ calls[tcIDMap[q][j]].of = q
        /\ q \notin cancelled => Told(cpc[q][j], calls[tcIDMap[q][j]].sent)
        /\ \A h \in 1 .. MaxCalls :
              Begun(cpc[q], h) /\ tcIDMap[q][h] = tcIDMap[q][j] => h = j
    BY <2>1 DEF CallsInv, IdsOwned
  <2>3. \A h \in 1 .. MaxCalls :
          Begun(cpc'[q], h) /\ tcIDMap[q][h] = tcIDMap[q][j] => h = j
    BY <2>2, <1>3, <1>4
  <2>4. q \notin cancelled => Told(cpc'[q][j], calls'[tcIDMap[q][j]].sent)
    <3>1. CASE q = p /\ j = i
      BY <3>1, <1>3, <1>5, <1>7
    <3>2. CASE ~(q = p /\ j = i)
      <4>1. tcIDMap[q][j] # id
        BY <3>2, <2>2, <1>4, <1>5
      <4> QED
        BY ONLY <4>1, <3>2, <2>1, <2>2, <1>3, <1>7
    <3> QED
      BY <3>1, <3>2
  <2> QED
    BY <2>2, <2>3, <2>4, <1>7
<1>10. OthersClosed'
  <2> SUFFICES ASSUME NEW k \in 1 .. Len(calls)
               PROVE  \/ calls'[k].of \in cancelled
                      \/ calls'[k].sent = AllUpdates
                      \/ \E j \in 1 .. MaxCalls :
                            Begun(cpc'[calls'[k].of], j) /\ tcIDMap[calls'[k].of][j] = k
    BY <1>3, <1>7 DEF OthersClosed
  <2>1. CASE k = id
    BY ONLY <2>1, <1>3, <1>5, <1>7, p \in Prompts, i \in 1 .. MaxCalls
  <2>2. CASE k # id
    <3>1. calls[k] \in [of : Prompts, sent : Seq(Updates)]
      BY <1>6, ElementOfSeq
    <3>2. calls[k].of \in Prompts /\ calls'[k] = calls[k]
      BY <2>2, <3>1, <1>7
    <3> QED
      BY <3>2, <1>3 DEF CallsInv, OthersClosed
  <2> QED
    BY <2>1, <2>2
<1> QED
  BY <1>8, <1>9, <1>10 DEF CallsInv

LEMMA UpdatesInOrder ==
    /\ Append(<<"start">>, "input") = <<"start", "input">>
    /\ Append(<<"start", "input">>, "close") = AllUpdates
<1> DEFINE one == <<"start">>
           two == <<"start", "input">>
           oneMore == Append(one, "input")
           twoMore == Append(two, "close")
<1>1. /\ one \in Seq(Updates) /\ two \in Seq(Updates) /\ AllUpdates \in Seq(Updates)
      /\ "input" \in Updates /\ "close" \in Updates
  BY DEF Updates, AllUpdates
<1>2. /\ Len(one) = 1 /\ one[1] = two[1] /\ Len(two) = 2 /\ two[2] = "input"
      /\ two[1] = AllUpdates[1] /\ two[2] = AllUpdates[2]
      /\ Len(AllUpdates) = 3 /\ AllUpdates[3] = "close"
  BY DEF AllUpdates
<1> HIDE DEF one, two
<1>3. /\ oneMore \in Seq(Updates) /\ Len(oneMore) = Len(one) + 1
      /\ oneMore[Len(one) + 1] = "input"
      /\ \A k \in 1 .. Len(one) : oneMore[k] = one[k]
  BY ONLY <1>1, AppendProperties
<1>4. /\ twoMore \in Seq(Updates) /\ Len(twoMore) = Len(two) + 1
      /\ twoMore[Len(two) + 1] = "close"
      /\ \A k \in 1 .. Len(two) : twoMore[k] = two[k]
  BY ONLY <1>1, AppendProperties
<1> HIDE DEF oneMore, twoMore
<1>5. Len(oneMore) = Len(two) /\ \A k \in 1 .. Len(oneMore) : oneMore[k] = two[k]
  BY ONLY <1>2, <1>3
<1>6. Len(twoMore) = Len(AllUpdates) /\ \A k \in 1 .. Len(twoMore) : twoMore[k] = AllUpdates[k]
  BY ONLY <1>2, <1>4
<1>7. oneMore = two
  BY ONLY <1>1, <1>3, <1>5, SeqEqual
<1>8. twoMore = AllUpdates
  BY ONLY <1>1, <1>4, <1>6, SeqEqual
<1> QED
  BY <1>7, <1>8 DEF one, two, oneMore, twoMore

LEMMA CallStepKeepsCalls ==
    ASSUME CallsInv, NEW p \in Prompts, NEW i \in 1 .. MaxCalls,
           CallInput(p, i) \/ CallReturns(p, i) \/ CallClose(p, i)
    PROVE  CallsInv'
<1> DEFINE told == calls[tcIDMap[p][i]].sent
<1>1. ASSUME NEW from \in CPC \ {"start"}, NEW to \in CPC, CallGoto(p, i, from, to)
      PROVE  /\ calls \in Seq([of : Prompts, sent : Seq(Updates)])
             /\ tcIDMap[p][i] \in 1 .. Len(calls)
             /\ calls[tcIDMap[p][i]] \in [of : Prompts, sent : Seq(Updates)]
             /\ told \in Seq(Updates)
             /\ p \notin cancelled => Told(from, told)
  <2>1. i \in 1 .. Len(cpc[p]) /\ cpc[p][i] = from
    BY <1>1, LenProperties DEF CallGoto, CallsInv, CallTypes
  <2>2. tcIDMap[p][i] \in 1 .. Len(calls) /\ (p \notin cancelled => Told(from, told))
    BY <2>1 DEF CallsInv, IdsOwned, Begun
  <2>3. calls \in Seq([of : Prompts, sent : Seq(Updates)])
    BY DEF CallsInv, CallTypes
  <2>4. calls[tcIDMap[p][i]] \in [of : Prompts, sent : Seq(Updates)]
    BY ONLY <2>2, <2>3, ElementOfSeq
  <2>5. told \in Seq(Updates)
    BY ONLY <2>4
  <2> QED
    BY <2>2, <2>3, <2>4, <2>5
<1>2. CASE CallInput(p, i)
  <2>1. CallGoto(p, i, "input", "run") /\ tcIDMap' = tcIDMap
    BY <1>2 DEF CallInput
  <2>2. told \in Seq(Updates)
    BY <1>1, <2>1 DEF CPC
  <2>3. Append(told, "input") \in Seq(Updates)
    BY <2>2, AppendProperties DEF Updates
  <2>4. Told("input", told) => Told("run", Append(told, "input"))
    BY UpdatesInOrder DEF Told
  <2>5. \/ calls' = [calls EXCEPT ![tcIDMap[p][i]].sent = Append(told, "input")]
        \/ p \in cancelled /\ calls' = calls
    BY <1>2 DEF CallInput, SendUpdate
  <2>6. "input" \in CPC \ {"start"} /\ "run" \in CPC \ {"start"}
    BY DEF CPC
  <2> HIDE DEF told
  <2>7. p \notin cancelled /\ Told("input", told) => Told("run", Append(told, "input"))
    BY <2>4
  <2> QED
    BY <2>1, <2>3, <2>5, <2>6, <2>7, NextUpdateKeepsCalls DEF told
<1>3. CASE CallClose(p, i)
  <2>1. CallGoto(p, i, "close", "done") /\ tcIDMap' = tcIDMap
    BY <1>3 DEF CallClose
  <2>2. told \in Seq(Updates)
    BY <1>1, <2>1 DEF CPC
  <2>3. Append(told, "close") \in Seq(Updates)
    BY <2>2, AppendProperties DEF Updates
  <2>4. Told("close", told) => Told("done", Append(told, "close"))
    BY UpdatesInOrder DEF Told
  <2>5. \/ calls' = [calls EXCEPT ![tcIDMap[p][i]].sent = Append(told, "close")]
        \/ p \in cancelled /\ calls' = calls
    BY <1>3 DEF CallClose, SendUpdate
  <2>6. "close" \in CPC \ {"start"} /\ "done" \in CPC \ {"start"}
    BY DEF CPC
  <2> HIDE DEF told
  <2>7. p \notin cancelled /\ Told("close", told) => Told("done", Append(told, "close"))
    BY <2>4
  <2> QED
    BY <2>1, <2>3, <2>5, <2>6, <2>7, NextUpdateKeepsCalls DEF told
<1>4. CASE CallReturns(p, i)
  <2>1. CallGoto(p, i, "run", "close") /\ UNCHANGED <<tcIDMap, calls>>
    BY <1>4 DEF CallReturns
  <2>2. /\ told \in Seq(Updates) /\ tcIDMap[p][i] \in 1 .. Len(calls)
        /\ calls \in Seq([of : Prompts, sent : Seq(Updates)])
        /\ calls[tcIDMap[p][i]] \in [of : Prompts, sent : Seq(Updates)]
    BY <1>1, <2>1 DEF CPC
  <2>3. Told("run", told) => Told("close", told)
    BY DEF Told
  <2>4. [calls[tcIDMap[p][i]] EXCEPT !.sent = told] = calls[tcIDMap[p][i]]
    BY <2>2
  <2>5. calls' = [calls EXCEPT ![tcIDMap[p][i]].sent = told]
    BY ONLY <2>1, <2>2, <2>4
  <2> QED
    BY <2>1, <2>2, <2>3, <2>5, NextUpdateKeepsCalls DEF CPC
<1> QED
  BY <1>2, <1>3, <1>4

(* When the results are collected, every id of the round is closed. *)
LEMMA CollectKeepsCalls ==
    ASSUME CallsInv, NEW p \in Prompts, CollectResults(p)
    PROVE  CallsInv'
<1>1. /\ UNCHANGED <<tcIDMap, calls, cancelled>>
      /\ cpc' = [cpc EXCEPT ![p] = <<>>] /\ ppc' = [ppc EXCEPT ![p] = "llm"]
      /\ \A i \in 1 .. Len(cpc[p]) : cpc[p][i] = "done"
  BY LenProperties DEF CollectResults, Goto, CallsInv, CallTypes
<1>2. CallTypes'
  BY <1>1, AgentSessionAssumption DEF CallsInv, CallTypes, PPC
<1>3. \A q \in Prompts, i \in 1 .. MaxCalls :
        /\ Begun(cpc'[q], i) <=> q # p /\ Begun(cpc[q], i)
        /\ q # p => cpc'[q] = cpc[q]
  BY <1>1 DEF Begun, CallsInv, CallTypes
<1>4. IdsOwned'
  BY <1>1, <1>3 DEF CallsInv, IdsOwned
<1>5. OthersClosed'
  <2> SUFFICES ASSUME NEW k \in 1 .. Len(calls), calls[k].of \notin cancelled
               PROVE  \/ calls[k].sent = AllUpdates
                      \/ \E i \in 1 .. MaxCalls :
                            Begun(cpc'[calls[k].of], i) /\ tcIDMap[calls[k].of][i] = k
    BY <1>1 DEF OthersClosed
  <2>1. calls[k] \in [of : Prompts, sent : Seq(Updates)]
    BY ElementOfSeq DEF CallsInv, CallTypes
  <2>2. calls[k].of \in Prompts
    BY <2>1
  <2>3. CASE calls[k].of # p
    BY <2>2, <2>3, <1>3 DEF CallsInv, OthersClosed
  <2>4. CASE calls[k].of = p
    <3>1. ASSUME NEW i \in 1 .. MaxCalls, Begun(cpc[p], i), tcIDMap[p][i] = k
          PROVE  calls[k].sent = AllUpdates
      BY <2>4, <3>1, <1>1 DEF CallsInv, IdsOwned, Begun, Told
    <3> QED
      BY <2>4, <3>1 DEF CallsInv, OthersClosed
  <2> QED
    BY <2>3, <2>4
<1> QED
  BY <1>2, <1>4, <1>5 DEF CallsInv

LEMMA CleanupKeepsCalls ==
    ASSUME CallsInv, NEW p \in Prompts, Cleanup(p)
    PROVE  CallsInv'
<1>1. /\ UNCHANGED <<cpc, calls, cancelled>> /\ ppc[p] = "cleanup"
      /\ ppc' = [ppc EXCEPT ![p] = "done"]
      /\ tcIDMap' = [tcIDMap EXCEPT ![p] = [i \in 1 .. MaxCalls |-> 0]]
  BY DEF Cleanup, Goto
<1>2. cpc[p] = <<>>
  BY <1>1 DEF CallsInv, CallTypes
<1>3. CallTypes'
  BY <1>1, <1>2 DEF CallsInv, CallTypes, PPC
<1>4. \A q \in Prompts, i \in 1 .. MaxCalls :
        Begun(cpc[q], i) => q # p /\ tcIDMap'[q] = tcIDMap[q]
  BY <1>1, <1>2 DEF Begun, CallsInv, CallTypes
<1>5. IdsOwned'
  BY <1>1, <1>4 DEF CallsInv, IdsOwned
<1>6. OthersClosed'
  <2> SUFFICES ASSUME NEW k \in 1 .. Len(calls), calls[k].of \notin cancelled
               PROVE  \/ calls[k].sent = AllUpdates
                      \/ \E i \in 1 .. MaxCalls :
                            Begun(cpc[calls[k].of], i) /\ tcIDMap'[calls[k].of][i] = k
    BY <1>1 DEF OthersClosed
  <2>1. calls[k] \in [of : Prompts, sent : Seq(Updates)]
    BY ElementOfSeq DEF CallsInv, CallTypes
  <2>2. calls[k].of \in Prompts
    BY <2>1
  <2> QED
    BY <2>2, <1>4 DEF CallsInv, OthersClosed
<1> QED
  BY <1>3, <1>5, <1>6 DEF CallsInv

LEMMA CallsStep == CallsInv /\ [Next]_vars => CallsInv'
<1> SUFFICES ASSUME CallsInv, [Next]_vars PROVE CallsInv'
  OBVIOUS
<1>1. CASE UNCHANGED vars
  BY <1>1, CallsUntouched DEF vars, CallsInv, CallTypes
<1>2. CASE Cancel
  BY <1>2, CallsUntouched DEF Cancel, CallsInv, CallTypes
<1>3. ASSUME NEW p \in Prompts, PromptArrives(p) \/ OwnStep(p) \/ WaitOver(p)
      PROVE  CallsInv'
  <2>1. CASE \/ PromptArrives(p) \/ BuildFails(p) \/ BuildToolRegistry(p)
             \/ StoreCancel(p) \/ LoadHistory(p) \/ LLMReplies(p) \/ LLMFails(p)
             \/ SaveHistory(p)
    BY <2>1, OthersMoveOn
  <2>2. CASE ConversationBegin(p)
    <3>1. ("hooks" \in Features /\ ~Resumed(p) /\ Len(chat[p]) <= 1) \in BOOLEAN
      OBVIOUS
    <3> QED
      BY <2>2, <3>1, HookKeepsCalls DEF ConversationBegin, PPC
  <2>3. CASE TurnBegin(p)
    <3>1. ("hooks" \in Features /\ ~Resumed(p)) \in BOOLEAN
      OBVIOUS
    <3> QED
      BY <2>3, <3>1, HookKeepsCalls DEF TurnBegin, PPC
  <2>4. CASE LLMCallsTools(p)
    BY <2>4, ToolsBegin
  <2>5. CASE \E i \in 1 .. MaxCalls : CallStart(p, i)
    BY <2>5, CallStartKeepsCalls
  <2>6. CASE \E i \in 1 .. MaxCalls : CallInput(p, i) \/ CallReturns(p, i) \/ CallClose(p, i)
    BY <2>6, CallStepKeepsCalls
  <2>7. CASE CollectResults(p)
    BY <2>7, CollectKeepsCalls
  <2>8. CASE Cleanup(p)
    BY <2>8, CleanupKeepsCalls
  <2> QED
    BY <1>3, <2>1, <2>2, <2>3, <2>4, <2>5, <2>6, <2>7, <2>8 DEF OwnStep, WaitOver
<1> QED
  BY <1>1, <1>2, <1>3 DEF Next

(* CallsClosed, for any number of prompts, rounds and calls and whatever the
   clients, the hooks and the LLM do: SendUpdate, StartToolCall and the wait group
   of cmd_acp.go and runner.go leave no bubble of a prompt open. *)
THEOREM EveryCallIsClosed == Spec => []CallsClosed
<1>1. CallsInv => CallsClosed
  <2> SUFFICES ASSUME CallsInv, NEW k \in 1 .. Len(calls), calls[k].of \notin cancelled
               PROVE  /\ IsPrefix(calls[k].sent, AllUpdates)
                      /\ ppc[calls[k].of] # "tools" => calls[k].sent = AllUpdates
    BY LenProperties DEF CallsClosed, CallsInv, CallTypes
  <2>1. calls[k] \in [of : Prompts, sent : Seq(Updates)]
    BY ElementOfSeq DEF CallsInv, CallTypes
  <2>2. calls[k].of \in Prompts
    BY <2>1
  <2>3. IsPrefix(AllUpdates, AllUpdates)
    BY DEF IsPrefix, AllUpdates
  <2>4. CASE calls[k].sent = AllUpdates
    BY <2>3, <2>4
  <2>5. CASE \E i \in 1 .. MaxCalls :
               Begun(cpc[calls[k].of], i) /\ tcIDMap[calls[k].of][i] = k
    <3>1. PICK i \in 1 .. MaxCalls :
                 Begun(cpc[calls[k].of], i) /\ tcIDMap[calls[k].of][i] = k
      BY <2>5
    <3>2. Told(cpc[calls[k].of][i], calls[k].sent)
      BY <2>2, <3>1 DEF CallsInv, IdsOwned
    <3>3. cpc[calls[k].of][i] \in CPC \ {"start"} /\ i \in 1 .. Len(cpc[calls[k].of])
      BY <2>2, <3>1, ElementOfSeq DEF Begun, CallsInv, CallTypes
    <3>4. ppc[calls[k].of] = "tools"
      BY <2>2, <3>3 DEF CallsInv, CallTypes
    <3>5. calls[k].sent \in {<<"start">>, <<"start", "input">>, AllUpdates}
      BY <3>2, <3>3 DEF Told, CPC
    <3>6. IsPrefix(<<"start">>, AllUpdates) /\ IsPrefix(<<"start", "input">>, AllUpdates)
      <4>1. /\ <<"start">> \in Seq(Updates) /\ <<"start", "input">> \in Seq(Updates)
            /\ AllUpdates \in Seq(Updates)
        BY DEF AllUpdates, Updates
      <4>2. /\ Len(<<"start">>) = 1 /\ Len(<<"start", "input">>) = 2 /\ Len(AllUpdates) = 3
            /\ <<"start">>[1] = AllUpdates[1]
            /\ <<"start", "input">>[1] = AllUpdates[1]
            /\ <<"start", "input">>[2] = AllUpdates[2]
        BY DEF AllUpdates
      <4>3. IsPrefix(<<"start">>, AllUpdates)
        <5>1. \A j \in 1 .. Len(<<"start">>) : <<"start">>[j] = AllUpdates[j]
          BY <4>2
        <5>2. Len(<<"start">>) <= Len(AllUpdates)
          BY <4>2
        <5> QED
          BY <4>1, <5>1, <5>2, PrefixByIndex
      <4>4. IsPrefix(<<"start", "input">>, AllUpdates)
        <5>1. \A j \in 1 .. Len(<<"start", "input">>) : <<"start", "input">>[j] = AllUpdates[j]
          BY <4>2
        <5>2. Len(<<"start", "input">>) <= Len(AllUpdates)
          BY <4>2
        <5> QED
          BY <4>1, <5>1, <5>2, PrefixByIndex
      <4> QED
        BY <4>3, <4>4
    <3> QED
      BY <2>3, <3>4, <3>5, <3>6
  <2> QED
    BY <2>4, <2>5 DEF CallsInv, OthersClosed
<1> QED
  BY <1>1, CallsInitially, CallsStep, PTL DEF Spec

-----------------------------------------------------------------------------
(* What session/cancel reaches. *)

(* From where the cancel function is stored to where it is cleared. *)
Served == {"load", "convHook", "turnHook", "llm", "tools", "save", "cleanup"}

(* One prompt at a time, and the cancel function is its own. *)
ReachInv ==
    /\ ppc \in [Prompts -> PPC]
    /\ \A p, q \in Prompts : p \in Active /\ q \in Active => p = q
    /\ \A p \in Prompts : ppc[p] \in Served => cancelFn = p

(* A step of a prompt that is being served: nobody else is. *)
LEMMA ServedMovesOn ==
    ASSUME ReachInv, NEW p \in Prompts, NEW from \in PPC \ {"unborn", "done"}, NEW to \in PPC,
           Goto(p, from, to),
           to \in Served => cancelFn' = p
    PROVE  ReachInv'
<1>1. /\ ppc' \in [Prompts -> PPC] /\ ppc'[p] = to /\ p \in Active
      /\ \A q \in Prompts : q # p => ppc'[q] = ppc[q]
  BY DEF Goto, ReachInv, Active
<1>2. \A q \in Prompts : q # p => ppc[q] \in {"unborn", "done"}
  BY <1>1 DEF ReachInv, Active
<1>3. \A q, r \in Prompts : q \in Active' /\ r \in Active' => q = r
  BY <1>1, <1>2 DEF Active
<1>4. \A q \in Prompts : ppc'[q] \in Served => cancelFn' = q
  BY <1>1, <1>2 DEF Served
<1> QED
  BY <1>1, <1>3, <1>4 DEF ReachInv

LEMMA ReachStep ==
    ASSUME "overlap" \notin Features
    PROVE  ReachInv /\ [Next]_vars => ReachInv'
<1> SUFFICES ASSUME ReachInv, [Next]_vars PROVE ReachInv'
  OBVIOUS
<1>1. CASE UNCHANGED vars
  BY <1>1 DEF vars, ReachInv, Active
<1>2. CASE Cancel
  BY <1>2 DEF Cancel, ReachInv, Active
<1>3. ASSUME NEW p \in Prompts, PromptArrives(p) PROVE ReachInv'
  <2>1. /\ Active = {} /\ UNCHANGED cancelFn
        /\ ppc[p] = "unborn" /\ ppc' = [ppc EXCEPT ![p] = "build"]
    BY <1>3 DEF PromptArrives, Goto
  <2>2. \A q \in Prompts : ppc[q] \in {"unborn", "done"}
    BY <2>1 DEF Active
  <2> QED
    BY <2>1, <2>2 DEF ReachInv, Active, PPC, Served
<1>4. ASSUME NEW p \in Prompts, OwnStep(p) \/ WaitOver(p) PROVE ReachInv'
  <2> USE DEF ReachInv
  <2>1. CASE StoreCancel(p)
    BY <2>1, ServedMovesOn DEF StoreCancel, PPC
  <2>2. CASE Cleanup(p)
    BY <2>2, ServedMovesOn DEF Cleanup, PPC, Served
  <2>3. CASE BuildFails(p) \/ BuildToolRegistry(p)
    BY <2>3, ServedMovesOn DEF BuildFails, BuildToolRegistry, PPC, Served
  <2>4. CASE \/ LoadHistory(p) \/ CollectResults(p) \/ SaveHistory(p)
             \/ ConversationBegin(p) \/ TurnBegin(p)
             \/ LLMCallsTools(p) \/ LLMReplies(p) \/ LLMFails(p)
    <3>1. PICK from \in Served, to \in Served : Goto(p, from, to) /\ UNCHANGED cancelFn
      BY <2>4 DEF LoadHistory, CollectResults, SaveHistory, ConversationBegin, TurnBegin,
                  Hook, LLMCallsTools, LLMReplies, LLMFails, Served
    <3>2. from \in PPC \ {"unborn", "done"} /\ to \in PPC
      BY DEF Served, PPC
    <3>3. cancelFn' = p
      BY <3>1 DEF Goto
    <3> QED
      BY <3>1, <3>2, <3>3, ServedMovesOn
  <2>5. CASE \E i \in 1 .. MaxCalls :
               CallStart(p, i) \/ CallInput(p, i) \/ CallReturns(p, i) \/ CallClose(p, i)
    <3>1. UNCHANGED <<ppc, cancelFn>>
      BY <2>5 DEF CallStart, CallInput, CallReturns, CallClose, CallGoto
    <3> QED
      BY <3>1 DEF Active
  <2> QED
    BY <1>4, <2>1, <2>2, <2>3, <2>4, <2>5 DEF OwnStep, WaitOver
<1> QED
  BY <1>1, <1>2, <1>3, <1>4 DEF Next

(* CancelReachesPrompt, when the client sends a prompt only after the answer to the
   last one: the deferred functions of a prompt clear CancelFn before the next
   prompt stores its own (cmd_acp.go), so cancel() always has the one to call. *)
THEOREM CancelReaches ==
    ASSUME "overlap" \notin Features
    PROVE  Spec => []CancelReachesPrompt
<1>1. Init => ReachInv
  BY DEF Init, ReachInv, Active, PPC, Served
<1>2. ReachInv => CancelReachesPrompt
  BY DEF ReachInv, CancelReachesPrompt, Served
<1> QED
  BY <1>1, <1>2, ReachStep, PTL DEF Spec

-----------------------------------------------------------------------------
(* What the LLM is sent. *)

Well(c) == History!ResultsFollowCalls(c)

(* The two halves of ResultsFollowCalls, index by index. *)
CallsAnswered(c) ==
    \A i \in 1 .. Len(c) : c[i].role = "assistant" =>
        \A k \in 1 .. c[i].call :
            /\ i + k \in 1 .. Len(c)
            /\ c[i + k] = Message("tool", c[i].prompt, c[i].round, k)

ResultsCalled(c) ==
    \A j \in 1 .. Len(c) : c[j].role = "tool" =>
        \E i \in 1 .. j - 1 :
            /\ c[i].role = "assistant"
            /\ c[i].prompt = c[j].prompt
            /\ c[i].round = c[j].round
            /\ j - i = c[j].call
            /\ c[j].call <= c[i].call

LEMMA WellByIndex ==
    ASSUME NEW c \in Seq(Messages)
    PROVE  Well(c) <=> CallsAnswered(c) /\ ResultsCalled(c)
<1>1. DOMAIN c = 1 .. Len(c)
  BY LenProperties
<1> QED
  BY <1>1 DEF Well, CallsAnswered, ResultsCalled, History!ResultsFollowCalls, Message

LEMMA EmptyIsWell == Well(<<>>)
<1>1. <<>> \in Seq(Messages) /\ Len(<<>>) = 0
  BY EmptySeq
<1>2. CallsAnswered(<<>>)
  BY <1>1 DEF CallsAnswered
<1>3. ResultsCalled(<<>>)
  BY <1>1 DEF ResultsCalled
<1> QED
  BY ONLY <1>1, <1>2, <1>3, WellByIndex

(* A message that neither calls tools nor answers a call may follow. *)
LEMMA PlainMessageKeepsWell ==
    ASSUME NEW c \in Seq(Messages), Well(c),
           NEW m \in Messages, m.role \in {"user", "system"}
    PROVE  Append(c, m) \in Seq(Messages) /\ Well(Append(c, m))
<1> DEFINE d == Append(c, m)
<1>1. /\ d \in Seq(Messages) /\ Len(d) = Len(c) + 1 /\ Len(c) \in Nat
      /\ \A i \in 1 .. Len(c) : d[i] = c[i]
      /\ d[Len(c) + 1] = m
  BY AppendProperties, LenProperties
<1>2. \A i \in 1 .. Len(c) : c[i] \in Messages
  BY ElementOfSeq
<1> HIDE DEF d
<1>3. CallsAnswered(c) /\ ResultsCalled(c)
  BY WellByIndex
<1>4. \A i \in 1 .. Len(d) : i = Len(c) + 1 \/ i \in 1 .. Len(c)
  BY ONLY <1>1
<1>5. CallsAnswered(d)
  <2> SUFFICES ASSUME NEW i \in 1 .. Len(d), d[i].role = "assistant", NEW k \in 1 .. d[i].call
               PROVE  /\ i + k \in 1 .. Len(d)
                      /\ d[i + k] = Message("tool", d[i].prompt, d[i].round, k)
    BY DEF CallsAnswered
  <2>1. i \in 1 .. Len(c) /\ d[i] = c[i]
    BY <1>1, <1>4
  <2>2. i + k \in 1 .. Len(c) /\ c[i + k] = Message("tool", c[i].prompt, c[i].round, k)
    BY <2>1, <1>3 DEF CallsAnswered
  <2> QED
    BY <2>1, <2>2, <1>1
<1>6. ResultsCalled(d)
  <2> SUFFICES ASSUME NEW j \in 1 .. Len(d), d[j].role = "tool"
               PROVE  \E i \in 1 .. j - 1 :
                         /\ d[i].role = "assistant"
                         /\ d[i].prompt = d[j].prompt
                         /\ d[i].round = d[j].round
                         /\ j - i = d[j].call
                         /\ d[j].call <= d[i].call
    BY DEF ResultsCalled
  <2>1. j \in 1 .. Len(c) /\ d[j] = c[j]
    BY <1>1, <1>4
  <2>2. PICK i \in 1 .. j - 1 : /\ c[i].role = "assistant"
                                /\ c[i].prompt = c[j].prompt
                                /\ c[i].round = c[j].round
                                /\ j - i = c[j].call
                                /\ c[j].call <= c[i].call
    BY <2>1, <1>3 DEF ResultsCalled
  <2>3. d[i] = c[i]
    BY <2>1, <1>1
  <2> QED
    BY <2>1, <2>2, <2>3
<1>7. Well(d)
  BY <1>1, <1>5, <1>6, WellByIndex
<1> QED
  BY <1>1, <1>7 DEF d

(* A message that calls n tools may follow with its n results. *)
LEMMA RoundKeepsWell ==
    ASSUME NEW c \in Seq(Messages), Well(c),
           NEW p \in Prompts, NEW r \in 0 .. MaxRounds, NEW n \in 0 .. MaxCalls,
           NEW results \in Seq(Messages), Len(results) = n,
           \A k \in 1 .. n : results[k] = Message("tool", p, r, k)
    PROVE  LET asked == Append(c, Message("assistant", p, r, n))
           IN  asked \o results \in Seq(Messages) /\ Well(asked \o results)
<1> DEFINE m == Message("assistant", p, r, n)
           asked == Append(c, m)
           d == asked \o results
<1>1. /\ m \in Messages /\ m.role = "assistant" /\ m.prompt = p /\ m.round = r /\ m.call = n
  BY DEF Messages, Message, History!Message
<1>2. \A k \in 1 .. n : /\ Message("tool", p, r, k).role = "tool"
                         /\ Message("tool", p, r, k).prompt = p
                         /\ Message("tool", p, r, k).round = r
                         /\ Message("tool", p, r, k).call = k
  BY DEF Message, History!Message
<1>3. Len(c) \in Nat /\ n \in Nat
  BY LenProperties, AgentSessionAssumption
<1> HIDE DEF m
<1>4. /\ asked \in Seq(Messages) /\ Len(asked) = Len(c) + 1
      /\ \A i \in 1 .. Len(c) : asked[i] = c[i]
      /\ asked[Len(c) + 1] = m
  BY <1>1, AppendProperties
<1> HIDE DEF asked
<1>5. /\ d \in Seq(Messages) /\ Len(d) = Len(c) + 1 + n
      /\ \A i \in 1 .. Len(asked) + n : d[i] = IF i <= Len(asked) THEN asked[i]
                                               ELSE results[i - Len(asked)]
  <2>1. /\ d \in Seq(Messages) /\ Len(d) = Len(asked) + Len(results)
        /\ \A i \in 1 .. Len(asked) + Len(results) :
              d[i] = IF i <= Len(asked) THEN asked[i] ELSE results[i - Len(asked)]
    BY ONLY <1>4, ConcatProperties, results \in Seq(Messages)
  <2> HIDE DEF d
  <2> QED
    BY <2>1, <1>4
<1> HIDE DEF d
<1>6. /\ \A i \in 1 .. Len(c) : d[i] = c[i]
      /\ d[Len(c) + 1] = m
      /\ \A k \in 1 .. n : d[Len(c) + 1 + k] = Message("tool", p, r, k)
  <2>1. \A i \in 1 .. Len(c) : d[i] = c[i]
    BY ONLY <1>3, <1>4, <1>5
  <2>2. d[Len(c) + 1] = m
    BY ONLY <1>3, <1>4, <1>5
  <2>3. ASSUME NEW k \in 1 .. n
        PROVE  d[Len(c) + 1 + k] = Message("tool", p, r, k)
    <3>1. /\ Len(c) + 1 + k \in 1 .. Len(asked) + n
          /\ ~(Len(c) + 1 + k <= Len(asked))
          /\ Len(c) + 1 + k - Len(asked) = k
      BY ONLY <1>3, <1>4, <2>3
    <3> QED
      BY <3>1, <1>5
  <2> QED
    BY <2>1, <2>2, <2>3
<1>7. CallsAnswered(c) /\ ResultsCalled(c)
  BY WellByIndex
<1>8. \A i \in 1 .. Len(d) : \/ i \in 1 .. Len(c) \/ i = Len(c) + 1
                             \/ \E k \in 1 .. n : i = Len(c) + 1 + k
  <2> SUFFICES ASSUME NEW i \in 1 .. Len(d), i \notin 1 .. Len(c), i # Len(c) + 1
               PROVE  \E k \in 1 .. n : i = Len(c) + 1 + k
    OBVIOUS
  <2>1. i - (Len(c) + 1) \in 1 .. n /\ i = Len(c) + 1 + (i - (Len(c) + 1))
    BY <1>3, <1>5
  <2> QED
    BY <2>1
<1>9. CallsAnswered(d)
  <2> SUFFICES ASSUME NEW i \in 1 .. Len(d), d[i].role = "assistant", NEW k \in 1 .. d[i].call
               PROVE  /\ i + k \in 1 .. Len(d)
                      /\ d[i + k] = Message("tool", d[i].prompt, d[i].round, k)
    BY DEF CallsAnswered
  <2>1. CASE i \in 1 .. Len(c)
    <3>1. i + k \in 1 .. Len(c) /\ c[i + k] = Message("tool", c[i].prompt, c[i].round, k)
      BY <2>1, <1>6, <1>7 DEF CallsAnswered
    <3> QED
      BY <2>1, <3>1, <1>3, <1>5, <1>6
  <2>2. CASE i = Len(c) + 1
    <3>1. k \in 1 .. n /\ d[i] = m
      BY <2>2, <1>1, <1>6
    <3> QED
      BY <2>2, <3>1, <1>1, <1>3, <1>5, <1>6
  <2>3. ASSUME NEW h \in 1 .. n, i = Len(c) + 1 + h PROVE FALSE
    BY <2>3, <1>2, <1>6
  <2> QED
    BY <2>1, <2>2, <2>3, <1>8
<1>10. ResultsCalled(d)
  <2> SUFFICES ASSUME NEW j \in 1 .. Len(d), d[j].role = "tool"
               PROVE  \E i \in 1 .. j - 1 :
                         /\ d[i].role = "assistant"
                         /\ d[i].prompt = d[j].prompt
                         /\ d[i].round = d[j].round
                         /\ j - i = d[j].call
                         /\ d[j].call <= d[i].call
    BY DEF ResultsCalled
  <2>1. CASE j \in 1 .. Len(c)
    <3>1. PICK i \in 1 .. j - 1 : /\ c[i].role = "assistant"
                                  /\ c[i].prompt = c[j].prompt
                                  /\ c[i].round = c[j].round
                                  /\ j - i = c[j].call
                                  /\ c[j].call <= c[i].call
      BY <2>1, <1>6, <1>7 DEF ResultsCalled
    <3>2. d[i] = c[i] /\ d[j] = c[j]
      BY <2>1, <1>3, <1>6
    <3> QED
      BY <3>1, <3>2
  <2>2. CASE j = Len(c) + 1
    BY <2>2, <1>1, <1>6
  <2>3. ASSUME NEW h \in 1 .. n, j = Len(c) + 1 + h
        PROVE  \E i \in 1 .. j - 1 :
                  /\ d[i].role = "assistant"
                  /\ d[i].prompt = d[j].prompt
                  /\ d[i].round = d[j].round
                  /\ j - i = d[j].call
                  /\ d[j].call <= d[i].call
    <3>1. Len(c) + 1 \in 1 .. j - 1 /\ j - (Len(c) + 1) = h /\ h <= n
      BY <2>3, <1>3
    <3>2. /\ d[Len(c) + 1].role = "assistant" /\ d[Len(c) + 1].prompt = p
          /\ d[Len(c) + 1].round = r /\ d[Len(c) + 1].call = n
      BY <1>1, <1>6
    <3>3. d[j].prompt = p /\ d[j].round = r /\ d[j].call = h
      BY <2>3, <1>2, <1>6
    <3> QED
      BY <3>1, <3>2, <3>3
  <2> QED
    BY <2>1, <2>2, <2>3, <1>8
<1>11. Well(d)
  BY <1>5, <1>9, <1>10, WellByIndex
<1> QED
  BY <1>5, <1>11 DEF d, asked, m

AtRest == {"convHook", "turnHook", "llm", "save"}

(* The chat c of prompt p, whose goroutine is at pc in round r with n calls: while
   the tools run, it ends with the message that calls them. *)
ChatOk(pc, c, p, r, n) ==
    /\ pc \in AtRest => Well(c)
    /\ pc = "tools" =>
          \E front \in Seq(Messages) :
             Well(front) /\ c = Append(front, Message("assistant", p, r, n))

ChatTypes ==
    /\ saved \in Seq(Messages)
    /\ ppc \in [Prompts -> PPC]
    /\ chat \in [Prompts -> Seq(Messages)]
    /\ round \in [Prompts -> 0 .. MaxRounds]
    /\ cpc \in [Prompts -> Seq(CPC)]
    /\ \A p \in Prompts : Len(cpc[p]) <= MaxCalls

ChatsOk == \A p \in Prompts : ChatOk(ppc[p], chat[p], p, round[p], Len(cpc[p]))

WellInv == ChatTypes /\ Well(saved) /\ ChatsOk

LEMMA MessageTypes ==
    ASSUME NEW p \in Prompts \cup {NoPrompt}, NEW role \in {"user", "assistant", "system", "tool"},
           NEW r \in 0 .. MaxRounds, NEW k \in 0 .. MaxCalls
    PROVE  /\ Message(role, p, r, k) \in Messages
           /\ Message(role, p, r, k).role = role
           /\ Message(role, p, r, k).prompt = p
           /\ Message(role, p, r, k).round = r
           /\ Message(role, p, r, k).call = k
BY DEF Messages, Message, History!Message

LEMMA ToolMessagesTypes ==
    ASSUME NEW p \in Prompts, ChatTypes
    PROVE  /\ ToolMessages(p) \in Seq(Messages)
           /\ Len(ToolMessages(p)) = Len(cpc[p])
           /\ \A k \in 1 .. Len(cpc[p]) :
                 ToolMessages(p)[k] = Message("tool", p, round[p], k)
<1>1. DOMAIN cpc[p] = 1 .. Len(cpc[p]) /\ Len(cpc[p]) \in 0 .. MaxCalls
  BY LenProperties, AgentSessionAssumption DEF ChatTypes
<1>2. \A k \in 1 .. Len(cpc[p]) : Message("tool", p, round[p], k) \in Messages
  <2> SUFFICES ASSUME NEW k \in 1 .. Len(cpc[p])
               PROVE  Message("tool", p, round[p], k) \in Messages
    OBVIOUS
  <2>1. k \in 0 .. MaxCalls /\ round[p] \in 0 .. MaxRounds
    BY <1>1, AgentSessionAssumption DEF ChatTypes
  <2> QED
    BY <2>1, MessageTypes
<1>3. ToolMessages(p) = [k \in 1 .. Len(cpc[p]) |-> Message("tool", p, round[p], k)]
  BY <1>1 DEF ToolMessages
<1>4. ToolMessages(p) \in [1 .. Len(cpc[p]) -> Messages]
  BY <1>2, <1>3
<1>5. ToolMessages(p) \in Seq(Messages)
  BY <1>1, <1>4, SeqDef
<1>6. Len(ToolMessages(p)) = Len(cpc[p])
  BY <1>1, <1>4, <1>5, LenProperties
<1> QED
  BY <1>3, <1>5, <1>6

(* A step that leaves what other prompts have alone. *)
LEMMA ChatsMoveOn ==
    ASSUME WellInv, NEW p \in Prompts, NEW pc \in PPC, NEW c \in Seq(Messages),
           NEW r \in 0 .. MaxRounds, NEW pcs \in Seq(CPC), Len(pcs) <= MaxCalls,
           ppc' = [ppc EXCEPT ![p] = pc], chat' = [chat EXCEPT ![p] = c],
           round' = [round EXCEPT ![p] = r], cpc' = [cpc EXCEPT ![p] = pcs],
           saved' \in Seq(Messages), Well(saved'),
           ChatOk(pc, c, p, r, Len(pcs))
    PROVE  WellInv'
<1>1. ChatTypes'
  BY DEF WellInv, ChatTypes
<1>2. \A q \in Prompts : ChatOk(ppc'[q], chat'[q], q, round'[q], Len(cpc'[q]))
  <2> SUFFICES ASSUME NEW q \in Prompts
               PROVE  ChatOk(ppc'[q], chat'[q], q, round'[q], Len(cpc'[q]))
    OBVIOUS
  <2>1. CASE q = p
    <3>1. ppc'[q] = pc /\ chat'[q] = c /\ round'[q] = r /\ cpc'[q] = pcs
      BY <2>1 DEF WellInv, ChatTypes
    <3> QED
      BY <2>1, <3>1
  <2>2. CASE q # p
    <3>1. ppc'[q] = ppc[q] /\ chat'[q] = chat[q] /\ round'[q] = round[q] /\ cpc'[q] = cpc[q]
      BY <2>2 DEF WellInv, ChatTypes
    <3> QED
      BY <3>1 DEF WellInv, ChatsOk
  <2> QED
    BY <2>1, <2>2
<1> QED
  BY <1>1, <1>2 DEF WellInv, ChatsOk

(* A step that leaves the chats alone. *)
LEMMA ChatsUntouched ==
    ASSUME WellInv, NEW p \in Prompts, NEW from \in PPC, NEW to \in PPC, Goto(p, from, to),
           UNCHANGED <<saved, chat, round, cpc>>,
           to = "tools" => from = "tools",
           to \in AtRest => from \in AtRest
    PROVE  WellInv'
<1>1. ChatTypes'
  BY DEF WellInv, ChatTypes, Goto
<1>2. ASSUME NEW q \in Prompts PROVE ChatOk(ppc'[q], chat[q], q, round[q], Len(cpc[q]))
  BY DEF WellInv, ChatsOk, ChatOk, ChatTypes, Goto
<1> QED
  BY <1>1, <1>2 DEF WellInv, ChatsOk

LEMMA LoadKeepsWell ==
    ASSUME "resume" \notin Features, WellInv, NEW p \in Prompts, LoadHistory(p)
    PROVE  WellInv'
<1> DEFINE c == Append(saved, Message("user", p, 0, 0))
<1>1. /\ ppc' = [ppc EXCEPT ![p] = "convHook"] /\ UNCHANGED <<saved, round, cpc>>
      /\ chat' = [chat EXCEPT ![p] = c]
  BY DEF LoadHistory, Goto, Resumed
<1>2. /\ Message("user", p, 0, 0) \in Messages /\ Message("user", p, 0, 0).role = "user"
  BY MessageTypes, AgentSessionAssumption
<1>3. c \in Seq(Messages) /\ Well(c)
  BY <1>2, PlainMessageKeepsWell DEF WellInv, ChatTypes
<1>4. ChatOk("convHook", c, p, round[p], Len(cpc[p]))
  BY <1>3 DEF ChatOk, AtRest
<1> HIDE DEF c
<1>5. /\ round' = [round EXCEPT ![p] = round[p]] /\ cpc' = [cpc EXCEPT ![p] = cpc[p]]
      /\ round[p] \in 0 .. MaxRounds /\ cpc[p] \in Seq(CPC) /\ Len(cpc[p]) <= MaxCalls
  BY <1>1 DEF WellInv, ChatTypes
<1>6. "convHook" \in PPC /\ saved' \in Seq(Messages) /\ Well(saved')
  BY <1>1 DEF WellInv, ChatTypes, PPC
<1> QED
  BY <1>1, <1>3, <1>4, <1>5, <1>6, ChatsMoveOn

LEMMA HookKeepsWell ==
    ASSUME WellInv, NEW p \in Prompts, NEW runs \in BOOLEAN,
           NEW from \in AtRest, NEW to \in AtRest,
           Hook(p, runs, from, to), UNCHANGED <<saved, round, cpc>>
    PROVE  WellInv'
<1>1. CASE UNCHANGED chat
  <2>1. PICK there \in AtRest \cup {"cleanup"} : Goto(p, from, there)
    BY DEF Hook
  <2>2. from \in PPC /\ there \in PPC /\ there # "tools"
    BY DEF PPC, AtRest
  <2> QED
    BY <1>1, <2>1, <2>2, ChatsUntouched
<1>2. CASE /\ Goto(p, from, to)
           /\ chat' = [chat EXCEPT ![p] = Append(@, Message("system", p, 0, 0))]
  <2> DEFINE c == Append(chat[p], Message("system", p, 0, 0))
  <2>1. ppc' = [ppc EXCEPT ![p] = to] /\ chat' = [chat EXCEPT ![p] = c]
    BY <1>2 DEF Goto, WellInv, ChatTypes
  <2>2. chat[p] \in Seq(Messages) /\ Well(chat[p])
    BY <1>2 DEF Goto, WellInv, ChatTypes, ChatsOk, ChatOk
  <2>3. Message("system", p, 0, 0) \in Messages /\ Message("system", p, 0, 0).role = "system"
    BY MessageTypes, AgentSessionAssumption
  <2>4. c \in Seq(Messages) /\ Well(c)
    BY <2>2, <2>3, PlainMessageKeepsWell
  <2>5. ChatOk(to, c, p, round[p], Len(cpc[p]))
    BY <2>4 DEF ChatOk, AtRest
  <2> HIDE DEF c
  <2>6. /\ round' = [round EXCEPT ![p] = round[p]] /\ cpc' = [cpc EXCEPT ![p] = cpc[p]]
        /\ round[p] \in 0 .. MaxRounds /\ cpc[p] \in Seq(CPC) /\ Len(cpc[p]) <= MaxCalls
        /\ saved' \in Seq(Messages) /\ Well(saved')
    BY DEF WellInv, ChatTypes
  <2>7. to \in PPC
    BY DEF PPC, AtRest
  <2> QED
    BY <2>1, <2>4, <2>5, <2>6, <2>7, ChatsMoveOn
<1> QED
  BY <1>1, <1>2 DEF Hook

LEMMA ToolsBeginWell ==
    ASSUME WellInv, NEW p \in Prompts, LLMCallsTools(p)
    PROVE  WellInv'
<1>1. PICK n \in 1 .. MaxCalls :
        /\ chat' = [chat EXCEPT ![p] = Append(@, Message("assistant", p, round[p] + 1, n))]
        /\ cpc' = [cpc EXCEPT ![p] = [i \in 1 .. n |-> "start"]]
  BY DEF LLMCallsTools
<1> DEFINE c == Append(chat[p], Message("assistant", p, round[p] + 1, n))
           pcs == [i \in 1 .. n |-> "start"]
<1>2. /\ ppc[p] = "llm" /\ ppc' = [ppc EXCEPT ![p] = "tools"]
      /\ round' = [round EXCEPT ![p] = round[p] + 1] /\ saved' = saved
      /\ round[p] < MaxRounds
  BY DEF LLMCallsTools, Goto, WellInv, ChatTypes
<1>3. /\ chat' = [chat EXCEPT ![p] = c] /\ cpc' = [cpc EXCEPT ![p] = pcs]
  BY <1>1 DEF WellInv, ChatTypes
<1>4. /\ chat[p] \in Seq(Messages) /\ Well(chat[p]) /\ round[p] \in 0 .. MaxRounds
      /\ Well(saved) /\ saved \in Seq(Messages)
  BY <1>2 DEF WellInv, ChatTypes, ChatsOk, ChatOk, AtRest
<1>5. n \in 0 .. MaxCalls /\ round[p] + 1 \in 0 .. MaxRounds
  BY <1>2, <1>4, AgentSessionAssumption
<1>6. pcs \in Seq(CPC) /\ Len(pcs) = n
  BY <1>5 DEF CPC
<1>7. c \in Seq(Messages)
  BY <1>4, <1>5, MessageTypes, AppendProperties
<1> HIDE DEF pcs
<1>8. ChatOk("tools", c, p, round[p] + 1, Len(pcs))
  BY <1>4, <1>6 DEF ChatOk, AtRest
<1> HIDE DEF c
<1>9. "tools" \in PPC /\ Len(pcs) <= MaxCalls
  BY <1>5, <1>6 DEF PPC
<1> QED
  BY <1>2, <1>3, <1>4, <1>5, <1>6, <1>7, <1>8, <1>9, ChatsMoveOn

LEMMA CollectKeepsWell ==
    ASSUME WellInv, NEW p \in Prompts, CollectResults(p)
    PROVE  WellInv'
<1> DEFINE c == chat[p] \o ToolMessages(p)
<1>1. /\ ppc[p] = "tools" /\ ppc' = [ppc EXCEPT ![p] = "llm"]
      /\ chat' = [chat EXCEPT ![p] = c] /\ cpc' = [cpc EXCEPT ![p] = <<>>]
      /\ UNCHANGED <<saved, round>>
  BY DEF CollectResults, Goto, WellInv, ChatTypes
<1>2. PICK front \in Seq(Messages) :
        Well(front) /\ chat[p] = Append(front, Message("assistant", p, round[p], Len(cpc[p])))
  BY <1>1 DEF WellInv, ChatsOk, ChatOk
<1>3. round[p] \in 0 .. MaxRounds /\ Len(cpc[p]) \in 0 .. MaxCalls
  BY LenProperties, AgentSessionAssumption DEF WellInv, ChatTypes
<1>4. /\ ToolMessages(p) \in Seq(Messages)
      /\ Len(ToolMessages(p)) = Len(cpc[p])
      /\ \A k \in 1 .. Len(cpc[p]) :
            ToolMessages(p)[k] = Message("tool", p, round[p], k)
  BY ToolMessagesTypes DEF WellInv
<1>5. c \in Seq(Messages) /\ Well(c)
  BY <1>2, <1>3, <1>4, RoundKeepsWell
<1>6. ChatOk("llm", c, p, round[p], 0)
  BY <1>5 DEF ChatOk
<1> HIDE DEF c
<1>7. /\ round' = [round EXCEPT ![p] = round[p]] /\ "llm" \in PPC
      /\ saved' \in Seq(Messages) /\ Well(saved')
  BY <1>1 DEF WellInv, ChatTypes, PPC
<1>8. <<>> \in Seq(CPC) /\ Len(<<>>) = 0 /\ 0 <= MaxCalls
  BY EmptySeq, AgentSessionAssumption
<1> QED
  BY <1>1, <1>3, <1>5, <1>6, <1>7, <1>8, ChatsMoveOn

LEMMA WellStep ==
    ASSUME "resume" \notin Features
    PROVE  WellInv /\ [Next]_vars => WellInv'
<1> SUFFICES ASSUME WellInv, [Next]_vars PROVE WellInv'
  OBVIOUS
<1>1. CASE UNCHANGED vars \/ Cancel
  BY <1>1 DEF vars, Cancel, WellInv, ChatTypes, ChatsOk
<1>2. ASSUME NEW p \in Prompts, PromptArrives(p) \/ OwnStep(p) \/ WaitOver(p)
      PROVE  WellInv'
  <2>1. CASE \/ PromptArrives(p) \/ BuildFails(p) \/ BuildToolRegistry(p) \/ StoreCancel(p)
             \/ LLMReplies(p) \/ LLMFails(p)
    <3>1. PICK from \in PPC, to \in PPC :
            /\ Goto(p, from, to) /\ UNCHANGED <<saved, chat, round, cpc>>
            /\ to # "tools" /\ (to \in AtRest => from \in AtRest)
      BY <2>1 DEF PromptArrives, BuildFails, BuildToolRegistry, StoreCancel, LLMReplies,
                  LLMFails, PPC, AtRest
    <3> QED
      BY <3>1, ChatsUntouched
  <2>2. CASE LoadHistory(p)
    BY <2>2, LoadKeepsWell
  <2>3. CASE ConversationBegin(p)
    <3>1. ("hooks" \in Features /\ ~Resumed(p) /\ Len(chat[p]) <= 1) \in BOOLEAN
      OBVIOUS
    <3> QED
      BY <2>3, <3>1, HookKeepsWell DEF ConversationBegin, AtRest
  <2>4. CASE TurnBegin(p)
    <3>1. ("hooks" \in Features /\ ~Resumed(p)) \in BOOLEAN
      OBVIOUS
    <3> QED
      BY <2>4, <3>1, HookKeepsWell DEF TurnBegin, AtRest
  <2>5. CASE LLMCallsTools(p)
    BY <2>5, ToolsBeginWell
  <2>6. CASE CollectResults(p)
    BY <2>6, CollectKeepsWell
  <2>7. CASE SaveHistory(p)
    <3>1. /\ ppc[p] = "save" /\ ppc' = [ppc EXCEPT ![p] = "cleanup"]
          /\ saved' = chat[p] /\ UNCHANGED <<chat, round, cpc>>
      BY <2>7 DEF SaveHistory, Goto
    <3>2. saved' \in Seq(Messages) /\ Well(saved')
      BY <3>1 DEF WellInv, ChatTypes, ChatsOk, ChatOk, AtRest
    <3>3. ChatTypes'
      BY <3>1, <3>2 DEF WellInv, ChatTypes, PPC
    <3>4. \A q \in Prompts : ChatOk(ppc'[q], chat[q], q, round[q], Len(cpc[q]))
      BY <3>1 DEF WellInv, ChatTypes, ChatsOk, ChatOk, AtRest
    <3> QED
      BY <3>1, <3>2, <3>3, <3>4 DEF WellInv, ChatsOk
  <2>8. CASE Cleanup(p)
    <3>1. /\ ppc' = [ppc EXCEPT ![p] = "done"]
          /\ chat' = [chat EXCEPT ![p] = <<>>] /\ round' = [round EXCEPT ![p] = 0]
          /\ cpc' = [cpc EXCEPT ![p] = cpc[p]] /\ UNCHANGED saved
      BY <2>8 DEF Cleanup, Goto, WellInv, ChatTypes
    <3>2. /\ <<>> \in Seq(Messages) /\ 0 \in 0 .. MaxRounds /\ "done" \in PPC
          /\ cpc[p] \in Seq(CPC) /\ Len(cpc[p]) <= MaxCalls
          /\ saved' \in Seq(Messages) /\ Well(saved')
      BY <3>1, AgentSessionAssumption DEF WellInv, ChatTypes, PPC
    <3>3. ChatOk("done", <<>>, p, 0, Len(cpc[p]))
      BY DEF ChatOk, AtRest
    <3> DEFINE none == <<>>
    <3> HIDE DEF none
    <3>4. /\ none \in Seq(Messages) /\ chat' = [chat EXCEPT ![p] = none]
          /\ ChatOk("done", none, p, 0, Len(cpc[p]))
      BY <3>1, <3>2, <3>3 DEF none
    <3> QED
      BY <3>1, <3>2, <3>4, ChatsMoveOn
  <2>9. CASE \E i \in 1 .. MaxCalls :
               CallStart(p, i) \/ CallInput(p, i) \/ CallReturns(p, i) \/ CallClose(p, i)
    <3>1. PICK i \in 1 .. MaxCalls, from \in CPC, to \in CPC \ {"start"} :
            CallGoto(p, i, from, to)
      BY <2>9 DEF CallStart, CallInput, CallReturns, CallClose, CPC
    <3>2. /\ UNCHANGED <<saved, ppc, chat, round>> /\ i \in DOMAIN cpc[p]
          /\ cpc' = [cpc EXCEPT ![p] = [cpc[p] EXCEPT ![i] = to]]
      BY <3>1 DEF CallGoto
    <3>3. cpc[p] \in Seq(CPC) /\ i \in 1 .. Len(cpc[p]) /\ to \in CPC
      BY <3>2, LenProperties DEF WellInv, ChatTypes
    <3>4. /\ [cpc[p] EXCEPT ![i] = to] \in Seq(CPC)
          /\ Len([cpc[p] EXCEPT ![i] = to]) = Len(cpc[p])
      BY <3>3, ExceptSeq
    <3>5. \A q \in Prompts : Len(cpc'[q]) = Len(cpc[q]) /\ cpc' \in [Prompts -> Seq(CPC)]
      BY <3>2, <3>4 DEF WellInv, ChatTypes
    <3>6. ChatTypes'
      BY <3>2, <3>5 DEF WellInv, ChatTypes
    <3>7. ChatsOk'
      BY <3>2, <3>5 DEF WellInv, ChatsOk
    <3> QED
      BY <3>2, <3>6, <3>7 DEF WellInv
  <2> QED
    BY <1>2, <2>1, <2>2, <2>3, <2>4, <2>5, <2>6, <2>7, <2>8, <2>9 DEF OwnStep, WaitOver
<1> QED
  BY <1>1, <1>2 DEF Next

(* RequestWellFormed, when no older conversation is continued: however many prompts
   overlap and whatever hooks add, runPrompt (runner.go) sends the LLM a chat in
   which the results of each round follow their calls, complete and in order. *)
THEOREM RequestsWellFormed ==
    ASSUME "resume" \notin Features
    PROVE  Spec => []RequestWellFormed
<1>1. Init => WellInv
  BY EmptyIsWell, EmptySeq, AgentSessionAssumption
     DEF Init, WellInv, ChatTypes, ChatsOk, ChatOk, AtRest, PPC
<1>2. WellInv => RequestWellFormed
  BY DEF WellInv, ChatsOk, ChatOk, AtRest, RequestWellFormed, Well
<1> QED
  BY <1>1, <1>2, WellStep, PTL DEF Spec

-----------------------------------------------------------------------------
(* What the session remembers. *)

(* The messages t are those of a turn of p, from the user's prompt on. *)
TurnSoFar(t, p) ==
    /\ t \in Seq(Messages) /\ Len(t) > 0
    /\ t[1].role = "user"
    /\ \A i \in 1 .. Len(t) : t[i].prompt = p
    /\ \A i \in 2 .. Len(t) : t[i].role # "user"

(* The chat c of prompt p is what was saved before, and a turn of p. *)
TurnOk(pc, before, c, p, r, n) ==
    /\ pc \in AtRest =>
          \E t \in Seq(Messages) : TurnSoFar(t, p) /\ Well(t) /\ c = before \o t
    /\ pc = "tools" =>
          \E t \in Seq(Messages) :
             /\ TurnSoFar(t, p) /\ Well(t)
             /\ c = before \o Append(t, Message("assistant", p, r, n))

TurnsOk == \A p \in Prompts : TurnOk(ppc[p], saved, chat[p], p, round[p], Len(cpc[p]))

TurnInv == WellInv /\ ReachInv /\ TurnsOk

LEMMA TurnGrows ==
    ASSUME NEW p \in Prompts, NEW t \in Seq(Messages), TurnSoFar(t, p),
           NEW s \in Seq(Messages),
           \A i \in 1 .. Len(s) : s[i].prompt = p /\ s[i].role # "user"
    PROVE  TurnSoFar(t \o s, p)
<1> DEFINE u == t \o s
<1>1. /\ u \in Seq(Messages) /\ Len(u) = Len(t) + Len(s)
      /\ \A i \in 1 .. Len(t) + Len(s) : u[i] = IF i <= Len(t) THEN t[i] ELSE s[i - Len(t)]
  BY ConcatProperties
<1>2. Len(t) \in Nat /\ Len(s) \in Nat /\ Len(t) > 0
  BY LenProperties DEF TurnSoFar
<1> HIDE DEF u
<1>3. ASSUME NEW i \in 1 .. Len(u)
      PROVE  u[i].prompt = p /\ (i \in 2 .. Len(u) => u[i].role # "user")
  <2>1. CASE i \in 1 .. Len(t)
    BY <2>1, <1>1, <1>2 DEF TurnSoFar
  <2>2. CASE i \notin 1 .. Len(t)
    <3>1. i - Len(t) \in 1 .. Len(s) /\ u[i] = s[i - Len(t)]
      BY <2>2, <1>1, <1>2
    <3> QED
      BY <3>1
  <2> QED
    BY <2>1, <2>2
<1>4. u[1] = t[1] /\ Len(u) > 0
  BY <1>1, <1>2
<1>5. \A i \in 2 .. Len(u) : i \in 1 .. Len(u)
  BY <1>1, <1>2
<1>6. TurnSoFar(u, p)
  BY <1>1, <1>3, <1>4, <1>5 DEF TurnSoFar
<1> QED
  BY <1>6 DEF u

LEMMA TurnGrowsByOne ==
    ASSUME NEW p \in Prompts, NEW t \in Seq(Messages), TurnSoFar(t, p),
           NEW m \in Messages, m.prompt = p, m.role # "user"
    PROVE  TurnSoFar(Append(t, m), p)
<1>1. <<m>> \in Seq(Messages) /\ Len(<<m>>) = 1 /\ <<m>>[1] = m
  OBVIOUS
<1>2. \A i \in 1 .. Len(<<m>>) : <<m>>[i].prompt = p /\ <<m>>[i].role # "user"
  BY <1>1
<1>3. Append(t, m) = t \o <<m>>
  BY AppendIsConcat
<1> QED
  BY <1>1, <1>2, <1>3, TurnGrows

LEMMA AppendInside ==
    ASSUME NEW b \in Seq(Messages), NEW t \in Seq(Messages), NEW m \in Messages
    PROVE  Append(b \o t, m) = b \o Append(t, m)
<1>1. <<m>> \in Seq(Messages) /\ b \o t \in Seq(Messages)
  BY ConcatProperties
<1>2. Append(t, m) = t \o <<m>> /\ Append(b \o t, m) = (b \o t) \o <<m>>
  BY <1>1, AppendIsConcat
<1> QED
  BY <1>1, <1>2, ConcatAssociative

(* A step of a prompt that is served: the others have no turn. *)
LEMMA TurnMovesOn ==
    ASSUME TurnInv, WellInv', ReachInv', NEW p \in Prompts,
           p \in Active, \A q \in Prompts : q # p => ppc'[q] = ppc[q],
           TurnOk(ppc'[p], saved', chat'[p], p, round'[p], Len(cpc'[p]))
    PROVE  TurnInv'
<1>1. ASSUME NEW q \in Prompts, q # p
      PROVE  TurnOk(ppc'[q], saved', chat'[q], q, round'[q], Len(cpc'[q]))
  <2>1. ppc'[q] \in {"unborn", "done"}
    BY <1>1 DEF TurnInv, ReachInv, Active
  <2> QED
    BY <2>1 DEF TurnOk, AtRest
<1>2. TurnsOk'
  BY <1>1 DEF TurnsOk
<1> QED
  BY <1>2 DEF TurnInv

LEMMA LoadKeepsTurns ==
    ASSUME "resume" \notin Features, TurnInv, WellInv', ReachInv',
           NEW p \in Prompts, LoadHistory(p)
    PROVE  TurnInv'
<1> DEFINE m == Message("user", p, 0, 0)
           t == <<m>>
<1>1. /\ ppc[p] = "load" /\ ppc' = [ppc EXCEPT ![p] = "convHook"]
      /\ chat' = [chat EXCEPT ![p] = Append(saved, m)] /\ saved' = saved
  BY DEF LoadHistory, Goto, Resumed
<1>2. /\ ppc'[p] = "convHook" /\ p \in Active /\ \A q \in Prompts : q # p => ppc'[q] = ppc[q]
      /\ chat'[p] = Append(saved, m) /\ saved \in Seq(Messages)
  BY <1>1 DEF TurnInv, WellInv, ChatTypes, Active
<1>3. m \in Messages /\ m.role = "user" /\ m.prompt = p
  BY MessageTypes, AgentSessionAssumption
<1>4. Append(saved, m) = saved \o t
  BY <1>2, <1>3, AppendIsConcat
<1> HIDE DEF m
<1>5. t \in Seq(Messages) /\ Len(t) = 1 /\ t[1] = m /\ TurnSoFar(t, p)
  BY <1>3 DEF TurnSoFar
<1>6. Well(t)
  <2>1. t = Append(<<>>, m)
    OBVIOUS
  <2> QED
    BY <2>1, <1>3, EmptyIsWell, EmptySeq, PlainMessageKeepsWell
<1> HIDE DEF t
<1>7. TurnOk("convHook", saved', chat'[p], p, round'[p], Len(cpc'[p]))
  BY <1>1, <1>2, <1>4, <1>5, <1>6 DEF TurnOk
<1> QED
  BY <1>2, <1>7, TurnMovesOn

LEMMA HookKeepsTurns ==
    ASSUME TurnInv, WellInv', ReachInv', NEW p \in Prompts, NEW runs \in BOOLEAN,
           NEW from \in AtRest, NEW to \in AtRest,
           Hook(p, runs, from, to), UNCHANGED <<saved, round, cpc>>
    PROVE  TurnInv'
<1>1. PICK there \in AtRest \cup {"cleanup"} : Goto(p, from, there)
  BY DEF Hook
<1>2. /\ ppc[p] = from /\ ppc'[p] = there /\ p \in Active
      /\ \A q \in Prompts : q # p => ppc'[q] = ppc[q]
  BY <1>1 DEF Goto, TurnInv, WellInv, ChatTypes, Active, AtRest
<1>3. PICK t \in Seq(Messages) : TurnSoFar(t, p) /\ Well(t) /\ chat[p] = saved \o t
  BY <1>2 DEF TurnInv, TurnsOk, TurnOk
<1>4. CASE UNCHANGED chat
  <2>1. TurnOk(there, saved', chat'[p], p, round'[p], Len(cpc'[p]))
    BY <1>3, <1>4 DEF TurnOk, AtRest
  <2> QED
    BY <2>1, <1>2, TurnMovesOn
<1>5. CASE chat' = [chat EXCEPT ![p] = Append(@, Message("system", p, 0, 0))]
  <2> DEFINE m == Message("system", p, 0, 0)
  <2>1. m \in Messages /\ m.role = "system" /\ m.prompt = p
    BY MessageTypes, AgentSessionAssumption
  <2>2. chat'[p] = Append(saved \o t, m) /\ saved \in Seq(Messages)
    BY <1>3, <1>5 DEF TurnInv, WellInv, ChatTypes
  <2> HIDE DEF m
  <2>3. chat'[p] = saved \o Append(t, m)
    BY <2>1, <2>2, AppendInside
  <2>4. Append(t, m) \in Seq(Messages) /\ Well(Append(t, m)) /\ TurnSoFar(Append(t, m), p)
    BY <1>3, <2>1, PlainMessageKeepsWell, TurnGrowsByOne
  <2>5. TurnOk(there, saved', chat'[p], p, round'[p], Len(cpc'[p]))
    BY <2>3, <2>4 DEF TurnOk, AtRest
  <2> QED
    BY <2>5, <1>2, TurnMovesOn
<1> QED
  BY <1>4, <1>5 DEF Hook

LEMMA ToolsBeginTurn ==
    ASSUME TurnInv, WellInv', ReachInv', NEW p \in Prompts, LLMCallsTools(p)
    PROVE  TurnInv'
<1>1. PICK n \in 1 .. MaxCalls :
        /\ chat' = [chat EXCEPT ![p] = Append(@, Message("assistant", p, round[p] + 1, n))]
        /\ cpc' = [cpc EXCEPT ![p] = [i \in 1 .. n |-> "start"]]
  BY DEF LLMCallsTools
<1>2. /\ ppc[p] = "llm" /\ ppc' = [ppc EXCEPT ![p] = "tools"] /\ saved' = saved
      /\ round' = [round EXCEPT ![p] = @ + 1] /\ round[p] < MaxRounds
  BY DEF LLMCallsTools, Goto
<1>3. /\ ppc'[p] = "tools" /\ p \in Active /\ \A q \in Prompts : q # p => ppc'[q] = ppc[q]
      /\ round'[p] = round[p] + 1 /\ round[p] \in 0 .. MaxRounds
      /\ saved \in Seq(Messages) /\ Len(cpc'[p]) = n
  BY <1>1, <1>2, AgentSessionAssumption DEF TurnInv, WellInv, ChatTypes, Active
<1>4. PICK t \in Seq(Messages) : TurnSoFar(t, p) /\ Well(t) /\ chat[p] = saved \o t
  BY <1>2 DEF TurnInv, TurnsOk, TurnOk, AtRest
<1> DEFINE m == Message("assistant", p, round[p] + 1, n)
<1>5. m \in Messages
  <2>1. n \in 0 .. MaxCalls /\ round[p] + 1 \in 0 .. MaxRounds
    BY <1>2, <1>3, AgentSessionAssumption
  <2> QED
    BY <2>1, MessageTypes
<1>6. chat'[p] = Append(saved \o t, m)
  BY <1>1, <1>4 DEF TurnInv, WellInv, ChatTypes
<1>7. chat'[p] = saved \o Append(t, m)
  BY ONLY <1>3, <1>5, <1>6, AppendInside, t \in Seq(Messages)
<1>8. TurnOk("tools", saved', chat'[p], p, round'[p], Len(cpc'[p]))
  BY <1>2, <1>3, <1>4, <1>7 DEF TurnOk, AtRest
<1> QED
  BY <1>3, <1>8, TurnMovesOn

LEMMA CollectKeepsTurns ==
    ASSUME TurnInv, WellInv', ReachInv', NEW p \in Prompts, CollectResults(p)
    PROVE  TurnInv'
<1> DEFINE m == Message("assistant", p, round[p], Len(cpc[p]))
           results == ToolMessages(p)
<1>1. /\ ppc[p] = "tools" /\ ppc' = [ppc EXCEPT ![p] = "llm"]
      /\ chat' = [chat EXCEPT ![p] = @ \o results] /\ saved' = saved
  BY DEF CollectResults, Goto
<1>2. /\ ppc'[p] = "llm" /\ p \in Active /\ \A q \in Prompts : q # p => ppc'[q] = ppc[q]
      /\ chat'[p] = chat[p] \o results /\ saved \in Seq(Messages)
      /\ round[p] \in 0 .. MaxRounds /\ Len(cpc[p]) \in 0 .. MaxCalls
  BY <1>1, LenProperties, AgentSessionAssumption DEF TurnInv, WellInv, ChatTypes, Active
<1>3. PICK t \in Seq(Messages) :
        TurnSoFar(t, p) /\ Well(t) /\ chat[p] = saved \o Append(t, m)
  BY <1>1 DEF TurnInv, TurnsOk, TurnOk
<1>4. m \in Messages /\ m.role = "assistant" /\ m.prompt = p
  BY <1>2, MessageTypes
<1>5. /\ results \in Seq(Messages)
      /\ Len(results) = Len(cpc[p])
      /\ \A k \in 1 .. Len(cpc[p]) : results[k] = Message("tool", p, round[p], k)
  BY ToolMessagesTypes DEF TurnInv, WellInv
<1>6. Append(t, m) \o results \in Seq(Messages) /\ Well(Append(t, m) \o results)
  BY <1>2, <1>3, <1>5, RoundKeepsWell
<1>7. \A k \in 1 .. Len(results) : results[k].prompt = p /\ results[k].role # "user"
  <2> SUFFICES ASSUME NEW k \in 1 .. Len(cpc[p])
               PROVE  results[k].prompt = p /\ results[k].role # "user"
    BY <1>5
  <2>1. k \in 0 .. MaxCalls
    BY <1>2, AgentSessionAssumption
  <2>2. Message("tool", p, round[p], k).prompt = p /\ Message("tool", p, round[p], k).role = "tool"
    BY <1>2, <2>1, MessageTypes
  <2> QED
    BY <2>2, <1>5
<1> HIDE DEF m, results
<1>8. TurnSoFar(Append(t, m), p) /\ Append(t, m) \in Seq(Messages)
  BY <1>3, <1>4, TurnGrowsByOne DEF TurnSoFar
<1>9. TurnSoFar(Append(t, m) \o results, p)
  BY <1>5, <1>7, <1>8, TurnGrows
<1>10. chat'[p] = saved \o (Append(t, m) \o results)
  <2>1. (saved \o Append(t, m)) \o results = saved \o (Append(t, m) \o results)
    <3>1. \A a, b, c \in Seq(Messages) : (a \o b) \o c = a \o (b \o c)
      BY ConcatAssociative
    <3> QED
      BY ONLY <3>1, <1>2, <1>5, <1>8
  <2> QED
    BY ONLY <2>1, <1>2, <1>3
<1>11. TurnOk("llm", saved', chat'[p], p, round'[p], Len(cpc'[p]))
  BY <1>1, <1>6, <1>9, <1>10 DEF TurnOk
<1> QED
  BY <1>2, <1>11, TurnMovesOn

(* A step of a prompt that has no turn yet, leaves its turn alone or ends it. *)
LEMMA OthersKeepTurns ==
    ASSUME TurnInv, WellInv', ReachInv', NEW p \in Prompts,
           \/ BuildFails(p) \/ BuildToolRegistry(p) \/ StoreCancel(p)
           \/ LLMReplies(p) \/ LLMFails(p) \/ SaveHistory(p) \/ Cleanup(p)
    PROVE  TurnInv'
<1>1. PICK from \in PPC \ {"unborn", "done", "tools"}, to \in PPC \ {"tools"} :
        /\ Goto(p, from, to)
        /\ to \in AtRest => from \in AtRest /\ UNCHANGED <<saved, chat>>
  BY DEF BuildFails, BuildToolRegistry, StoreCancel, LLMReplies, LLMFails, SaveHistory,
         Cleanup, PPC, AtRest
<1>2. /\ ppc[p] = from /\ ppc'[p] = to /\ p \in Active
      /\ \A q \in Prompts : q # p => ppc'[q] = ppc[q]
  BY <1>1 DEF Goto, TurnInv, WellInv, ChatTypes, Active
<1>3. TurnOk(to, saved', chat'[p], p, round'[p], Len(cpc'[p]))
  BY <1>1, <1>2 DEF TurnInv, TurnsOk, TurnOk
<1> QED
  BY <1>2, <1>3, TurnMovesOn

LEMMA TurnStep ==
    ASSUME "overlap" \notin Features, "resume" \notin Features
    PROVE  TurnInv /\ [Next]_vars => TurnInv'
<1> SUFFICES ASSUME TurnInv, [Next]_vars PROVE TurnInv'
  OBVIOUS
<1>1. WellInv' /\ ReachInv'
  BY WellStep, ReachStep DEF TurnInv
<1>2. CASE UNCHANGED vars \/ Cancel
  BY <1>1, <1>2 DEF vars, Cancel, TurnInv, TurnsOk
<1>3. ASSUME NEW p \in Prompts, PromptArrives(p) \/ OwnStep(p) \/ WaitOver(p)
      PROVE  TurnInv'
  <2>1. CASE PromptArrives(p)
    <3>1. Active = {} /\ ppc' = [ppc EXCEPT ![p] = "build"]
      BY <2>1 DEF PromptArrives, Goto
    <3>2. \A q \in Prompts : ppc'[q] \in {"unborn", "done", "build"}
      BY <3>1 DEF Active, TurnInv, WellInv, ChatTypes
    <3>3. TurnsOk'
      BY <3>2 DEF TurnsOk, TurnOk, AtRest
    <3> QED
      BY <3>3, <1>1 DEF TurnInv
  <2>2. CASE \/ BuildFails(p) \/ BuildToolRegistry(p) \/ StoreCancel(p)
             \/ LLMReplies(p) \/ LLMFails(p) \/ SaveHistory(p) \/ Cleanup(p)
    BY <2>2, <1>1, OthersKeepTurns
  <2>3. CASE LoadHistory(p)
    BY <2>3, <1>1, LoadKeepsTurns
  <2>4. CASE ConversationBegin(p)
    <3>1. ("hooks" \in Features /\ ~Resumed(p) /\ Len(chat[p]) <= 1) \in BOOLEAN
      OBVIOUS
    <3> QED
      BY <2>4, <3>1, <1>1, HookKeepsTurns DEF ConversationBegin, AtRest
  <2>5. CASE TurnBegin(p)
    <3>1. ("hooks" \in Features /\ ~Resumed(p)) \in BOOLEAN
      OBVIOUS
    <3> QED
      BY <2>5, <3>1, <1>1, HookKeepsTurns DEF TurnBegin, AtRest
  <2>6. CASE LLMCallsTools(p)
    BY <2>6, <1>1, ToolsBeginTurn
  <2>7. CASE CollectResults(p)
    BY <2>7, <1>1, CollectKeepsTurns
  <2>8. CASE \E i \in 1 .. MaxCalls :
               CallStart(p, i) \/ CallInput(p, i) \/ CallReturns(p, i) \/ CallClose(p, i)
    <3>1. PICK i \in 1 .. MaxCalls, from \in CPC, to \in CPC : CallGoto(p, i, from, to)
      BY <2>8 DEF CallStart, CallInput, CallReturns, CallClose, CPC
    <3>2. /\ UNCHANGED <<saved, ppc, chat, round>> /\ i \in DOMAIN cpc[p]
          /\ cpc' = [cpc EXCEPT ![p] = [cpc[p] EXCEPT ![i] = to]]
      BY <3>1 DEF CallGoto
    <3>3. cpc[p] \in Seq(CPC) /\ i \in 1 .. Len(cpc[p]) /\ to \in CPC
      BY <3>2, LenProperties DEF TurnInv, WellInv, ChatTypes
    <3>4. Len([cpc[p] EXCEPT ![i] = to]) = Len(cpc[p])
      BY <3>3, ExceptSeq
    <3>5. \A q \in Prompts : Len(cpc'[q]) = Len(cpc[q])
      BY <3>2, <3>4 DEF TurnInv, WellInv, ChatTypes
    <3>6. TurnsOk'
      BY <3>2, <3>5 DEF TurnInv, TurnsOk
    <3> QED
      BY <3>6, <1>1 DEF TurnInv
  <2> QED
    BY <1>3, <2>1, <2>2, <2>3, <2>4, <2>5, <2>6, <2>7, <2>8 DEF OwnStep, WaitOver
<1> QED
  BY <1>2, <1>3 DEF Next

(* Only SaveHistory changes what is saved, and it adds a whole turn. *)
LEMMA SavesWholeTurns ==
    TurnInv /\ [Next]_vars => [History!CHNext]_saved
<1> SUFFICES ASSUME TurnInv, [Next]_vars, saved' # saved
             PROVE  History!CHNext
  OBVIOUS
<1>1. PICK p \in Prompts : SaveHistory(p)
  BY DEF Next, vars, Cancel, OwnStep, WaitOver, PromptArrives, BuildFails, BuildToolRegistry,
         StoreCancel, LoadHistory, ConversationBegin, TurnBegin, LLMCallsTools, LLMReplies,
         LLMFails, CallStart, CallInput, CallReturns, CallClose, CallGoto, CollectResults,
         Cleanup
<1>2. ppc[p] = "save" /\ saved' = chat[p]
  BY <1>1 DEF SaveHistory, Goto
<1>3. PICK t \in Seq(Messages) : TurnSoFar(t, p) /\ Well(t) /\ chat[p] = saved \o t
  BY <1>2 DEF TurnInv, TurnsOk, TurnOk, AtRest
<1>4. saved \in Seq(Messages) /\ Len(saved) \in Nat /\ Len(t) \in Nat /\ Len(t) > 0
  BY <1>3, LenProperties DEF TurnInv, WellInv, ChatTypes, TurnSoFar
<1>5. /\ saved' \in Seq(Messages) /\ Len(saved') = Len(saved) + Len(t)
      /\ \A i \in 1 .. Len(saved) : saved[i] = saved'[i]
  BY <1>2, <1>3, <1>4, ConcatProperties
<1>6. IsPrefix(saved, saved')
  BY <1>4, <1>5, PrefixByIndex
<1>7. SubSeq(saved', Len(saved) + 1, Len(saved')) = t
  <2>1. /\ Len(saved) + 1 \in Len(saved) + 1 .. Len(saved) + Len(t)
        /\ Len(saved) + Len(t) \in Len(saved) + 1 .. Len(saved) + Len(t)
    BY <1>4
  <2>2. SubSeq(saved \o t, Len(saved) + 1, Len(saved) + Len(t))
          = SubSeq(t, Len(saved) + 1 - Len(saved), Len(saved) + Len(t) - Len(saved))
    BY <1>4, <2>1, SubSeqOfConcat2
  <2>3. Len(saved) + 1 - Len(saved) = 1 /\ Len(saved) + Len(t) - Len(saved) = Len(t)
    BY <1>4
  <2>4. SubSeq(t, 1, Len(t)) = t
    BY SubSeqFull
  <2> QED
    BY ONLY <2>2, <2>3, <2>4, <1>2, <1>3, <1>5
<1>8. History!IsTurn(t)
  <2>1. DOMAIN t = 1 .. Len(t) /\ t # <<>>
    BY <1>4, LenProperties, EmptySeq
  <2>2. t[1].prompt = p
    BY <1>3, <1>4 DEF TurnSoFar
  <2>3. \A i \in 1 .. Len(t) : t[i].prompt = t[1].prompt
    BY <1>3, <2>2 DEF TurnSoFar
  <2> QED
    BY <1>3, <2>1, <2>3 DEF TurnSoFar, Well, History!IsTurn
<1>9. History!IsTurn(SubSeq(saved', Len(saved) + 1, Len(saved')))
  BY ONLY <1>7, <1>8
<1>10. History!IsPrefix(saved, saved')
  BY <1>6 DEF IsPrefix, History!IsPrefix
<1> QED
  BY ONLY <1>9, <1>10 DEF History!CHNext

(* AgentSession implements ChatHistory, when the client waits for the answer and no
   older conversation is continued: SaveHistory (cmd_acp.go) replaces the history of
   the session by what runPrompt made of it, and that is the same history and one
   whole turn. *)
THEOREM SessionKeepsPromise ==
    ASSUME "overlap" \notin Features, "resume" \notin Features
    PROVE  Spec => ChatHistorySpec
<1>1. Init => TurnInv
  BY EmptyIsWell, EmptySeq, AgentSessionAssumption
     DEF Init, TurnInv, TurnsOk, TurnOk, WellInv, ChatTypes, ChatsOk, ChatOk, AtRest, PPC,
         ReachInv, Active, Served
<1>2. Init => History!CHInit
  BY DEF Init, History!CHInit
<1> QED
  BY <1>1, <1>2, TurnStep, SavesWholeTurns, PTL DEF Spec, ChatHistorySpec, History!CHSpec
=============================================================================
